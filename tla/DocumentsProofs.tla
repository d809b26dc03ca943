-------------------------- MODULE DocumentsProofs --------------------------
(***************************************************************************)
(* For every number of tasks, attempts, graph runs and faults: a document  *)
(* is not shown as completed or processing without a reason, executions    *)
(* that do not overlap start one graph run at a time, and the saved        *)
(* pipeline state moves as GraphBuild says.                                *)
(***************************************************************************)
EXTENDS DocumentsProps, TLAPS

\* A task that is not over has an attempt left.
AttemptLeft == \A t \in Tasks : task[t].at # "done" => task[t].made < MaxAttempts

(***************************************************************************)
(* A document shown as completed was indexed once, and why.                *)
(***************************************************************************)
CompletedIsIndexed == row.cognify = "completed" => indexed

IndexInv ==
  /\ text = "indexed" => indexed
  /\ \A t \in Tasks : task[t].at = "finish" => indexed
  /\ CompletedIsIndexed

(***************************************************************************)
(* Why ProcessingHasOwner holds.  Whoever writes "processing" is at work   *)
(* until it writes something else: a call that threw has, a job has not    *)
(* done so until its last attempt.                                         *)
(***************************************************************************)
Owns(t) == \/ task[t].at \notin {"free", "done", "thrown"}
           \/ task[t].at = "thrown" /\ t \in Jobs

Claimed     == Exists /\ row.cognify = "processing" /\ ~abandoned
RequestOwns == request.at \in {"embed", "graph"} /\ request.by = "reprocess"

OwnerInv ==
  /\ Claimed => RequestOwns \/ \E t \in Tasks : Owns(t)
  /\ row.status = "absent" => row.cognify # "processing"

(***************************************************************************)
(* Why OneGraph holds.  The phase on the row, and the phase in the copy of *)
(* the one execution at work, say which run may be unfailed: none before   *)
(* the launch, the saved one after it.  Between the two the row says       *)
(* "launching", which no execution launches from.                          *)
(***************************************************************************)
Clean   == \A r \in Runs : ~Unfailed(r)
Only(q) == q \in Runs /\ \A r \in Runs : Unfailed(r) => r = q

Unlaunched == {"none", "stored"}
Launched   == {"running", "failed", "completed"}

TaskGraph(t) ==
  /\ task[t].at \in {"add", "saveAdd", "claim", "launch"} => Clean
  /\ task[t].at = "mark" => /\ task[t].pipe.phase \in Unlaunched => Clean
                            /\ task[t].pipe.phase \in Launched => Only(task[t].pipe.run)
  /\ task[t].at \in {"saveRun", "poll"} => Only(task[t].pipe.run)
  /\ task[t].at = "saveAdd" => task[t].pipe.phase = "stored"
  /\ task[t].at = "saveRun" => /\ task[t].pipe.phase \in {"running", "failed"}
                               /\ task[t].pipe.phase = "failed" => Clean
  /\ Exists =>
       /\ \/ task[t].at \in {"add", "saveAdd", "claim"}
          \/ task[t].at = "mark" /\ task[t].pipe.phase \in Unlaunched
          => row.pipe.phase \in Unlaunched
       /\ task[t].at \in {"launch", "saveRun"} => row.pipe.phase = "launching"

RowGraph ==
  /\ row.pipe.phase \in Unlaunched \cup {"failed"} => Clean
  /\ row.pipe.phase \in Launched => Only(row.pipe.run)

OneRun   == \A r, q \in Runs : Unfailed(r) /\ Unfailed(q) => r = q
OneWorks == \A t, u \in Tasks : task[t].at \in Working /\ task[u].at \in Working => t = u

Clears == Exists /\ request.at = "claim" /\ request.clears

GraphInv ==
  /\ row.status = "absent" =>
       /\ Clean /\ row.pipe = NoPipe /\ request.at # "claim"
       /\ \A t \in Tasks : task[t].at \notin Working
  /\ ~overlapped =>
       /\ OneWorks
       /\ \A t \in Tasks : TaskGraph(t)
       /\ Exists => RowGraph
       /\ Clears => row.pipe.phase = "failed"
       /\ OneRun

IndInv == TypeOK /\ AttemptLeft /\ IndexInv /\ OwnerInv /\ GraphInv

-----------------------------------------------------------------------------
TaskType == [Tasks -> [at : Stages, made : 0 .. MaxAttempts, stalled : BOOLEAN, pipe : Pipes]]

\* No pipeline, and the pipelines the steps save, are pipelines.
LEMMA PipeType ==
  /\ NoPipe \in Pipes
  /\ Pipe("stored", None) \in Pipes /\ Pipe("launching", None) \in Pipes
  /\ \A r \in Runs : Pipe("running", r) \in Pipes /\ Pipe("failed", r) \in Pipes
  /\ \A q \in Pipes : /\ [q EXCEPT !.phase = "completed"] \in Pipes
                       /\ [q EXCEPT !.phase = "failed"] \in Pipes
BY DEF NoPipe, Pipe, Pipes

\* A move changes one task.
LEMMA Moved ==
  ASSUME TypeOK, NEW t \in Tasks, NEW stage, NEW pipe, MoveTo(t, stage, pipe), NEW u \in Tasks
  PROVE  /\ task'[u].at = (IF u = t THEN stage ELSE task[u].at)
         /\ task'[u].made = task[u].made /\ task'[u].stalled = task[u].stalled
         /\ u # t => task'[u].pipe = task[u].pipe
         /\ u = t => task'[u].pipe = (IF stage \in Working THEN pipe ELSE NoPipe)
BY DEF TypeOK, MoveTo

\* A move leaves the tasks well typed, with as many attempts.
LEMMA MoveType ==
  ASSUME TypeOK, AttemptLeft, NEW t \in Tasks, task[t].at # "done",
         NEW stage \in Stages, NEW pipe \in Pipes, MoveTo(t, stage, pipe)
  PROVE  task' \in TaskType /\ AttemptLeft'
<1> DEFINE copy == IF stage \in Working THEN pipe ELSE NoPipe
<1>1. copy \in Pipes
  BY PipeType
<1>2. task' \in TaskType
  <2>1. task' = [task EXCEPT ![t].at = stage, ![t].pipe = copy]
    BY DEF MoveTo
  <2>2. task \in TaskType
    BY DEF TypeOK, TaskType
  <2> HIDE DEF copy
  <2> QED
    BY <1>1, <2>1, <2>2 DEF TaskType
<1>3. AttemptLeft'
  BY Moved DEF AttemptLeft
<1> QED
  BY <1>2, <1>3

\* A task at any stage can go anywhere with an empty copy.
LEMMA GotoType ==
  ASSUME TypeOK, AttemptLeft, NEW t \in Tasks, task[t].at # "done", NEW stage \in Stages, Goto(t, stage)
  PROVE  task' \in TaskType /\ AttemptLeft'
BY MoveType, PipeType DEF Goto

\* The updates of the row.
LEMMA RowType ==
  ASSUME TypeOK, NEW value \in {"null", "processing", "completed", "failed"},
         NEW status \in {"ready", "error", "deleted"}, NEW pipe \in Pipes
  PROVE  /\ SetCognify(value) => row' \in Rows
         /\ SetError => row' \in Rows
         /\ [row EXCEPT !.status = status] \in Rows
         /\ [row EXCEPT !.pipe = pipe] \in Rows
         /\ [row EXCEPT !.cognify = value] \in Rows
         /\ [row EXCEPT !.cognify = value, !.pipe = pipe] \in Rows
         /\ [row EXCEPT !.status = status, !.cognify = value] \in Rows
         /\ NoRow \in Rows /\ [NoRow EXCEPT !.status = status] \in Rows
BY PipeType DEF TypeOK, SetCognify, SetError, Rows, NoRow

\* Faults are counted up to their bound.
LEMMA FaultType == TypeOK /\ Fault => faults' \in 0 .. MaxFaults
BY DocumentsAssumption DEF TypeOK, Fault

\* The stages by name.
LEMMA StageNames ==
  /\ {"mark", "add", "saveAdd", "claim", "launch", "saveRun", "poll", "queued", "select", "send",
      "fail", "thrown", "finish", "done"} \subseteq Stages
  /\ Working \subseteq Stages
BY DEF Stages, Working

\* The steps that touch the row, one task and the fault counter only.
Frame ==
  UNCHANGED <<request, embed, text, run, enabled, purge, indexed>>

\* Such a step is well typed when its parts are.
LEMMA FrameType ==
  ASSUME TypeOK, row' \in Rows, task' \in TaskType, Frame,
         faults' \in 0 .. MaxFaults, overlapped' \in BOOLEAN, abandoned' \in BOOLEAN
  PROVE  TypeOK'
BY DEF TypeOK, Frame, TaskType

\* Where a marked execution goes.
LEMMA AfterMarkType ==
  ASSUME NEW pipe \in Pipes
  PROVE  /\ AfterMark(pipe) \in {"add", "claim", "fail", "poll"}
         /\ AfterMark(pipe) = "add"   => pipe.phase = "none"
         /\ AfterMark(pipe) = "claim" => pipe.phase = "stored"
         /\ AfterMark(pipe) = "poll"  => pipe.phase \in Launched
BY DEF AfterMark, Pipes, Launched

\* A begun execution.
LEMMA BeginType ==
  ASSUME TypeOK, AttemptLeft, NEW t \in Tasks, task[t].at # "done", Begin(t)
  PROVE  task' \in TaskType /\ AttemptLeft' /\ overlapped' \in BOOLEAN /\ abandoned' \in BOOLEAN
<1>1. row.pipe \in Pipes /\ "mark" \in Stages
  BY StageNames DEF TypeOK, Rows
<1>2. task' \in TaskType /\ AttemptLeft'
  BY <1>1, MoveType DEF Begin
<1>3. overlapped' \in BOOLEAN
  BY DEF Begin
<1> QED
  BY <1>2, <1>3 DEF Begin, TypeOK

\* An identity the sidecar has not used.
LEMMA NewRunType == FreeRuns # {} => NewRun \in Runs /\ run[NewRun] = "none"
BY DEF FreeRuns, NewRun

\* What a launch request can come to.
LEMMA LaunchCases ==
  ASSUME NEW t, Launch(t)
  PROVE  \/ /\ FreeRuns # {} /\ run' = [run EXCEPT ![NewRun] = "running"]
            /\ MoveTo(t, "saveRun", Pipe("running", NewRun))
         \/ /\ FreeRuns # {} /\ run' = [run EXCEPT ![NewRun] = "errored"]
            /\ MoveTo(t, "saveRun", Pipe("failed", NewRun))
         \/ /\ FreeRuns # {} /\ run' = [run EXCEPT ![NewRun] = "running"]
            /\ Goto(t, "fail")
         \/ run' = run /\ Goto(t, "fail")
BY DEF Launch

\* A job nobody uses.
LEMMA FreeJobType ==
  ASSUME FreeJobs # {}
  PROVE  (CHOOSE j \in FreeJobs : TRUE) \in Tasks /\ task[CHOOSE j \in FreeJobs : TRUE].at = "free"
                                               /\ (CHOOSE j \in FreeJobs : TRUE) \in Jobs
BY DEF FreeJobs, Free, Tasks

Types == TypeOK /\ AttemptLeft

\* The steps of the requests are well typed.
LEMMA RequestTypes ==
  ASSUME Types, Upload \/ ReprocessRead \/ ReprocessClaim \/ EnqueueEmbed \/ EnqueueGraph
  PROVE  Types'
<1> USE DEF Types
<1>0. /\ NoRequest \in Requests /\ row \in Rows /\ row.pipe \in Pipes
      /\ row.cognify \in {"null", "processing", "completed", "failed"}
  BY DEF TypeOK, NoRequest, Requests, Rows
<1>1. CASE Upload
  <2>1. request' \in Requests
    BY <1>1 DEF Upload, NoRequest, Requests
  <2>2. row' \in Rows
    BY <1>0, <1>1 DEF Upload, Rows
  <2> QED
    BY <1>1, <2>1, <2>2 DEF Upload, TypeOK, AttemptLeft, sidecar, settings, history
<1>2. CASE ReprocessRead
  <2>1. request' \in Requests
    <3>1. row.status \in {"ready", "error"}
      BY <1>2 DEF ReprocessRead, Exists
    <3>2. (row.pipe.phase = "failed") \in BOOLEAN
      OBVIOUS
    <3> DEFINE clears == row.pipe.phase = "failed"
    <3>3. request' = [at |-> "claim", by |-> "reprocess", status |-> row.status,
                      cognify |-> row.cognify, clears |-> clears]
      BY <1>2 DEF ReprocessRead
    <3>4. clears \in BOOLEAN
      BY <3>2
    <3> HIDE DEF clears
    <3> QED
      BY <1>0, <3>1, <3>3, <3>4 DEF Requests
  <2> QED
    BY <1>2, <2>1 DEF ReprocessRead, TypeOK, AttemptLeft, sidecar, settings, history
<1>3. CASE ReprocessClaim
  <2>1. request' \in Requests
    <3>1. request' = [NoRequest EXCEPT !.at = "embed", !.by = "reprocess"] \/ request' = NoRequest
      BY <1>3 DEF ReprocessClaim
    <3> QED
      BY <1>0, <3>1 DEF Requests
  <2>2. row' \in Rows
    <3> DEFINE pipe == IF request.clears THEN NoPipe ELSE row.pipe
    <3>1. pipe \in Pipes
      BY <1>0, PipeType
    <3>2. row' = row \/ row' = [row EXCEPT !.cognify = "processing", !.pipe = pipe]
      BY <1>3 DEF ReprocessClaim
    <3> HIDE DEF pipe
    <3> QED
      BY <1>0, <3>1, <3>2 DEF Rows
  <2> QED
    BY <1>3, <2>1, <2>2 DEF ReprocessClaim, TypeOK, AttemptLeft, sidecar, settings, history
<1>4. ASSUME NEW status \in {row.status, "error"}, RequestFailed(status)
      PROVE  row' \in Rows /\ request' \in Requests
  <2>1. CASE Exists
    <3>1. status \in {"ready", "error"}
      BY <2>1 DEF Exists
    <3> DEFINE cognify == IF request.by = "reprocess" /\ row.cognify = "processing"
                         THEN "failed" ELSE row.cognify
    <3>2. cognify \in {"null", "processing", "completed", "failed"}
      BY <1>0
    <3>3. row' = [row EXCEPT !.status = status, !.cognify = cognify]
      BY <1>4, <2>1 DEF RequestFailed
    <3> HIDE DEF cognify
    <3> QED
      BY <1>0, <1>4, <3>1, <3>2, <3>3, RowType DEF RequestFailed
  <2>2. CASE ~Exists
    BY <1>0, <1>4, <2>2 DEF RequestFailed
  <2> QED
    BY <2>1, <2>2
<1>5. CASE EnqueueEmbed
  <2>1. row' \in Rows /\ request' \in Requests
    <3>1. \/ row' = row /\ request' = [request EXCEPT !.at = "graph"]
          \/ \E status \in {row.status, "error"} : RequestFailed(status)
      BY <1>5 DEF EnqueueEmbed
    <3>2. [request EXCEPT !.at = "graph"] \in Requests
      BY DEF TypeOK, Requests
    <3> QED
      BY <1>0, <1>4, <3>1, <3>2
  <2>2. embed' \in {"free", "queued", "done", "failed"} /\ faults' \in 0 .. MaxFaults
    BY <1>5, FaultType DEF EnqueueEmbed, TypeOK
  <2> QED
    BY <1>5, <2>1, <2>2 DEF EnqueueEmbed, TypeOK, AttemptLeft, sidecar, settings, history
<1>6. CASE EnqueueGraph
  <2>1. row' \in Rows /\ request' \in Requests
    <3>1. \/ row' = row /\ request' = NoRequest
          \/ RequestFailed(row.status)
          \/ SetCognify("failed") /\ request' = NoRequest
      BY <1>6 DEF EnqueueGraph
    <3> QED
      BY <1>0, <1>4, <3>1, RowType
  <2>2. /\ task' \in TaskType /\ AttemptLeft'
        /\ overlapped' \in BOOLEAN /\ abandoned' \in BOOLEAN
    <3>1. \/ FreeJobs # {} /\ Goto(CHOOSE j \in FreeJobs : TRUE, "queued") /\ UNCHANGED history
          \/ UNCHANGED task /\ UNCHANGED history
          \/ \E c \in Calls : Free(c) /\ Begin(c)
          \/ abandoned' = TRUE /\ UNCHANGED <<task, overlapped>>
      BY <1>6 DEF EnqueueGraph
    <3>2. CASE FreeJobs # {} /\ Goto(CHOOSE j \in FreeJobs : TRUE, "queued") /\ UNCHANGED history
      <4>1. task' \in TaskType /\ AttemptLeft'
        BY <3>2, FreeJobType, GotoType, StageNames
      <4> QED
        BY <3>2, <4>1 DEF history, TypeOK
    <3>3. CASE UNCHANGED task /\ UNCHANGED history
      BY <3>3 DEF TypeOK, TaskType, AttemptLeft, history
    <3>4. CASE \E c \in Calls : Free(c) /\ Begin(c)
      BY <3>4, BeginType DEF Free, Tasks
    <3>5. CASE abandoned' = TRUE /\ UNCHANGED <<task, overlapped>>
      BY <3>5 DEF TypeOK, TaskType, AttemptLeft
    <3> QED
      BY <3>1, <3>2, <3>3, <3>4, <3>5
  <2>3. faults' \in 0 .. MaxFaults
    BY <1>6, FaultType DEF EnqueueGraph, TypeOK
  <2> QED
    BY <1>6, <2>1, <2>2, <2>3 DEF EnqueueGraph, TypeOK, TaskType, sidecar, settings
<1> QED
  BY <1>1, <1>2, <1>3, <1>5, <1>6
\* The embed job and the takers of a job are well typed.
LEMMA TakeTypes ==
  ASSUME Types,
         \/ EmbedRuns
         \/ \E j \in Jobs : TakeLocked(j) \/ TakeDisabled(j) \/ TakeGone(j) \/ Take(j)
         \/ \E c \in Calls : EnableDocument(c) \/ Recognify(c)
  PROVE  Types'
<1> USE DEF Types
<1>1. CASE EmbedRuns
  <2>1. row' \in Rows
    BY <1>1, RowType, PipeType DEF EmbedRuns, TypeOK
  <2>2. faults' \in 0 .. MaxFaults
    BY <1>1, FaultType DEF EmbedRuns, TypeOK
  <2> QED
    BY <1>1, <2>1, <2>2 DEF EmbedRuns, TypeOK, AttemptLeft, sidecar, settings, history
<1>2. ASSUME NEW t \in Tasks, task[t].at # "done",
             \/ t \in Jobs /\ (TakeLocked(t) \/ TakeDisabled(t) \/ TakeGone(t) \/ Take(t))
             \/ t \in Calls /\ (EnableDocument(t) \/ Recognify(t))
      PROVE  Types'
  <2>1. row' \in Rows
    BY <1>2, RowType DEF TakeLocked, TakeDisabled, TakeGone, Take, EnableDocument, Recognify, TypeOK
  <2>2. faults' \in 0 .. MaxFaults
    BY <1>2, FaultType DEF TakeLocked, TakeDisabled, TakeGone, Take, EnableDocument, Recognify, TypeOK
  <2>3. /\ task' \in TaskType /\ AttemptLeft'
        /\ overlapped' \in BOOLEAN /\ abandoned' \in BOOLEAN
    <3>1. CASE Begin(t)
      BY <1>2, <3>1, BeginType
    <3>2. CASE Goto(t, "done") \/ Goto(t, "select")
      <4>1. task' \in TaskType /\ AttemptLeft'
        BY <1>2, <3>2, GotoType, StageNames
      <4>2. overlapped' \in BOOLEAN
        BY <1>2, BeginType DEF TakeLocked, TakeDisabled, TakeGone, Take, EnableDocument, Recognify,
                               TypeOK, history
      <4>3. abandoned' \in BOOLEAN
        BY <1>2, BeginType DEF TakeLocked, TakeDisabled, TakeGone, Take, EnableDocument, Recognify,
                               TypeOK, history
      <4> QED
        BY <4>1, <4>2, <4>3
    <3> QED
      BY <1>2, <3>1, <3>2 DEF TakeLocked, TakeDisabled, TakeGone, Take, EnableDocument, Recognify
  <2>4. Frame
    BY <1>2 DEF TakeLocked, TakeDisabled, TakeGone, Take, EnableDocument, Recognify, Frame,
                sidecar, settings
  <2> QED
    BY <2>1, <2>2, <2>3, <2>4, FrameType
<1>3. \A j \in Jobs :
        TakeLocked(j) \/ TakeDisabled(j) \/ TakeGone(j) \/ Take(j) => task[j].at # "done" /\ j \in Tasks
  BY DEF TakeLocked, TakeDisabled, TakeGone, Take, Tasks
<1>4. \A c \in Calls : EnableDocument(c) \/ Recognify(c) => task[c].at # "done" /\ c \in Tasks
  BY DEF EnableDocument, Recognify, Free, Tasks
<1> QED
  BY <1>1, <1>2, <1>3, <1>4

\* A save of a pipeline is well typed.
LEMMA SaveType ==
  ASSUME Types, NEW t \in Tasks, task[t].at # "done", NEW pipe \in Pipes, NEW stage \in Stages,
         Save(t, pipe, stage)
  PROVE  Types'
<1> USE DEF Types
<1>1. row' \in Rows
  BY RowType DEF Save, TypeOK
<1>2. (IF Exists THEN stage ELSE "thrown") \in Stages
  BY StageNames
<1>3. task' \in TaskType /\ AttemptLeft'
  BY <1>2, MoveType DEF Save
<1>4. Frame /\ faults' = faults /\ overlapped' = overlapped /\ abandoned' = abandoned
  BY DEF Save, Frame, sidecar, settings, history
<1> QED
  BY <1>1, <1>3, <1>4, FrameType DEF TypeOK

\* The steps of an execution are well typed.
LEMMA StepTypes ==
  ASSUME Types, NEW t \in Tasks, Step(t)
  PROVE  Types'
<1> USE DEF Types
<1>0. task[t].pipe \in Pipes /\ task[t].made \in 0 .. MaxAttempts
  BY DEF TypeOK
<1>1. CASE Mark(t)
  <2>1. (IF Exists THEN AfterMark(task[t].pipe) ELSE "thrown") \in Stages
    BY <1>0, AfterMarkType, StageNames
  <2>2. task' \in TaskType /\ AttemptLeft'
    BY <1>0, <1>1, <2>1, MoveType DEF Mark
  <2>3. row' \in Rows
    BY <1>1, RowType, PipeType DEF Mark
  <2>4. Frame /\ faults' = faults /\ overlapped' = overlapped /\ abandoned' = abandoned
    BY <1>1 DEF Mark, Frame, sidecar, settings, history
  <2> QED
    BY <2>2, <2>3, <2>4, FrameType DEF TypeOK
<1>2. CASE Add(t)
  <2>1. task[t].at # "done" /\ (MoveTo(t, "saveAdd", Pipe("stored", None)) \/ Goto(t, "fail"))
    BY <1>2 DEF Add
  <2>2. task' \in TaskType /\ AttemptLeft'
    BY <2>1, MoveType, GotoType, StageNames, PipeType
  <2>3. text' \in {"none", "stored", "indexed"} /\ faults' \in 0 .. MaxFaults
    BY <1>2, FaultType DEF Add, TypeOK
  <2> QED
    BY <1>2, <2>2, <2>3 DEF Add, TypeOK, TaskType, settings, history
<1>3. CASE SaveAdd(t) \/ Claim(t) \/ SaveRun(t)
  BY <1>0, <1>3, SaveType, PipeType, StageNames DEF SaveAdd, Claim, SaveRun
<1>4. CASE Launch(t)
  <2>1. task[t].at # "done"
    BY <1>4 DEF Launch
  <2>2. task' \in TaskType /\ AttemptLeft'
    <3>1. CASE Goto(t, "fail")
      BY <2>1, <3>1, GotoType, StageNames
    <3>2. ASSUME FreeRuns # {}, NEW pipe \in {Pipe("running", NewRun), Pipe("failed", NewRun)},
                 MoveTo(t, "saveRun", pipe)
          PROVE  task' \in TaskType /\ AttemptLeft'
      <4>1. pipe \in Pipes /\ "saveRun" \in Stages
        BY <3>2, PipeType, NewRunType, StageNames
      <4> QED
        BY <2>1, <3>2, <4>1, MoveType
    <3> QED
      BY <1>4, <3>1, <3>2, LaunchCases
  <2>3. faults' \in 0 .. MaxFaults
    BY <1>4, FaultType DEF Launch, TypeOK
  <2>4. run' \in [Runs -> {"none", "running", "completed", "errored"}]
    BY <1>4 DEF Launch, TypeOK
  <2> QED
    BY <1>4, <2>2, <2>3, <2>4 DEF Launch, TypeOK, TaskType, settings, history
<1>5. CASE PollCompleted(t) \/ PollErrored(t)
  BY <1>0, <1>5, SaveType, PipeType, StageNames DEF PollCompleted, PollErrored
<1>6. CASE PollTimeout(t)
  <2>1. task' \in TaskType /\ AttemptLeft'
    BY <1>6, GotoType, StageNames DEF PollTimeout
  <2> QED
    BY <1>6, <2>1, FrameType DEF PollTimeout, Frame, TypeOK, sidecar, settings, history
<1>7. CASE Select(t) \/ Finish(t) \/ Fail(t)
  <2>1. PICK stage \in {"send", "thrown", "done"} : Goto(t, stage)
    BY <1>7 DEF Select, Finish, Fail
  <2>2. task' \in TaskType /\ AttemptLeft'
    BY <1>7, <2>1, GotoType, StageNames DEF Select, Finish, Fail
  <2>3. row' \in Rows
    BY <1>7, RowType, PipeType DEF Select, Finish, Fail
  <2>4. Frame /\ faults' = faults /\ overlapped' = overlapped /\ abandoned' = abandoned
    BY <1>7 DEF Select, Finish, Fail, Frame, sidecar, settings, history
  <2> QED
    BY <2>2, <2>3, <2>4, FrameType DEF TypeOK
<1>8. CASE Send(t)
  <2>1. task' \in TaskType /\ AttemptLeft'
    BY <1>8, GotoType, StageNames DEF Send
  <2>2. text' \in {"none", "stored", "indexed"} /\ faults' \in 0 .. MaxFaults
    BY <1>8, FaultType DEF Send, TypeOK
  <2>3. indexed' \in BOOLEAN
    BY <1>8 DEF Send, TypeOK
  <2> QED
    BY <1>8, <2>1, <2>2, <2>3 DEF Send, TypeOK, TaskType, settings, history
<1>9. CASE Thrown(t)
  <2>0. task[t].at = "thrown" /\ task[t].made < MaxAttempts
    BY <1>9 DEF Thrown, AttemptLeft
  <2>1. task' \in TaskType /\ AttemptLeft'
    <3>1. CASE Goto(t, "done")
      BY <2>0, <3>1, GotoType, StageNames
    <3>2. ASSUME NEW stage \in {"queued", "done"},
                 task' = [task EXCEPT ![t].at = stage, ![t].made = task[t].made + 1],
                 stage = "queued" => task[t].made + 1 < MaxAttempts
          PROVE  task' \in TaskType /\ AttemptLeft'
      <4>1. stage \in Stages /\ task[t].made + 1 \in 0 .. MaxAttempts
        BY <1>0, <2>0, StageNames, DocumentsAssumption
      <4>2. task' \in TaskType
        BY <3>2, <4>1 DEF TypeOK, TaskType
      <4>3. AttemptLeft'
        BY <3>2 DEF TypeOK, AttemptLeft
      <4> QED
        BY <4>2, <4>3
    <3> QED
      BY <1>9, <3>1, <3>2 DEF Thrown
  <2>2. row' \in Rows
    BY <1>9, RowType, PipeType DEF Thrown, TypeOK
  <2>3. Frame /\ faults' = faults /\ overlapped' = overlapped /\ abandoned' = abandoned
    BY <1>9 DEF Thrown, Frame, sidecar, settings, history
  <2> QED
    BY <2>1, <2>2, <2>3, FrameType DEF TypeOK
<1> QED
  BY <1>1, <1>2, <1>3, <1>4, <1>5, <1>6, <1>7, <1>8, <1>9 DEF Step

\* The steps of the administrators, the sidecar and the host are well typed.
LEMMA WorldTypes ==
  ASSUME Types,
         \/ Delete \/ Forget \/ Disable \/ ForgetStatuses \/ Enable \/ Crash
         \/ \E r \in Runs : RunEnds(r)
  PROVE  Types'
<1> USE DEF Types
<1>1. CASE Delete
  <2>1. row' \in Rows
    BY <1>1, RowType, PipeType DEF Delete
  <2>2. /\ purge' \in {"no", "forget", "disable"} /\ text' \in {"none", "stored", "indexed"}
        /\ UNCHANGED <<run, indexed>>
    BY <1>1 DEF Delete, Wipe, sidecar, TypeOK
  <2> QED
    BY <1>1, <2>1, <2>2, FaultType DEF Delete, TypeOK, AttemptLeft
<1>2. CASE Forget
  BY <1>2, FaultType DEF Forget, Wipe, TypeOK, AttemptLeft
<1>3. CASE Disable
  <2>1. /\ purge' \in {"no", "forget", "disable"} /\ text' \in {"none", "stored", "indexed"}
        /\ UNCHANGED <<run, indexed>>
    BY <1>3 DEF Disable, Wipe, sidecar, TypeOK
  <2>2. enabled' \in BOOLEAN
    BY <1>3 DEF Disable, TypeOK
  <2> QED
    BY <1>3, <2>1, <2>2, FaultType DEF Disable, TypeOK, AttemptLeft
<1>4. CASE ForgetStatuses
  <2>1. row' \in Rows
    BY <1>4, RowType, PipeType DEF ForgetStatuses
  <2>2. enabled' \in BOOLEAN
    BY <1>4 DEF ForgetStatuses
  <2> QED
    BY <1>4, <2>1, <2>2 DEF ForgetStatuses, TypeOK, AttemptLeft, sidecar, history
<1>5. CASE Enable
  <2>1. task' \in TaskType /\ AttemptLeft'
    <3>1. CASE \E c \in Calls : Free(c) /\ Goto(c, "select")
      BY <3>1, GotoType, StageNames DEF Free, Tasks
    <3> QED
      BY <1>5, <3>1 DEF Enable, TypeOK, TaskType, AttemptLeft
  <2>2. enabled' \in BOOLEAN
    BY <1>5 DEF Enable
  <2> QED
    BY <1>5, <2>1, <2>2, FaultType DEF Enable, TypeOK, TaskType, sidecar, history
<1>6. CASE Crash
  <2>1. \A t \in Tasks : /\ task'[t] \in [at : Stages, made : 0 .. MaxAttempts, stalled : BOOLEAN, pipe : Pipes]
                         /\ task'[t].made = task[t].made
                         /\ task[t].at = "done" => task'[t].at = "done"
    BY <1>6, StageNames, PipeType DEF Crash, TypeOK, Active
  <2>2. task' \in TaskType /\ AttemptLeft'
    <3>1. task' \in TaskType
      BY <1>6, <2>1 DEF Crash, TaskType
    <3>2. AttemptLeft'
      BY <2>1 DEF AttemptLeft
    <3> QED
      BY <3>1, <3>2
  <2>3. request' \in Requests
    BY <1>6 DEF Crash, NoRequest, Requests
  <2>4. abandoned' \in BOOLEAN
    BY <1>6 DEF Crash
  <2> QED
    BY <1>6, <2>2, <2>3, <2>4, FaultType DEF Crash, TypeOK, TaskType, sidecar
<1>7. CASE \E r \in Runs : RunEnds(r)
  <2>1. /\ run' \in [Runs -> {"none", "running", "completed", "errored"}]
        /\ text' \in {"none", "stored", "indexed"}
    BY <1>7 DEF RunEnds, TypeOK
  <2>2. faults' \in 0 .. MaxFaults
    BY <1>7, FaultType DEF RunEnds, TypeOK
  <2>3. indexed' \in BOOLEAN
    BY <1>7 DEF RunEnds, TypeOK
  <2> QED
    BY <1>7, <2>1, <2>2, <2>3 DEF RunEnds, TypeOK, AttemptLeft, settings, history
<1> QED
  BY <1>1, <1>2, <1>3, <1>4, <1>5, <1>6, <1>7

\* The state stays well typed.
LEMMA TypeStep == Types /\ [Next]_vars => Types'
<1> SUFFICES ASSUME Types, [Next]_vars PROVE Types'
  OBVIOUS
<1>1. ASSUME NEW j \in Jobs, JobStep(j) PROVE Types'
  BY <1>1, TakeTypes, StepTypes DEF JobStep, Tasks
<1>2. ASSUME NEW c \in Calls, EnableDocument(c) \/ Recognify(c) \/ Step(c) PROVE Types'
  BY <1>2, TakeTypes, StepTypes DEF Tasks
<1>3. ASSUME UNCHANGED vars PROVE Types'
  BY <1>3 DEF vars, Types, TypeOK, AttemptLeft
<1> QED
  BY <1>1, <1>2, <1>3, RequestTypes, TakeTypes, WorldTypes DEF Next

-----------------------------------------------------------------------------
\* A step that reports, finishes or indexes nothing new.
LEMMA IndexFrame ==
  ASSUME IndexInv, indexed => indexed', text' = "indexed" => text = "indexed" \/ indexed',
         row'.cognify = "completed" => row.cognify = "completed" \/ indexed',
         \A t \in Tasks : task'[t].at = "finish" => task[t].at = "finish" \/ indexed'
  PROVE  IndexInv'
BY DEF IndexInv, CompletedIsIndexed

\* What the updates of the row make of the column.
LEMMA Column ==
  ASSUME TypeOK, NEW value
  PROVE  /\ SetCognify(value) => /\ row'.status = row.status /\ row'.pipe = row.pipe
                                 /\ row'.cognify = (IF Exists THEN value ELSE row.cognify)
         /\ SetError => row'.pipe = row.pipe /\ row'.cognify = row.cognify
                        /\ (Exists' <=> Exists) /\ (row'.status = "absent" <=> row.status = "absent")
BY DEF TypeOK, Rows, SetCognify, SetError, Exists

\* A document shown as completed was indexed.
LEMMA IndexStep == Types /\ IndexInv /\ [Next]_vars => IndexInv'
<1> SUFFICES ASSUME TypeOK, AttemptLeft, IndexInv, [Next]_vars PROVE IndexInv'
  BY DEF Types
<1>0. row \in Rows /\ request \in Requests
  BY DEF TypeOK
<1>1. CASE Upload \/ ReprocessRead \/ EmbedRuns
  <2>1. /\ UNCHANGED <<text, indexed, task>> /\ row'.cognify = row.cognify
    BY <1>0, <1>1, Column DEF Upload, ReprocessRead, EmbedRuns, sidecar, Rows
  <2> QED
    BY <2>1, IndexFrame
<1>2. CASE ReprocessClaim
  <2>1. UNCHANGED <<text, indexed, task>> /\ row'.cognify \in {row.cognify, "processing"}
    BY <1>0, <1>2 DEF ReprocessClaim, sidecar, Rows
  <2> QED
    BY <2>1, IndexFrame
<1>3. ASSUME NEW status, RequestFailed(status)
      PROVE  row'.cognify \in {row.cognify, "failed"}
  BY <1>0, <1>3 DEF RequestFailed, Rows
<1>4. CASE EnqueueEmbed
  <2>1. UNCHANGED <<text, indexed, task>> /\ row'.cognify \in {row.cognify, "failed"}
    BY <1>3, <1>4 DEF EnqueueEmbed, sidecar
  <2> QED
    BY <2>1, IndexFrame
<1>5. CASE EnqueueGraph
  <2>1. UNCHANGED <<text, indexed>>
    BY <1>5 DEF EnqueueGraph, sidecar
  <2>2. row'.cognify \in {row.cognify, "failed"}
    BY <1>3, <1>5, Column DEF EnqueueGraph
  <2>3. \A u \in Tasks : task'[u].at \in {task[u].at, "queued", "mark"}
    <3>1. \/ FreeJobs # {} /\ Goto(CHOOSE j \in FreeJobs : TRUE, "queued")
          \/ UNCHANGED task
          \/ \E c \in Calls : Begin(c)
      BY <1>5 DEF EnqueueGraph
    <3> QED
      BY <3>1, Moved, FreeJobType DEF Goto, Begin, Tasks
  <2> QED
    BY <2>1, <2>2, <2>3, IndexFrame
<1>6. ASSUME NEW t \in Tasks,
             \/ TakeLocked(t) \/ TakeDisabled(t) \/ TakeGone(t) \/ Take(t)
             \/ EnableDocument(t) \/ Recognify(t)
      PROVE  IndexInv'
  <2>1. UNCHANGED <<text, indexed>> /\ row'.cognify \in {row.cognify, "failed"}
    BY <1>6, Column DEF TakeLocked, TakeDisabled, TakeGone, Take, EnableDocument, Recognify, sidecar
  <2>2. Goto(t, "done") \/ Goto(t, "select") \/ Begin(t)
    BY <1>6 DEF TakeLocked, TakeDisabled, TakeGone, Take, EnableDocument, Recognify
  <2>3. \A u \in Tasks : task'[u].at \in {task[u].at, "done", "select", "mark"}
    BY <2>2, Moved DEF Goto, Begin
  <2> QED
    BY <2>1, <2>3, IndexFrame
<1>7. ASSUME NEW t \in Tasks, NEW pipe, NEW stage, Save(t, pipe, stage),
             stage = "finish" => text = "indexed"
      PROVE  IndexInv'
  <2>1. UNCHANGED <<text, indexed>> /\ row'.cognify = row.cognify
    BY <1>0, <1>7 DEF Save, sidecar, Rows
  <2>2. \A u \in Tasks : task'[u].at \in {task[u].at, stage, "thrown"}
    BY <1>7, Moved DEF Save
  <2> QED
    BY <1>7, <2>1, <2>2, IndexFrame DEF IndexInv
<1>8. ASSUME NEW t \in Tasks, Step(t) PROVE IndexInv'
  <2>0. task[t].pipe \in Pipes
    BY DEF TypeOK
  <2>1. CASE Mark(t)
    <3>1. UNCHANGED <<text, indexed>> /\ row'.cognify \in {row.cognify, "processing"}
      BY <2>1, Column DEF Mark, sidecar
    <3>2. \A u \in Tasks : task'[u].at = "finish" => task[u].at = "finish"
      BY <2>0, <2>1, Moved, AfterMarkType DEF Mark
    <3> QED
      BY <3>1, <3>2, IndexFrame
  <2>2. CASE Add(t)
    <3>1. indexed' = indexed /\ row' = row /\ (text' = "indexed" => text = "indexed")
      BY <2>2 DEF Add
    <3>2. \A u \in Tasks : task'[u].at \in {task[u].at, "saveAdd", "fail"}
      BY <2>2, Moved DEF Add, Goto
    <3> QED
      BY <3>1, <3>2, IndexFrame
  <2>3. CASE SaveAdd(t) \/ Claim(t) \/ SaveRun(t) \/ PollErrored(t)
    BY <1>7, <2>3 DEF SaveAdd, Claim, SaveRun, PollErrored
  <2>4. CASE PollCompleted(t)
    BY <1>7, <2>4 DEF PollCompleted, Ready
  <2>5. CASE Launch(t)
    <3>1. UNCHANGED <<text, indexed, row>>
      BY <2>5 DEF Launch
    <3>2. \A u \in Tasks : task'[u].at \in {task[u].at, "saveRun", "fail"}
      BY <2>5, LaunchCases, Moved DEF Goto
    <3> QED
      BY <3>1, <3>2, IndexFrame
  <2>6. CASE PollTimeout(t) \/ Select(t) \/ Fail(t)
    <3>1. UNCHANGED <<text, indexed>> /\ row'.cognify \in {row.cognify, "processing", "failed"}
      BY <2>6, Column DEF PollTimeout, Select, Fail, sidecar
    <3>2. PICK stage \in {"fail", "send", "thrown"} : Goto(t, stage)
      BY <2>6 DEF PollTimeout, Select, Fail
    <3>3. \A u \in Tasks : task'[u].at \in {task[u].at, stage}
      BY <3>2, Moved DEF Goto
    <3> QED
      BY <3>1, <3>3, IndexFrame
  <2>7. CASE Send(t)
    <3>1. /\ row' = row
          /\ \/ text' = "indexed" /\ indexed' = TRUE
             \/ UNCHANGED <<text, indexed>> /\ Goto(t, "fail")
      BY <2>7 DEF Send
    <3>2. CASE text' = "indexed" /\ indexed' = TRUE
      BY <3>1, <3>2, IndexFrame
    <3>3. CASE UNCHANGED <<text, indexed>> /\ Goto(t, "fail")
      <4>1. \A u \in Tasks : task'[u].at \in {task[u].at, "fail"}
        BY <3>3, Moved DEF Goto
      <4> QED
        BY <3>1, <3>3, <4>1, IndexFrame
    <3> QED
      BY <3>1, <3>2, <3>3
  <2>8. CASE Finish(t)
    <3>1. indexed /\ UNCHANGED <<text, indexed>>
      BY <2>8 DEF Finish, IndexInv, sidecar
    <3> QED
      BY <3>1, IndexFrame
  <2>9. CASE Thrown(t)
    <3>1. UNCHANGED <<text, indexed>> /\ row'.cognify \in {row.cognify, "failed"}
      BY <2>9, Column DEF Thrown, sidecar
    <3>2. \A u \in Tasks : task'[u].at \in {task[u].at, "queued", "done"}
      BY <2>9, Moved DEF Thrown, TypeOK, Goto
    <3> QED
      BY <3>1, <3>2, IndexFrame
  <2> QED
    BY <1>8, <2>1, <2>2, <2>3, <2>4, <2>5, <2>6, <2>7, <2>8, <2>9 DEF Step
<1>9. CASE Delete \/ Forget \/ Disable \/ ForgetStatuses
  <2>1. UNCHANGED <<task, indexed>> /\ (text' = "indexed" => text = "indexed")
    BY <1>9 DEF Delete, Forget, Disable, ForgetStatuses, Wipe, sidecar
  <2>2. row'.cognify \in {row.cognify, "null"}
    BY <1>0, <1>9 DEF Delete, Forget, Disable, ForgetStatuses, NoRow, Rows
  <2> QED
    BY <2>1, <2>2, IndexFrame
<1>10. CASE Enable
  <2>1. UNCHANGED <<text, indexed, row>>
    BY <1>10 DEF Enable, sidecar
  <2>2. \A u \in Tasks : task'[u].at \in {task[u].at, "select"}
    BY <1>10, Moved DEF Enable, Goto, Tasks
  <2> QED
    BY <2>1, <2>2, IndexFrame
<1>11. CASE \E r \in Runs : RunEnds(r)
  <2>1. /\ UNCHANGED <<task, row>>
        /\ (text' = "indexed" /\ indexed' = TRUE) \/ UNCHANGED <<text, indexed>>
    BY <1>11 DEF RunEnds
  <2> QED
    BY <2>1, IndexFrame
<1>12. CASE Crash
  <2>1. UNCHANGED <<text, indexed, row>>
    BY <1>12 DEF Crash, sidecar
  <2>2. \A u \in Tasks : task'[u].at \in {task[u].at, "queued", "done"}
    BY <1>12 DEF Crash, TypeOK
  <2> QED
    BY <2>1, <2>2, IndexFrame
<1>13. CASE UNCHANGED vars
  BY <1>13 DEF vars, IndexInv, CompletedIsIndexed
<1>14. ASSUME NEW j \in Jobs, JobStep(j) PROVE IndexInv'
  BY <1>6, <1>8, <1>14 DEF JobStep, Tasks
<1>15. ASSUME NEW c \in Calls, EnableDocument(c) \/ Recognify(c) \/ Step(c) PROVE IndexInv'
  BY <1>6, <1>8, <1>15 DEF Tasks
<1> QED
  BY <1>1, <1>2, <1>4, <1>5, <1>9, <1>10, <1>11, <1>12, <1>13, <1>14, <1>15 DEF Next

-----------------------------------------------------------------------------
\* A row that appears is unclaimed.
AbsentKept == row'.status = "absent" => row.status = "absent" /\ row'.cognify = row.cognify

\* A step that takes nobody's work away.
LEMMA OwnerFrame ==
  ASSUME OwnerInv, AbsentKept,
         Claimed' => \/ RequestOwns' \/ \E t \in Tasks : Owns(t)'
                     \/ Claimed /\ ~RequestOwns /\ \A t \in Tasks : Owns(t) => Owns(t)'
  PROVE  OwnerInv'
BY DEF OwnerInv, AbsentKept

\* A step of one task: it owns its work still, or did not and claims nothing.
LEMMA OwnerTask ==
  ASSUME OwnerInv, AbsentKept, request' = request, NEW t \in Tasks,
         \A u \in Tasks \ {t} : task'[u].at = task[u].at,
         Claimed' => Owns(t)' \/ (~Owns(t) /\ Claimed)
  PROVE  OwnerInv'
<1>1. \A u \in Tasks \ {t} : Owns(u)' <=> Owns(u)
  BY DEF Owns
<1>2. RequestOwns' <=> RequestOwns
  BY DEF RequestOwns
<1> QED
  BY <1>1, <1>2 DEF OwnerInv, AbsentKept

\* A document shown as processing has an owner.
LEMMA OwnerStep == Types /\ OwnerInv /\ [Next]_vars => OwnerInv'
<1> SUFFICES ASSUME TypeOK, AttemptLeft, OwnerInv, [Next]_vars PROVE OwnerInv'
  BY DEF Types
<1>0. row \in Rows /\ request \in Requests
  BY DEF TypeOK
<1>1. CASE Upload
  <2>1. row'.status = "ready" /\ row'.cognify = row.cognify /\ row.status = "absent"
    BY <1>0, <1>1 DEF Upload, Rows
  <2> QED
    BY <2>1 DEF OwnerInv, Claimed
<1>2. CASE ReprocessRead
  <2>1. UNCHANGED <<row, task, abandoned>> /\ request.at = "idle"
    BY <1>2 DEF ReprocessRead, history
  <2> QED
    BY <2>1, OwnerFrame DEF AbsentKept, Claimed, RequestOwns, Owns, Exists
<1>3. CASE ReprocessClaim
  <2>1. UNCHANGED <<task, abandoned>> /\ request.at = "claim"
    BY <1>3 DEF ReprocessClaim, history
  <2>2. CASE row.status = request.status /\ row.cognify = request.cognify
    <3>1. request'.at = "embed" /\ request'.by = "reprocess"
      BY <1>3, <2>2 DEF ReprocessClaim, NoRequest
    <3>2. row'.status = row.status /\ row.status # "absent"
      BY <1>0, <1>3, <2>2 DEF ReprocessClaim, Rows, Requests
    <3> QED
      BY <3>1, <3>2, OwnerFrame DEF RequestOwns, AbsentKept
  <2>3. CASE ~(row.status = request.status /\ row.cognify = request.cognify)
    <3>1. row' = row
      BY <1>3, <2>3 DEF ReprocessClaim
    <3> QED
      BY <2>1, <3>1, OwnerFrame DEF AbsentKept, Claimed, RequestOwns, Owns, Exists
  <2> QED
    BY <2>2, <2>3
<1>4. ASSUME NEW status \in {row.status, "error"}, RequestFailed(status), UNCHANGED <<task, abandoned>>
      PROVE  OwnerInv'
  <2>1. CASE Exists
    <3>1. /\ row'.status = status
          /\ row'.cognify = (IF request.by = "reprocess" /\ row.cognify = "processing"
                             THEN "failed" ELSE row.cognify)
      BY <1>0, <1>4, <2>1 DEF RequestFailed, Rows
    <3>2. AbsentKept
      BY <2>1, <3>1 DEF AbsentKept, Exists
    <3>3. Claimed' => Claimed /\ ~RequestOwns
      BY <1>4, <2>1, <3>1 DEF Claimed, RequestOwns
    <3> QED
      BY <1>4, <3>2, <3>3, OwnerFrame DEF Owns
  <2>2. CASE ~Exists
    BY <1>4, <2>2, OwnerFrame DEF RequestFailed, AbsentKept, Claimed, Exists
  <2> QED
    BY <2>1, <2>2
<1>5. CASE EnqueueEmbed
  <2>1. CASE \E status \in {row.status, "error"} : RequestFailed(status)
    BY <1>4, <1>5, <2>1 DEF EnqueueEmbed, history
  <2>2. CASE row' = row /\ request' = [request EXCEPT !.at = "graph"]
    <3>1. request'.at = "graph" /\ request'.by = request.by
      BY <1>0, <2>2 DEF Requests
    <3>2. UNCHANGED <<task, abandoned>>
      BY <1>5 DEF EnqueueEmbed, history
    <3> QED
      BY <2>2, <3>1, <3>2, OwnerFrame DEF AbsentKept, Claimed, RequestOwns, Owns, Exists
  <2> QED
    BY <1>5, <2>1, <2>2 DEF EnqueueEmbed
<1>6. CASE EnqueueGraph
  <2>1. CASE row' = row /\ FreeJobs # {} /\ Goto(CHOOSE j \in FreeJobs : TRUE, "queued")
    <3>1. PICK j \in Tasks : Goto(j, "queued")
      BY <2>1, FreeJobType
    <3>2. task'[j].at = "queued"
      BY <3>1, Moved DEF Goto
    <3>3. Owns(j)'
      BY <3>2 DEF Owns
    <3> QED
      BY <2>1, <3>3, OwnerFrame DEF AbsentKept
  <2>2. CASE RequestFailed(row.status) /\ UNCHANGED <<task, history>>
    BY <1>4, <2>2 DEF history
  <2>3. CASE SetCognify("failed")
    BY <2>3, Column, OwnerFrame DEF AbsentKept, Claimed, Exists
  <2>4. CASE row' = row /\ \E c \in Calls : Begin(c)
    <3>1. PICK c \in Calls : Begin(c)
      BY <2>4
    <3>2. c \in Tasks /\ task'[c].at = "mark"
      BY <3>1, Moved DEF Begin, Tasks
    <3>3. Owns(c)'
      BY <3>2 DEF Owns
    <3> QED
      BY <2>4, <3>2, <3>3, OwnerFrame DEF AbsentKept
  <2>5. CASE row' = row /\ abandoned' = TRUE
    BY <2>5, OwnerFrame DEF AbsentKept, Claimed
  <2> QED
    BY <1>6, <2>1, <2>2, <2>3, <2>4, <2>5 DEF EnqueueGraph
<1>7. CASE EmbedRuns
  <2>1. UNCHANGED <<task, request, abandoned>>
    BY <1>7 DEF EmbedRuns, history
  <2>2. row' = row \/ SetError
    BY <1>7 DEF EmbedRuns
  <2>3. /\ row'.cognify = row.cognify /\ (Exists' <=> Exists)
        /\ (row'.status = "absent" <=> row.status = "absent")
    BY <2>2, Column DEF Exists
  <2> QED
    BY <2>1, <2>3 DEF OwnerInv, Claimed, RequestOwns, Owns
<1>8. ASSUME NEW t \in Tasks,
             \/ TakeLocked(t) \/ TakeDisabled(t) \/ TakeGone(t) \/ Take(t)
             \/ EnableDocument(t) \/ Recognify(t)
      PROVE  OwnerInv'
  <2>1. request' = request /\ (row' = row \/ SetCognify("failed"))
    BY <1>8 DEF TakeLocked, TakeDisabled, TakeGone, Take, EnableDocument, Recognify
  <2>2. \/ Goto(t, "done") /\ (SetCognify("failed") \/ abandoned' = TRUE \/ (~Exists /\ row' = row))
        \/ Goto(t, "select") \/ Begin(t)
    <3>1. TakeLocked(t) => Goto(t, "done") /\ SetCognify("failed")
      BY DEF TakeLocked
    <3>2. TakeDisabled(t) => Goto(t, "done") /\ abandoned' = TRUE
      BY DEF TakeDisabled
    <3>3. TakeGone(t) => Goto(t, "done") /\ ~Exists /\ row' = row
      BY DEF TakeGone
    <3>4. (Take(t) \/ EnableDocument(t) => Begin(t)) /\ (Recognify(t) => Goto(t, "select"))
      BY DEF Take, EnableDocument, Recognify
    <3> QED
      BY <1>8, <3>1, <3>2, <3>3, <3>4
  <2>3. /\ \A u \in Tasks \ {t} : task'[u].at = task[u].at
        /\ task'[t].at \in {"select", "mark"} \/ Goto(t, "done")
    <3>1. PICK stage, pipe : MoveTo(t, stage, pipe)
      BY <2>2 DEF Goto, Begin
    <3>2. \A u \in Tasks \ {t} : task'[u].at = task[u].at
      BY <3>1, Moved
    <3>3. Goto(t, "select") => task'[t].at = "select"
      BY Moved DEF Goto
    <3>4. Begin(t) => task'[t].at = "mark"
      BY Moved DEF Begin
    <3> QED
      BY <2>2, <3>2, <3>3, <3>4
  <2>4. AbsentKept
    BY <2>1, Column DEF AbsentKept, Exists
  <2>5. Claimed' => Owns(t)'
    <3>1. CASE Goto(t, "done")
      <4>1. task'[t].at = "done"
        BY <3>1, Moved DEF Goto
      <4>2. ~Claimed'
        BY <2>2, <3>1, <4>1, Moved, Column DEF Claimed, Exists, Goto, Begin
      <4> QED
        BY <4>2
    <3>2. CASE task'[t].at \in {"select", "mark"}
      BY <3>2 DEF Owns
    <3> QED
      BY <2>3, <3>1, <3>2
  <2> QED
    BY <2>1, <2>3, <2>4, <2>5, OwnerTask
<1>9. ASSUME NEW t \in Tasks, NEW pipe, NEW stage \in {"claim", "launch", "poll", "finish", "fail"},
             Save(t, pipe, stage)
      PROVE  OwnerInv'
  <2>1. /\ request' = request /\ row'.status = row.status /\ row'.cognify = row.cognify
        /\ abandoned' = abandoned
    BY <1>0, <1>9 DEF Save, Rows, history
  <2>2. /\ \A u \in Tasks \ {t} : task'[u].at = task[u].at
        /\ task'[t].at = (IF Exists THEN stage ELSE "thrown")
    BY <1>9, Moved DEF Save
  <2>3. Claimed' => Owns(t)'
    BY <2>1, <2>2 DEF Claimed, Owns, Exists
  <2> QED
    BY <2>1, <2>2, <2>3, OwnerTask DEF AbsentKept
<1>10. ASSUME NEW t \in Tasks, Step(t) PROVE OwnerInv'
  <2>0. task[t].pipe \in Pipes
    BY DEF TypeOK
  <2>1. CASE Mark(t)
    <3>1. request' = request /\ AbsentKept
      BY <2>1, Column DEF Mark, AbsentKept, Exists
    <3>2. /\ \A u \in Tasks \ {t} : task'[u].at = task[u].at
          /\ task'[t].at = (IF Exists THEN AfterMark(task[t].pipe) ELSE "thrown")
      BY <2>1, Moved DEF Mark
    <3>3. Claimed' => Owns(t)'
      <4>1. Claimed' => Exists
        BY <2>1, Column DEF Mark, Claimed, Exists
      <4> QED
        BY <2>0, <3>2, <4>1, AfterMarkType DEF Owns
    <3> QED
      BY <3>1, <3>2, <3>3, OwnerTask
  <2>2. CASE Add(t) \/ Launch(t) \/ PollTimeout(t) \/ Send(t)
    <3>1. UNCHANGED <<row, request>>
      BY <2>2 DEF Add, Launch, PollTimeout, Send
    <3>2. \E pipe : \E stage \in {"saveAdd", "saveRun", "fail", "finish"} : MoveTo(t, stage, pipe)
      BY <2>2, LaunchCases DEF Add, PollTimeout, Send, Goto
    <3>3. /\ \A u \in Tasks \ {t} : task'[u].at = task[u].at
          /\ task'[t].at \in {"saveAdd", "saveRun", "fail", "finish"}
      BY <3>2, Moved
    <3> QED
      BY <3>1, <3>3, OwnerTask DEF AbsentKept, Owns
  <2>3. CASE SaveAdd(t) \/ Claim(t) \/ SaveRun(t) \/ PollErrored(t) \/ PollCompleted(t)
    BY <1>9, <2>3 DEF SaveAdd, Claim, SaveRun, PollErrored, PollCompleted
  <2>4. CASE Select(t)
    <3>1. request' = request /\ AbsentKept
      BY <2>4, Column DEF Select, AbsentKept, Exists
    <3>2. /\ \A u \in Tasks \ {t} : task'[u].at = task[u].at
          /\ task'[t].at = (IF Exists THEN "send" ELSE "thrown")
      BY <2>4, Moved DEF Select, Goto
    <3>3. Claimed' => Owns(t)'
      BY <2>4, <3>2, Column DEF Select, Claimed, Exists, Owns
    <3> QED
      BY <3>1, <3>2, <3>3, OwnerTask
  <2>5. CASE Finish(t) \/ Fail(t)
    <3>1. PICK value \in {"completed", "failed"} : SetCognify(value)
      BY <2>5 DEF Finish, Fail
    <3>2. request' = request /\ AbsentKept /\ ~Claimed'
      BY <2>5, <3>1, Column DEF Finish, Fail, AbsentKept, Exists, Claimed
    <3> QED
      BY <3>2, OwnerFrame
  <2>6. CASE Thrown(t)
    <3>0. request' = request /\ task[t].at = "thrown" /\ abandoned' = abandoned
      BY <2>6 DEF Thrown, history
    <3>1. CASE t \in Jobs /\ row' = row /\ task[t].made + 1 < MaxAttempts
      <4>1. task' = [task EXCEPT ![t].at = "queued", ![t].made = task[t].made + 1]
        BY <2>6, <3>1 DEF Thrown
      <4>2. task'[t].at = "queued" /\ \A u \in Tasks \ {t} : task'[u].at = task[u].at
        BY <4>1 DEF TypeOK
      <4> QED
        BY <3>0, <3>1, <4>2, OwnerTask DEF AbsentKept, Owns
    <3>2. CASE SetCognify("failed")
      BY <3>2, Column, OwnerFrame DEF AbsentKept, Claimed, Exists
    <3>3. CASE t \notin Jobs
      <4>1. row' = row /\ \A u \in Tasks \ {t} : task'[u].at = task[u].at
        BY <2>6, <3>3, Moved DEF Thrown, Goto
      <4>2. ~Owns(t)
        BY <3>0, <3>3 DEF Owns
      <4> QED
        BY <3>0, <4>1, <4>2, OwnerTask DEF AbsentKept, Claimed, Exists
    <3> QED
      BY <2>6, <3>1, <3>2, <3>3 DEF Thrown
  <2> QED
    BY <1>10, <2>1, <2>2, <2>3, <2>4, <2>5, <2>6 DEF Step
<1>11. CASE Delete \/ ForgetStatuses
  <2>1. row'.cognify = "null" /\ (row'.status = "absent" => row.status = "absent")
    BY <1>0, <1>11 DEF Delete, ForgetStatuses, NoRow, Rows
  <2> QED
    BY <2>1 DEF OwnerInv, Claimed
<1>12. CASE Forget \/ Disable \/ (\E r \in Runs : RunEnds(r)) \/ UNCHANGED vars
  <2>1. UNCHANGED <<row, task, request, abandoned>>
    BY <1>12 DEF Forget, Disable, RunEnds, vars, history
  <2> QED
    BY <2>1 DEF OwnerInv, Claimed, RequestOwns, Owns, Exists
<1>13. CASE Enable
  <2>1. UNCHANGED <<row, request, abandoned>>
    BY <1>13 DEF Enable, history
  <2>2. \A u \in Tasks : task'[u].at \in {task[u].at, "select"}
    BY <1>13, Moved DEF Enable, Goto, Tasks
  <2>3. \A u \in Tasks : Owns(u) => Owns(u)'
    BY <2>2 DEF Owns
  <2> QED
    BY <2>1, <2>3 DEF OwnerInv, Claimed, RequestOwns, Exists
<1>14. CASE Crash
  <2>1. row' = row
    BY <1>14 DEF Crash
  <2>2. Claimed' => request.at = "idle" /\ ~abandoned /\ \A u \in Tasks : Active(u) => Redelivered(u)
    BY <1>14 DEF Crash, Claimed
  <2>3. Claimed' => \A u \in Tasks : Owns(u) => Owns(u)'
    <3>1. ASSUME Claimed', NEW u \in Tasks, Owns(u) PROVE Owns(u)'
      <4>1. task'[u].at = "queued" \/ task'[u] = task[u]
        BY <1>14, <2>2, <3>1 DEF Crash, TypeOK
      <4> QED
        BY <3>1, <4>1 DEF Owns
    <3> QED
      BY <3>1
  <2> QED
    BY <2>1, <2>2, <2>3, OwnerFrame DEF AbsentKept, Claimed, RequestOwns, Exists
<1>15. ASSUME NEW j \in Jobs, JobStep(j) PROVE OwnerInv'
  BY <1>8, <1>10, <1>15 DEF JobStep, Tasks
<1>16. ASSUME NEW c \in Calls, EnableDocument(c) \/ Recognify(c) \/ Step(c) PROVE OwnerInv'
  BY <1>8, <1>10, <1>16 DEF Tasks
<1> QED
  BY <1>1, <1>2, <1>3, <1>5, <1>6, <1>7, <1>11, <1>12, <1>13, <1>14, <1>15, <1>16 DEF Next
-----------------------------------------------------------------------------
\* Of a task that is not at work the graph asks nothing.
LEMMA Idle == \A t : task[t].at \notin Working => TaskGraph(t)
BY DEF TaskGraph, Working

\* Who works is alone, on a document that was uploaded.
LEMMA Alone ==
  ASSUME GraphInv, NEW t \in Tasks, task[t].at \in Working
  PROVE  /\ row.status # "absent"
         /\ ~overlapped => \A u \in Tasks \ {t} : task[u].at \notin Working
BY DEF GraphInv, OneWorks

\* A step that starts no run and touches neither the saved pipeline nor a copy.
LEMMA GraphFrame ==
  ASSUME GraphInv, overlapped => overlapped',
         \A r \in Runs : Unfailed(r)' => Unfailed(r),
         \A t \in Tasks : task'[t].at \in Working =>
                            task'[t].at = task[t].at /\ task'[t].pipe = task[t].pipe,
         row'.status = "absent" => row.status = "absent" /\ row'.pipe = row.pipe
                                   /\ request'.at # "claim",
         Exists' => Exists /\ row'.pipe = row.pipe,
         Clears' => Clears
  PROVE  GraphInv'
<1>1. (Clean => Clean') /\ \A q : Only(q) => Only(q)'
  BY DEF Clean, Only
<1>2. row'.status = "absent" => /\ Clean' /\ row'.pipe = NoPipe /\ request'.at # "claim"
                                /\ \A t \in Tasks : task'[t].at \notin Working
  BY <1>1 DEF GraphInv
<1>3. CASE ~overlapped'
  <2>1. OneWorks'
    BY <1>3 DEF GraphInv, OneWorks
  <2>2. ASSUME NEW t \in Tasks PROVE TaskGraph(t)'
    <3>1. CASE task'[t].at \notin Working
      BY <3>1 DEF TaskGraph, Working
    <3>2. CASE task'[t].at \in Working
      <4>1. TaskGraph(t) /\ task'[t].at = task[t].at /\ task'[t].pipe = task[t].pipe
        BY <1>3, <3>2 DEF GraphInv
      <4> QED
        BY <1>1, <4>1 DEF TaskGraph
    <3> QED
      BY <3>1, <3>2
  <2>3. Exists' => RowGraph'
    BY <1>1, <1>3 DEF GraphInv, RowGraph
  <2>4. Clears' => row'.pipe.phase = "failed"
    BY <1>3 DEF GraphInv, Clears
  <2>5. OneRun'
    BY <1>3 DEF GraphInv, OneRun
  <2> QED
    BY <1>2, <2>1, <2>2, <2>3, <2>4, <2>5 DEF GraphInv
<1> QED
  BY <1>2, <1>3 DEF GraphInv

\* A step after which one task at most is at work.
LEMMA GraphOne ==
  ASSUME NEW t \in Tasks, row'.status # "absent",
         ~overlapped' => /\ \A u \in Tasks \ {t} : task'[u].at \notin Working
                         /\ TaskGraph(t)'
                         /\ Exists' => RowGraph'
                         /\ Clears' => row'.pipe.phase = "failed"
                         /\ OneRun'
  PROVE  GraphInv'
<1>1. CASE ~overlapped'
  <2>1. OneWorks'
    BY <1>1 DEF OneWorks
  <2>2. ASSUME NEW u \in Tasks PROVE TaskGraph(u)'
    BY <1>1, <2>2 DEF TaskGraph, Working
  <2> QED
    BY <1>1, <2>1, <2>2 DEF GraphInv
<1> QED
  BY <1>1 DEF GraphInv

\* Where an execution begins.
LEMMA GraphBegin ==
  ASSUME TypeOK, GraphInv, NEW t \in Tasks, Begin(t), Exists, UNCHANGED <<row, run>>,
         Clears' => Clears
  PROVE  GraphInv'
<1>1. /\ task'[t].at = "mark" /\ task'[t].pipe = row.pipe
      /\ \A u \in Tasks \ {t} : task'[u].at = task[u].at
  BY Moved DEF Begin, Working
<1>2. overlapped' = (overlapped \/ \E u \in Tasks \ {t} : task[u].at \in Working)
  BY DEF Begin
<1>3. /\ (Clean' <=> Clean) /\ (RowGraph' <=> RowGraph) /\ (OneRun' <=> OneRun) /\ (Exists' <=> Exists)
      /\ \A q : Only(q)' <=> Only(q)
  BY DEF Clean, Only, RowGraph, OneRun, Exists, Unfailed
<1>4. CASE ~overlapped'
  <2>1. ~overlapped /\ \A u \in Tasks \ {t} : task'[u].at \notin Working
    BY <1>1, <1>2, <1>4
  <2>2. RowGraph /\ OneRun /\ (Clears => row.pipe.phase = "failed")
    BY <2>1 DEF GraphInv
  <2>3. TaskGraph(t)'
    BY <1>1, <1>3, <2>2 DEF TaskGraph, RowGraph
  <2> QED
    BY <1>3, <2>1, <2>2, <2>3, GraphOne DEF Exists
<1> QED
  BY <1>4, GraphOne DEF Exists

\* What a save leaves behind.
LEMMA Saved ==
  ASSUME TypeOK, NEW t \in Tasks, NEW stage, NEW pipe, Save(t, pipe, stage)
  PROVE  /\ row'.status = row.status /\ (Exists' <=> Exists)
         /\ Exists => row'.pipe = pipe
         /\ task'[t].at = (IF Exists THEN stage ELSE "thrown")
         /\ Exists /\ stage \in Working => task'[t].pipe = pipe
         /\ \A u \in Tasks \ {t} : task'[u].at = task[u].at
         /\ UNCHANGED <<request, run, overlapped>>
<1>1. row'.status = row.status /\ (Exists => row'.pipe = pipe)
  BY DEF Save, TypeOK, Rows
<1>2. /\ task'[t].at = (IF Exists THEN stage ELSE "thrown")
      /\ Exists /\ stage \in Working => task'[t].pipe = pipe
      /\ \A u \in Tasks \ {t} : task'[u].at = task[u].at
  BY Moved DEF Save
<1> QED
  BY <1>1, <1>2 DEF Save, Exists, sidecar, history

\* A save by an execution at work.
LEMMA GraphSave ==
  ASSUME TypeOK, GraphInv, NEW t \in Tasks, task[t].at \in Working, NEW pipe, NEW stage,
         Save(t, pipe, stage), stage \in {"claim", "launch", "poll", "finish", "fail"},
         ~overlapped /\ Exists =>
           /\ stage \in {"claim", "launch"} => Clean
           /\ stage = "claim" => pipe.phase \in Unlaunched
           /\ stage = "launch" => pipe.phase = "launching"
           /\ stage = "poll" => Only(pipe.run)
           /\ pipe.phase \in Unlaunched \cup {"failed"} => Clean
           /\ pipe.phase \in Launched => Only(pipe.run)
           /\ Clears => pipe.phase = "failed"
  PROVE  GraphInv'
<1> USE Saved
<1>1. /\ (Clean' <=> Clean) /\ (OneRun' <=> OneRun) /\ \A q : Only(q)' <=> Only(q)
  BY DEF Clean, Only, OneRun, Unfailed
<1>2. row'.status # "absent"
  BY Alone
<1>3. CASE ~overlapped'
  <2>1. ~overlapped /\ (Exists' <=> Exists)
    BY <1>3
  <2>2. \A u \in Tasks \ {t} : task'[u].at \notin Working
    BY <2>1, Alone
  <2>3. CASE Exists
    <3>1. row'.pipe = pipe /\ task'[t].at = stage /\ (stage \in Working => task'[t].pipe = pipe)
      BY <2>3
    <3>2. TaskGraph(t)'
      BY <1>1, <2>1, <2>3, <3>1 DEF TaskGraph, Working
    <3>3. RowGraph'
      BY <1>1, <2>1, <2>3, <3>1 DEF RowGraph
    <3>4. (Clears' => row'.pipe.phase = "failed") /\ OneRun'
      BY <1>1, <2>1, <2>3, <3>1 DEF Clears, GraphInv
    <3> QED
      BY <1>2, <2>2, <3>2, <3>3, <3>4, GraphOne
  <2>4. CASE ~Exists
    <3>1. task'[t].at = "thrown" /\ ~Exists' /\ ~Clears'
      BY <2>4 DEF Clears
    <3>2. TaskGraph(t)'
      BY <3>1 DEF TaskGraph
    <3> QED
      BY <1>1, <1>2, <2>1, <2>2, <3>1, <3>2, GraphOne DEF GraphInv
  <2> QED
    BY <2>3, <2>4
<1> QED
  BY <1>2, <1>3, GraphOne

\* A launch request.
LEMMA GraphLaunch ==
  ASSUME TypeOK, GraphInv, NEW t \in Tasks, Launch(t)
  PROVE  GraphInv'
<1>1. task[t].at = "launch" /\ UNCHANGED <<row, request, overlapped>>
  BY DEF Launch, history
<1>2. \A u \in Tasks \ {t} : task'[u].at = task[u].at
  BY LaunchCases, Moved DEF Goto
<1>3. row'.status # "absent"
  BY <1>1, Alone DEF Working
<1>4. CASE ~overlapped'
  <2>1. ~overlapped /\ \A u \in Tasks \ {t} : task'[u].at \notin Working
    BY <1>1, <1>2, <1>4, Alone DEF Working
  <2>2. Clean /\ (Exists => row.pipe.phase = "launching")
    BY <1>1, <2>1 DEF GraphInv, TaskGraph
  <2>3. (Exists' => RowGraph') /\ ~Clears'
    <3>1. Exists' => row'.pipe.phase = "launching"
      BY <1>1, <2>2 DEF Exists
    <3>2. Clears => row.pipe.phase = "failed"
      BY <2>1 DEF GraphInv
    <3> QED
      BY <1>1, <2>2, <3>1, <3>2 DEF RowGraph, Unlaunched, Launched, Clears, Exists
  <2>4. CASE FreeRuns # {} /\ MoveTo(t, "saveRun", Pipe("running", NewRun))
             /\ run' = [run EXCEPT ![NewRun] = "running"]
    <3>1. task'[t].at = "saveRun" /\ task'[t].pipe = Pipe("running", NewRun)
      BY <2>4, Moved DEF Working
    <3>2. NewRun \in Runs /\ \A r \in Runs \ {NewRun} : run'[r] = run[r]
      BY <2>4, NewRunType DEF TypeOK
    <3>3. \A r \in Runs : Unfailed(r)' => r = NewRun
      BY <2>2, <3>2 DEF Clean, Unfailed
    <3>4. task'[t].pipe.phase = "running" /\ task'[t].pipe.run = NewRun
      BY <3>1 DEF Pipe
    <3>5. Only(task[t].pipe.run)'
      BY <3>2, <3>3, <3>4 DEF Only
    <3>6. TaskGraph(t)'
      BY <1>1, <2>2, <3>1, <3>4, <3>5 DEF TaskGraph, Exists
    <3>7. OneRun'
      BY <3>3 DEF OneRun
    <3> QED
      BY <1>3, <2>1, <2>3, <3>6, <3>7, GraphOne
  <2>5. CASE FreeRuns # {} /\ MoveTo(t, "saveRun", Pipe("failed", NewRun))
             /\ run' = [run EXCEPT ![NewRun] = "errored"]
    <3>1. task'[t].at = "saveRun" /\ task'[t].pipe = Pipe("failed", NewRun)
      BY <2>5, Moved DEF Working
    <3>2. NewRun \in Runs /\ Clean'
      BY <2>2, <2>5, NewRunType DEF TypeOK, Clean, Unfailed
    <3>4. task'[t].pipe.phase = "failed" /\ task'[t].pipe.run = NewRun
      BY <3>1 DEF Pipe
    <3>5. Only(task[t].pipe.run)'
      BY <3>2, <3>4 DEF Only, Clean
    <3>6. TaskGraph(t)'
      BY <1>1, <2>2, <3>1, <3>2, <3>4, <3>5 DEF TaskGraph, Exists
    <3>7. OneRun'
      BY <3>2 DEF OneRun, Clean
    <3> QED
      BY <1>3, <2>1, <2>3, <3>6, <3>7, GraphOne
  <2>6. CASE Goto(t, "fail")
    <3>1. task'[t].at = "fail"
      BY <2>6, Moved DEF Goto
    <3>2. TaskGraph(t)'
      BY <3>1 DEF TaskGraph
    <3>3. OneRun'
      <4>1. CASE run' = run
        BY <2>2, <4>1 DEF Clean, OneRun, Unfailed
      <4>2. CASE FreeRuns # {} /\ \E status : run' = [run EXCEPT ![NewRun] = status]
        <5>1. \A r \in Runs \ {NewRun} : run'[r] = run[r]
          BY <4>2, NewRunType DEF TypeOK
        <5>2. \A r \in Runs : Unfailed(r)' => r = NewRun
          BY <2>2, <5>1 DEF Clean, Unfailed
        <5> QED
          BY <5>2 DEF OneRun
      <4> QED
        BY <4>1, <4>2, LaunchCases
    <3> QED
      BY <1>3, <2>1, <2>3, <3>2, <3>3, GraphOne
  <2> QED
    BY <2>4, <2>5, <2>6, LaunchCases
<1> QED
  BY <1>3, <1>4, GraphOne
\* A step of an execution.
LEMMA GraphExecution ==
  ASSUME TypeOK, GraphInv, NEW t \in Tasks, Step(t)
  PROVE  GraphInv'
<1>0. row \in Rows /\ task[t].pipe \in Pipes
  BY DEF TypeOK
<1> DEFINE Quiet == /\ UNCHANGED <<run, request, overlapped>>
                    /\ row'.status = row.status /\ row'.pipe = row.pipe
                    /\ \A u \in Tasks \ {t} : task'[u] = task[u]
<1>1. ASSUME Quiet, task'[t].at \notin Working PROVE GraphInv'
  <2>1. Clears' => Clears
    BY <1>1 DEF Clears, Exists
  <2>2. \A r \in Runs : Unfailed(r)' => Unfailed(r)
    BY <1>1 DEF Unfailed
  <2>3. row'.status = "absent" => row.status = "absent" /\ row'.pipe = row.pipe /\ request'.at # "claim"
    BY <1>1 DEF GraphInv
  <2>4. Exists' => Exists /\ row'.pipe = row.pipe
    BY <1>1 DEF Exists
  <2> QED
    BY <1>1, <2>1, <2>2, <2>3, <2>4, GraphFrame
<1>2. ASSUME NEW stage \in Stages \ Working, Goto(t, stage), UNCHANGED <<run, request, overlapped>>,
             row' = row \/ \E value : SetCognify(value)
      PROVE  GraphInv'
  <2>1. task'[t].at \notin Working /\ \A u \in Tasks \ {t} : task'[u] = task[u]
    BY <1>2 DEF Goto, MoveTo, TypeOK
  <2>2. row'.status = row.status /\ row'.pipe = row.pipe
    BY <1>2, Column
  <2> QED
    BY <1>1, <1>2, <2>1, <2>2
<1>3. CASE Mark(t)
  <2>1. /\ task[t].at = "mark" /\ UNCHANGED <<request, run, overlapped>>
        /\ row'.status = row.status /\ row'.pipe = row.pipe
    BY <1>3, Column DEF Mark, sidecar, history
  <2>2. /\ task'[t].at = (IF Exists THEN AfterMark(task[t].pipe) ELSE "thrown")
        /\ task'[t].at \in Working => task'[t].pipe = task[t].pipe
        /\ \A u \in Tasks \ {t} : task'[u].at = task[u].at
    BY <1>3, Moved DEF Mark
  <2>3. /\ (Clean' <=> Clean) /\ (RowGraph' <=> RowGraph) /\ (OneRun' <=> OneRun)
        /\ (Exists' <=> Exists) /\ (Clears' <=> Clears) /\ \A q : Only(q)' <=> Only(q)
    BY <2>1 DEF Clean, Only, RowGraph, OneRun, Exists, Clears, Unfailed
  <2>4. row'.status # "absent"
    BY <2>1, Alone DEF Working
  <2>5. CASE ~overlapped'
    <3>1. ~overlapped /\ \A u \in Tasks \ {t} : task'[u].at \notin Working
      BY <2>1, <2>2, <2>5, Alone DEF Working
    <3>2. TaskGraph(t)'
      <4>1. TaskGraph(t)
        BY <3>1 DEF GraphInv
      <4>2. CASE ~Exists
        BY <2>2, <4>2 DEF TaskGraph
      <4>3. CASE Exists
        <5>1. task'[t].at = AfterMark(task[t].pipe)
          BY <2>2, <4>3
        <5>2. CASE task'[t].at = "add"
          BY <1>0, <2>1, <2>2, <2>3, <4>1, <4>3, <5>1, <5>2, AfterMarkType DEF TaskGraph, Unlaunched, Working
        <5>3. CASE task'[t].at = "claim"
          BY <1>0, <2>1, <2>2, <2>3, <4>1, <4>3, <5>1, <5>3, AfterMarkType DEF TaskGraph, Unlaunched, Working
        <5>4. CASE task'[t].at = "poll"
          BY <1>0, <2>1, <2>2, <2>3, <4>1, <4>3, <5>1, <5>4, AfterMarkType DEF TaskGraph, Working
        <5>5. CASE task'[t].at = "fail"
          BY <5>5 DEF TaskGraph
        <5> QED
          BY <1>0, <5>1, <5>2, <5>3, <5>4, <5>5, AfterMarkType
      <4> QED
        BY <4>2, <4>3
    <3> QED
      BY <2>1, <2>3, <2>4, <3>1, <3>2, GraphOne DEF GraphInv
  <2> QED
    BY <2>4, <2>5, GraphOne
<1>4. CASE Add(t)
  <2>1. task[t].at = "add" /\ UNCHANGED <<row, request, run, overlapped>>
    BY <1>4 DEF Add, history
  <2>2. CASE MoveTo(t, "saveAdd", Pipe("stored", None))
    <3>1. /\ task'[t].at = "saveAdd" /\ task'[t].pipe = Pipe("stored", None)
          /\ \A u \in Tasks \ {t} : task'[u].at = task[u].at
      BY <2>2, Moved DEF Working
    <3>2. /\ (Clean' <=> Clean) /\ (RowGraph' <=> RowGraph) /\ (OneRun' <=> OneRun)
          /\ (Exists' <=> Exists) /\ (Clears' <=> Clears)
      BY <2>1 DEF Clean, Only, RowGraph, OneRun, Exists, Clears, Unfailed
    <3>3. row'.status # "absent"
      BY <2>1, Alone DEF Working
    <3>4. CASE ~overlapped'
      <4>1. ~overlapped /\ \A u \in Tasks \ {t} : task'[u].at \notin Working
        BY <2>1, <3>1, <3>4, Alone DEF Working
      <4>2. TaskGraph(t)
        BY <4>1 DEF GraphInv
      <4>3. TaskGraph(t)'
        BY <2>1, <3>1, <3>2, <4>2 DEF TaskGraph, Pipe
      <4> QED
        BY <2>1, <3>2, <3>3, <4>1, <4>3, GraphOne DEF GraphInv
    <3> QED
      BY <3>3, <3>4, GraphOne
  <2>3. CASE Goto(t, "fail")
    BY <1>2, <2>1, <2>3, StageNames DEF Working
  <2> QED
    BY <1>4, <2>2, <2>3 DEF Add
<1>5. CASE SaveAdd(t)
  <2>1. task[t].at = "saveAdd" /\ Save(t, task[t].pipe, "claim")
    BY <1>5 DEF SaveAdd
  <2>2. ~overlapped /\ Exists => /\ Clean /\ task[t].pipe.phase = "stored"
                                 /\ row.pipe.phase \in Unlaunched
                                 /\ Clears => row.pipe.phase = "failed"
    BY <2>1 DEF GraphInv, TaskGraph
  <2> QED
    BY <2>1, <2>2, GraphSave DEF Working, Unlaunched, Launched
<1>6. CASE Claim(t)
  <2>1. task[t].at = "claim" /\ Save(t, Pipe("launching", None), "launch")
    BY <1>6 DEF Claim
  <2>2. ~overlapped /\ Exists => /\ Clean /\ row.pipe.phase \in Unlaunched
                                 /\ Clears => row.pipe.phase = "failed"
    BY <2>1 DEF GraphInv, TaskGraph
  <2>3. Pipe("launching", None).phase = "launching"
    BY DEF Pipe
  <2> QED
    BY <2>1, <2>2, <2>3, GraphSave DEF Working, Unlaunched, Launched
<1>7. CASE Launch(t)
  BY <1>7, GraphLaunch
<1>8. CASE SaveRun(t)
  <2>1. task[t].at = "saveRun" /\ Save(t, task[t].pipe, "poll")
    BY <1>8 DEF SaveRun
  <2>2. ~overlapped /\ Exists => /\ Only(task[t].pipe.run)
                                 /\ task[t].pipe.phase \in {"running", "failed"}
                                 /\ task[t].pipe.phase = "failed" => Clean
                                 /\ row.pipe.phase = "launching"
                                 /\ Clears => row.pipe.phase = "failed"
    BY <2>1 DEF GraphInv, TaskGraph
  <2> QED
    BY <2>1, <2>2, GraphSave DEF Working, Unlaunched, Launched
<1>9. CASE PollCompleted(t)
  <2> DEFINE saved == [task[t].pipe EXCEPT !.phase = "completed"]
  <2>1. /\ task[t].at = "poll" /\ Save(t, saved, "finish")
        /\ run[task[t].pipe.run] = "completed"
    BY <1>9 DEF PollCompleted, Ready
  <2>2. saved.phase = "completed" /\ saved.run = task[t].pipe.run
    BY <1>0 DEF Pipes
  <2>3. ~overlapped => Only(task[t].pipe.run)
    BY <2>1 DEF GraphInv, TaskGraph
  <2>4. ~overlapped /\ Exists => ~Clears
    <3>1. ~overlapped /\ Exists => ~Clean
      BY <2>1, <2>3 DEF Clean, Only, Unfailed
    <3>2. ~overlapped /\ Clears => RowGraph /\ row.pipe.phase = "failed"
      BY DEF GraphInv, Clears
    <3> QED
      BY <3>1, <3>2 DEF RowGraph
  <2> HIDE DEF saved
  <2> QED
    BY <2>1, <2>2, <2>3, <2>4, GraphSave DEF Working, Unlaunched
<1>10. CASE PollErrored(t)
  <2> DEFINE saved == [task[t].pipe EXCEPT !.phase = "failed"]
  <2>1. /\ task[t].at = "poll" /\ Save(t, saved, "fail")
        /\ run[task[t].pipe.run] = "errored"
    BY <1>10 DEF PollErrored
  <2>2. saved.phase = "failed" /\ saved.run = task[t].pipe.run
    BY <1>0 DEF Pipes
  <2>3. ~overlapped => Only(task[t].pipe.run) /\ Clean
    BY <2>1 DEF GraphInv, TaskGraph, Clean, Only, Unfailed
  <2> HIDE DEF saved
  <2> QED
    BY <2>1, <2>2, <2>3, GraphSave DEF Working, Unlaunched
<1>11. CASE PollTimeout(t) \/ Select(t) \/ Send(t) \/ Finish(t) \/ Fail(t)
  <2>1. UNCHANGED <<run, request, overlapped>> /\ (row' = row \/ \E value : SetCognify(value))
    BY <1>11 DEF PollTimeout, Select, Send, Finish, Fail, sidecar, history
  <2>2. \E stage \in {"fail", "send", "thrown", "finish", "done"} : Goto(t, stage)
    BY <1>11 DEF PollTimeout, Select, Send, Finish, Fail
  <2> QED
    BY <1>2, <2>1, <2>2, StageNames DEF Working
<1>12. CASE Thrown(t)
  <2>1. UNCHANGED <<run, request, overlapped>> /\ (row' = row \/ SetCognify("failed"))
    BY <1>12 DEF Thrown, sidecar, history
  <2>2. CASE t \in Jobs
    <3>1. /\ task'[t].at \in {"queued", "done"}
          /\ \A u \in Tasks \ {t} : task'[u] = task[u]
      BY <1>12, <2>2 DEF Thrown, TypeOK
    <3>2. row'.status = row.status /\ row'.pipe = row.pipe
      BY <2>1, Column
    <3> QED
      BY <1>1, <2>1, <3>1, <3>2 DEF Working
  <2>3. CASE t \notin Jobs
    BY <1>2, <1>12, <2>1, <2>3, StageNames DEF Working, Thrown
  <2> QED
    BY <2>2, <2>3
<1> QED
  BY <1>3, <1>4, <1>5, <1>6, <1>7, <1>8, <1>9, <1>10, <1>11, <1>12 DEF Step
\* Executions that do not overlap start one graph run at a time.
LEMMA GraphStep == Types /\ GraphInv /\ [Next]_vars => GraphInv'
<1> SUFFICES ASSUME TypeOK, AttemptLeft, GraphInv, [Next]_vars PROVE GraphInv'
  BY DEF Types
<1>0. row \in Rows /\ request \in Requests
  BY DEF TypeOK
<1>1. ASSUME UNCHANGED <<run, task, overlapped>>, row'.status = row.status, row'.pipe = row.pipe,
             row.status = "absent" => request'.at # "claim", Clears' => Clears
      PROVE  GraphInv'
  <2>1. \A r \in Runs : Unfailed(r)' => Unfailed(r)
    BY <1>1 DEF Unfailed
  <2>2. Exists' => Exists /\ row'.pipe = row.pipe
    BY <1>1 DEF Exists
  <2> QED
    BY <1>1, <2>1, <2>2, GraphFrame
<1>2. CASE Upload
  <2>1. /\ row.status = "absent" /\ row'.status = "ready" /\ row'.pipe = row.pipe
        /\ request'.at = "embed" /\ UNCHANGED <<run, task>>
    BY <1>0, <1>2 DEF Upload, Rows, NoRequest, sidecar
  <2>2. Clean' /\ row'.pipe = NoPipe /\ \A t \in Tasks : task'[t].at \notin Working
    BY <2>1 DEF GraphInv, Clean, Unfailed
  <2>3. \A t \in Tasks : TaskGraph(t)'
    BY <2>2 DEF TaskGraph, Working
  <2>4. RowGraph'
    BY <2>2 DEF RowGraph, NoPipe, Pipe, Unlaunched, Launched
  <2> QED
    BY <2>1, <2>2, <2>3, <2>4 DEF GraphInv, OneWorks, OneRun, Clean, Clears
<1>3. CASE ReprocessRead
  <2>1. /\ UNCHANGED <<run, task, overlapped, row>> /\ Exists
        /\ request'.clears <=> row.pipe.phase = "failed"
    BY <1>3 DEF ReprocessRead, sidecar, history
  <2>2. /\ (OneWorks' <=> OneWorks) /\ (OneRun' <=> OneRun) /\ (RowGraph' <=> RowGraph)
        /\ (Exists' <=> Exists) /\ \A t \in Tasks : TaskGraph(t)' <=> TaskGraph(t)
    BY <2>1 DEF OneWorks, OneRun, RowGraph, Exists, TaskGraph, Clean, Only, Unfailed
  <2>3. row'.status # "absent" /\ (Clears' => row'.pipe.phase = "failed")
    BY <2>1 DEF Exists, Clears
  <2> QED
    BY <2>1, <2>2, <2>3 DEF GraphInv
<1>4. CASE ReprocessClaim
  <2>1. UNCHANGED <<run, task, overlapped>> /\ request.at = "claim" /\ request'.at # "claim"
    <3>1. UNCHANGED <<run, task, overlapped>> /\ request.at = "claim"
      BY <1>4 DEF ReprocessClaim, sidecar, history
    <3>2. request' = [NoRequest EXCEPT !.at = "embed", !.by = "reprocess"] \/ request' = NoRequest
      BY <1>4 DEF ReprocessClaim
    <3>3. request'.at # "claim"
      <4>1. [NoRequest EXCEPT !.at = "embed", !.by = "reprocess"].at = "embed" /\ NoRequest.at = "idle"
        BY DEF NoRequest
      <4> QED
        BY <3>2, <4>1
    <3> QED
      BY <3>1, <3>3
  <2>2. row.status # "absent"
    BY <2>1 DEF GraphInv
  <2>3. CASE row' = row \/ (row'.pipe = row.pipe /\ row'.status = row.status)
    <3>1. Clears' => Clears
      BY <2>1 DEF Clears
    <3> QED
      BY <1>1, <2>1, <2>2, <2>3, <3>1
  <2>4. CASE Exists /\ request.clears /\ row'.pipe = NoPipe /\ row'.status = row.status
    <3>1. CASE ~overlapped'
      <4>1. Clean /\ row.pipe.phase = "failed"
        BY <2>1, <2>4, <3>1 DEF GraphInv, Clears, RowGraph
      <4>2. Clean' /\ (\A q : Only(q) => Only(q)') /\ OneRun' /\ OneWorks' /\ RowGraph' /\ ~Clears'
        BY <2>1, <2>4, <3>1, <4>1
           DEF Clean, Only, OneRun, OneWorks, RowGraph, Clears, GraphInv, Unfailed,
               NoPipe, Pipe, Unlaunched, Launched
      <4>3. ASSUME NEW t \in Tasks PROVE TaskGraph(t)'
        <5>1. TaskGraph(t)
          BY <2>1, <3>1 DEF GraphInv
        <5>2. (Exists' <=> Exists) /\ task' = task
          BY <2>1, <2>4 DEF Exists
        <5> QED
          BY <2>4, <4>1, <4>2, <5>1, <5>2 DEF TaskGraph, Unlaunched
      <4> QED
        BY <2>2, <2>4, <4>2, <4>3 DEF GraphInv
    <3> QED
      BY <2>2, <2>4, <3>1 DEF GraphInv
  <2>5. CASE row.status = request.status /\ row.cognify = request.cognify
    <3>1. row' = [row EXCEPT !.cognify = "processing",
                             !.pipe = IF request.clears THEN NoPipe ELSE @]
      BY <1>4, <2>5 DEF ReprocessClaim
    <3>2. row'.status = row.status /\ row'.pipe = (IF request.clears THEN NoPipe ELSE row.pipe)
      BY <1>0, <3>1 DEF Rows
    <3>3. Exists
      BY <1>0, <2>5 DEF Exists, Requests
    <3> QED
      BY <2>3, <2>4, <3>2, <3>3
  <2> QED
    BY <1>4, <2>3, <2>5 DEF ReprocessClaim
<1>5. ASSUME NEW status \in {row.status, "error"}, RequestFailed(status), UNCHANGED <<task, run, overlapped>>
      PROVE  GraphInv'
  <2>1. row'.pipe = row.pipe /\ row'.status = (IF Exists THEN status ELSE row.status)
        /\ request'.at = "idle"
    BY <1>0, <1>5 DEF RequestFailed, Rows, NoRequest
  <2>2. \/ row'.status = row.status
        \/ Exists /\ row'.status = "error"
    BY <2>1
  <2>3. (Exists' => Exists) /\ (row'.status = "absent" => row.status = "absent")
    BY <2>2 DEF Exists
  <2>4. \A r \in Runs : Unfailed(r)' => Unfailed(r)
    BY <1>5 DEF Unfailed
  <2> QED
    BY <1>5, <2>1, <2>3, <2>4, GraphFrame DEF Clears
<1>6. CASE EnqueueEmbed
  <2>1. UNCHANGED <<task, run, overlapped>>
    BY <1>6 DEF EnqueueEmbed, sidecar, history
  <2>2. CASE row' = row /\ request' = [request EXCEPT !.at = "graph"]
    <3>1. request'.at = "graph"
      BY <1>0, <2>2 DEF Requests
    <3> QED
      <4>1. Clears' => Clears
        BY <3>1 DEF Clears
      <4> QED
        BY <1>1, <2>1, <2>2, <3>1, <4>1
  <2> QED
    BY <1>5, <1>6, <2>1, <2>2 DEF EnqueueEmbed
<1>7. ASSUME NEW t \in Tasks, NEW stage \in Stages \ Working, Goto(t, stage),
             UNCHANGED <<run, overlapped>>, row' = row \/ (\E value : SetCognify(value)),
             request' = request \/ request'.at = "idle"
      PROVE  GraphInv'
  <2>1. task'[t].at \notin Working /\ \A u \in Tasks \ {t} : task'[u] = task[u]
    BY <1>7 DEF Goto, MoveTo, TypeOK
  <2>2. row'.status = row.status /\ row'.pipe = row.pipe
    BY <1>7, Column
  <2>3. (Exists' <=> Exists) /\ (Clears' => Clears) /\ \A r \in Runs : Unfailed(r)' => Unfailed(r)
    BY <1>7, <2>2 DEF Exists, Clears, Unfailed
  <2>4. row.status = "absent" => request'.at # "claim"
    BY <1>7 DEF GraphInv
  <2> QED
    BY <1>7, <2>1, <2>2, <2>3, <2>4, GraphFrame
<1>8. CASE EnqueueGraph
  <2>1. run' = run /\ (request'.at = "idle" \/ RequestFailed(row.status))
    BY <1>8 DEF EnqueueGraph, NoRequest, sidecar
  <2>2. CASE row' = row /\ request'.at = "idle" /\ UNCHANGED history
             /\ FreeJobs # {} /\ Goto(CHOOSE j \in FreeJobs : TRUE, "queued")
    BY <1>7, <2>1, <2>2, FreeJobType, StageNames DEF Working, history
  <2>3. CASE RequestFailed(row.status) /\ UNCHANGED <<task, history>>
    BY <1>5, <2>1, <2>3 DEF history
  <2>4. CASE SetCognify("failed") /\ request'.at = "idle" /\ UNCHANGED <<task, history>>
    <3>1. row'.status = row.status /\ row'.pipe = row.pipe
      BY <2>4, Column
    <3> QED
      <4>1. (Clears' => Clears) /\ request'.at # "claim" /\ UNCHANGED <<task, overlapped>>
        BY <2>4 DEF Clears, history
      <4> QED
        BY <1>1, <2>1, <3>1, <4>1
  <2>5. CASE row' = row /\ request'.at = "idle" /\ Exists /\ \E c \in Calls : Free(c) /\ Begin(c)
    <3>1. ~Clears'
      BY <2>5 DEF Clears
    <3> QED
      BY <2>1, <2>5, <3>1, GraphBegin DEF Tasks
  <2>6. CASE UNCHANGED <<row, task, overlapped>> /\ request'.at = "idle"
    <3>1. (Clears' => Clears) /\ request'.at # "claim"
      BY <2>6 DEF Clears
    <3> QED
      BY <1>1, <2>1, <2>6, <3>1
  <2> QED
    BY <1>8, <2>2, <2>3, <2>4, <2>5, <2>6 DEF EnqueueGraph, NoRequest
<1>9. CASE EmbedRuns
  <2>1. /\ UNCHANGED <<task, run, request, overlapped>>
        /\ row' = row \/ SetError
    BY <1>9 DEF EmbedRuns, sidecar, history
  <2>2. /\ row'.pipe = row.pipe /\ (Exists' <=> Exists)
        /\ (row'.status = "absent" <=> row.status = "absent")
    BY <2>1, Column DEF Exists
  <2>3. (Clears' => Clears) /\ \A r \in Runs : Unfailed(r)' => Unfailed(r)
    BY <2>1, <2>2 DEF Clears, Unfailed
  <2>4. row.status = "absent" => request'.at # "claim"
    BY <2>1 DEF GraphInv
  <2> QED
    BY <2>1, <2>2, <2>3, <2>4, GraphFrame
<1>10. ASSUME NEW t \in Tasks,
              \/ TakeLocked(t) \/ TakeDisabled(t) \/ TakeGone(t) \/ Take(t)
              \/ EnableDocument(t) \/ Recognify(t)
       PROVE  GraphInv'
  <2>1. UNCHANGED <<request, run>>
    BY <1>10 DEF TakeLocked, TakeDisabled, TakeGone, Take, EnableDocument, Recognify, sidecar
  <2>2. CASE TakeLocked(t) \/ TakeDisabled(t) \/ TakeGone(t) \/ Recognify(t)
    <3>1. /\ overlapped' = overlapped /\ (row' = row \/ \E value : SetCognify(value))
          /\ Goto(t, "done") \/ Goto(t, "select")
      BY <2>2 DEF TakeLocked, TakeDisabled, TakeGone, Recognify, history
    <3> QED
      BY <1>7, <2>1, <3>1, StageNames DEF Working
  <2>3. CASE Take(t) \/ EnableDocument(t)
    <3>1. Exists /\ Begin(t) /\ row' = row
      BY <2>3 DEF Take, EnableDocument
    <3>2. Clears' => Clears
      BY <2>1, <3>1 DEF Clears, Exists
    <3> QED
      BY <2>1, <3>1, <3>2, GraphBegin
  <2> QED
    BY <1>10, <2>2, <2>3
<1>11. CASE Delete \/ Forget \/ Disable \/ ForgetStatuses
  <2>1. UNCHANGED <<task, run, request, overlapped>>
    BY <1>11 DEF Delete, Forget, Disable, ForgetStatuses, Wipe, sidecar, history
  <2>2. \/ row'.status = row.status /\ row'.pipe = row.pipe
        \/ row'.status = "deleted"
    BY <1>0, <1>11 DEF Delete, Forget, Disable, ForgetStatuses, NoRow, Rows
  <2>3. /\ Exists' => Exists /\ row'.pipe = row.pipe
        /\ row'.status = "absent" => row.status = "absent" /\ row'.pipe = row.pipe
    BY <2>2 DEF Exists
  <2>4. (Clears' => Clears) /\ \A r \in Runs : Unfailed(r)' => Unfailed(r)
    BY <2>1, <2>3 DEF Clears, Unfailed
  <2>5. row.status = "absent" => request'.at # "claim"
    BY <2>1 DEF GraphInv
  <2> QED
    BY <2>1, <2>3, <2>4, <2>5, GraphFrame
<1>12. CASE Enable
  <2>1. UNCHANGED <<row, request, run, overlapped>>
    BY <1>12 DEF Enable, sidecar, history
  <2>2. CASE \E c \in Calls : Goto(c, "select")
    BY <1>7, <2>1, <2>2, StageNames DEF Working, Tasks
  <2>3. CASE task' = task
    <3>1. (Clears' => Clears) /\ (row.status = "absent" => request'.at # "claim")
      BY <2>1 DEF Clears, Exists, GraphInv
    <3> QED
      BY <1>1, <2>1, <2>3, <3>1
  <2> QED
    BY <1>12, <2>2, <2>3 DEF Enable
<1>13. CASE \E r \in Runs : RunEnds(r)
  <2>1. UNCHANGED <<row, request, task, overlapped>>
    BY <1>13 DEF RunEnds, history
  <2>2. PICK r \in Runs : RunEnds(r)
    BY <1>13
  <2>3. run[r] = "running" /\ \E status : run' = [run EXCEPT ![r] = status]
    BY <2>2 DEF RunEnds
  <2>4. \A q \in Runs : Unfailed(q)' => Unfailed(q)
    BY <2>3 DEF Unfailed, TypeOK
  <2>5. (Clears' => Clears) /\ (Exists' => Exists) /\ (row.status = "absent" => request'.at # "claim")
    BY <2>1 DEF Clears, Exists, GraphInv
  <2> QED
    BY <2>1, <2>4, <2>5, GraphFrame
<1>14. CASE Crash
  <2>1. UNCHANGED <<row, run, overlapped>> /\ request'.at = "idle"
    BY <1>14 DEF Crash, NoRequest, sidecar
  <2>2. \A t \in Tasks : \/ task'[t] = task[t] /\ ~Active(t)
                         \/ task'[t].at \in {"queued", "done"}
    BY <1>14 DEF Crash, TypeOK
  <2>3. \A t \in Tasks : task'[t].at \in Working =>
                           task'[t].at = task[t].at /\ task'[t].pipe = task[t].pipe
    BY <2>2 DEF Working
  <2>4. /\ ~Clears' /\ (Exists' => Exists) /\ \A r \in Runs : Unfailed(r)' => Unfailed(r)
    BY <2>1 DEF Clears, Exists, Unfailed
  <2> QED
    BY <2>1, <2>3, <2>4, GraphFrame
<1>15. CASE UNCHANGED vars
  <2>1. UNCHANGED <<row, run, task, request, overlapped>>
    BY <1>15 DEF vars
  <2>2. (Clears' => Clears) /\ (row.status = "absent" => request'.at # "claim")
    BY <2>1 DEF Clears, Exists, GraphInv
  <2> QED
    BY <1>1, <2>1, <2>2
<1>16. ASSUME NEW j \in Jobs, JobStep(j) PROVE GraphInv'
  BY <1>10, <1>16, GraphExecution DEF JobStep, Tasks
<1>17. ASSUME NEW c \in Calls, EnableDocument(c) \/ Recognify(c) \/ Step(c) PROVE GraphInv'
  BY <1>10, <1>17, GraphExecution DEF Tasks
<1> QED
  BY <1>2, <1>3, <1>4, <1>6, <1>8, <1>9, <1>11, <1>12, <1>13, <1>14, <1>15, <1>16, <1>17 DEF Next

-----------------------------------------------------------------------------
LEMMA IndInit == Init => IndInv
<1> SUFFICES ASSUME Init PROVE IndInv
  OBVIOUS
<1> USE DocumentsAssumption
<1>1. /\ row = NoRow /\ request = NoRequest /\ \A r \in Runs : run[r] = "none"
      /\ \A t \in Tasks : task[t].at = "free" /\ task[t].made = 0
  BY DEF Init
<1>2. TypeOK
  <2>1. row \in Rows /\ request \in Requests
    BY <1>1, PipeType DEF NoRow, Rows, NoRequest, Requests
  <2>2. task \in TaskType
    BY PipeType DEF Init, TaskType, Stages
  <2> QED
    <3>1. run \in [Runs -> {"none", "running", "completed", "errored"}] /\ faults \in 0 .. MaxFaults
      BY DEF Init
    <3> QED
      BY <2>1, <2>2, <3>1 DEF Init, TypeOK, TaskType
<1>3. AttemptLeft
  BY <1>1 DEF AttemptLeft
<1>4. row.status = "absent" /\ row.cognify = "null" /\ row.pipe = NoPipe /\ request.at = "idle"
  BY <1>1 DEF NoRow, NoRequest
<1>5. IndexInv
  BY <1>1, <1>4 DEF Init, IndexInv, CompletedIsIndexed
<1>6. OwnerInv
  BY <1>4 DEF OwnerInv, Claimed, Exists
<1>7. GraphInv
  <2>1. Clean /\ OneRun
    BY <1>1 DEF Clean, OneRun, Unfailed
  <2>2. \A t \in Tasks : task[t].at \notin Working
    BY <1>1 DEF Working
  <2> QED
    BY <1>4, <2>1, <2>2, Idle DEF GraphInv, OneWorks, Exists, Clears
<1> QED
  BY <1>2, <1>3, <1>5, <1>6, <1>7 DEF IndInv

LEMMA IndStep == IndInv /\ [Next]_vars => IndInv'
BY TypeStep, IndexStep, OwnerStep, GraphStep DEF IndInv, Types

(***************************************************************************)
(* The inductive invariant.                                                *)
(***************************************************************************)
THEOREM Inductive == Spec => []IndInv
BY IndInit, IndStep, PTL DEF Spec

(***************************************************************************)
(* The row, the requests and the tasks are well typed: the attempts of a   *)
(* job stay in bounds.                                                     *)
(***************************************************************************)
THEOREM DocumentTypes == Spec => []TypeOK
BY Inductive, PTL DEF IndInv

(***************************************************************************)
(* Executions that never overlapped have left one unfailed run at most.    *)
(***************************************************************************)
THEOREM GraphsAreSingle == Spec => []OneGraph
<1>1. IndInv => OneGraph
  BY DEF IndInv, GraphInv, OneRun, OneGraph
<1> QED
  BY <1>1, Inductive, PTL

(***************************************************************************)
(* A document shown as completed was indexed once.                         *)
(***************************************************************************)
THEOREM CompletionsIndexed == Spec => []CompletedIsIndexed
<1>1. IndInv => CompletedIsIndexed
  BY DEF IndInv, IndexInv
<1> QED
  BY <1>1, Inductive, PTL

(***************************************************************************)
(* A document shown as processing has an owner, unless work was dropped.   *)
(***************************************************************************)
THEOREM ProcessingOwned == Spec => []ProcessingHasOwner
<1>1. IndInv => ProcessingHasOwner
  BY DEF IndInv, OwnerInv, Claimed, RequestOwns, Owns, ProcessingHasOwner, Owner
<1> QED
  BY <1>1, Inductive, PTL

-----------------------------------------------------------------------------
(***************************************************************************)
(* Why Documents implements GraphBuild.  What the row and the copies say   *)
(* of a run is true, overlapping or not.  As long as executions do not     *)
(* overlap the copy of the one at work is what the row says, but for the   *)
(* stages between a call and its save, and for a failed run that it still  *)
(* polls when a reprocess request has made room for the next.              *)
(***************************************************************************)
Truthful(p, runs) ==
  /\ p.phase \in {"none", "stored", "launching"} => p.run = None
  /\ p.phase \in Launched => p.run \in Runs /\ runs[p.run] # "none"
  /\ p.phase = "failed" => runs[p.run] = "errored"
  /\ p.phase = "completed" => runs[p.run] = "completed"

Follows(t) ==
  /\ Truthful(task[t].pipe, run)
  /\ task[t].at = "add" => task[t].pipe.phase = "none"
  /\ task[t].at \in {"saveAdd", "claim"} => task[t].pipe.phase = "stored"
  /\ task[t].at = "saveRun" => task[t].pipe.phase \in {"running", "failed"}
  /\ task[t].at = "poll" => task[t].pipe.phase \in Launched
  /\ ~overlapped /\ Exists =>
       /\ task[t].at = "saveAdd" => row.pipe = NoPipe
       /\ task[t].at \in {"mark", "add", "claim", "poll"} =>
            \/ row.pipe = task[t].pipe
            \/ task[t].pipe.phase = "failed" /\ row.pipe = NoPipe

TrackInv ==
  /\ Truthful(row.pipe, run)
  /\ \A t \in Tasks : task[t].at \in Working => Follows(t)

\* A run is launched once, and ends once.
RunsMove ==
  \A r \in Runs : run'[r] # run[r] => run[r] \in {"none", "running"} /\ run'[r] # "none"

\* What is true of a run stays true.
LEMMA TruthKept ==
  ASSUME NEW p, RunsMove, Truthful(p, run)
  PROVE  Truthful(p, run')
BY DEF Truthful, RunsMove, Launched

\* A step that changes no copy and leaves the saved state alone, or clears it.
LEMMA TrackFrame ==
  ASSUME TrackInv, RunsMove, overlapped => overlapped',
         \A t \in Tasks : task'[t].at \in Working =>
                            task'[t].at = task[t].at /\ task'[t].pipe = task[t].pipe,
         row'.pipe \in {row.pipe, NoPipe},
         Exists' => Exists /\ row'.pipe = row.pipe
  PROVE  TrackInv'
<1>1. Truthful(row.pipe, run') /\ Truthful(NoPipe, run')
  BY TruthKept DEF TrackInv, Truthful, NoPipe, Pipe, Launched
<1>2. ASSUME NEW t \in Tasks, task'[t].at \in Working PROVE Follows(t)'
  <2>1. Follows(t) /\ task'[t].at = task[t].at /\ task'[t].pipe = task[t].pipe
    BY <1>2 DEF TrackInv
  <2>2. Truthful(task'[t].pipe, run')
    BY <2>1, TruthKept DEF Follows
  <2> QED
    BY <2>1, <2>2 DEF Follows
<1> QED
  BY <1>1, <1>2 DEF TrackInv

\* A step of one execution.
LEMMA TrackOne ==
  ASSUME TrackInv, NEW t \in Tasks, RunsMove,
         \A u \in Tasks \ {t} : task'[u].at = task[u].at /\ task'[u].pipe = task[u].pipe,
         ~overlapped' => \A u \in Tasks \ {t} : task[u].at \notin Working,
         Truthful(row'.pipe, run'), task'[t].at \in Working => Follows(t)'
  PROVE  TrackInv'
<1>1. ASSUME NEW u \in Tasks \ {t}, task'[u].at \in Working PROVE Follows(u)'
  <2>1. Follows(u) /\ overlapped' /\ task'[u].at = task[u].at /\ task'[u].pipe = task[u].pipe
    BY <1>1 DEF TrackInv
  <2>2. Truthful(task'[u].pipe, run')
    BY <2>1, TruthKept DEF Follows
  <2> QED
    BY <2>1, <2>2 DEF Follows
<1> QED
  BY <1>1 DEF TrackInv

\* Where an execution begins.
LEMMA TrackBegin ==
  ASSUME TypeOK, TrackInv, NEW t \in Tasks, Begin(t), UNCHANGED <<row, run>>
  PROVE  TrackInv'
<1>1. /\ task'[t].at = "mark" /\ task'[t].pipe = row.pipe
      /\ \A u \in Tasks \ {t} : task'[u].at = task[u].at /\ task'[u].pipe = task[u].pipe
  BY Moved DEF Begin, Working
<1>2. overlapped' = (overlapped \/ \E u \in Tasks \ {t} : task[u].at \in Working)
  BY DEF Begin
<1>3. Follows(t)' /\ RunsMove
  BY <1>1 DEF TrackInv, Follows, RunsMove
<1> QED
  BY <1>1, <1>2, <1>3, TrackOne DEF TrackInv

\* A save of a true state by an execution at work.
LEMMA TrackSave ==
  ASSUME TypeOK, GraphInv, TrackInv, NEW t \in Tasks, task[t].at \in Working,
         NEW pipe, NEW stage, Save(t, pipe, stage), Truthful(pipe, run),
         stage \in {"claim", "launch", "poll", "finish", "fail"},
         stage = "claim" => pipe.phase = "stored",
         stage = "poll" => pipe.phase \in Launched
  PROVE  TrackInv'
<1>1. /\ row'.pipe = (IF Exists THEN pipe ELSE row.pipe)
      /\ task'[t].at \in Working => Exists /\ task'[t].at = stage /\ task'[t].pipe = pipe
      /\ \A u \in Tasks \ {t} : task'[u].at = task[u].at /\ task'[u].pipe = task[u].pipe
      /\ UNCHANGED <<run, overlapped>>
  <2>1. "thrown" \notin Working
    BY DEF Working
  <2>2. row'.pipe = (IF Exists THEN pipe ELSE row.pipe)
    BY DEF Save, TypeOK, Rows
  <2> QED
    BY <2>1, <2>2, Moved DEF Save, sidecar, history
<1>2. ~overlapped' => \A u \in Tasks \ {t} : task[u].at \notin Working
  BY <1>1, Alone
<1>3. Truthful(row'.pipe, run') /\ RunsMove
  BY <1>1 DEF TrackInv, RunsMove
<1>4. ASSUME task'[t].at \in Working PROVE Follows(t)'
  BY <1>1, <1>4 DEF Follows
<1> QED
  BY <1>1, <1>2, <1>3, <1>4, TrackOne

\* A launch request.
LEMMA TrackLaunch ==
  ASSUME TypeOK, GraphInv, TrackInv, NEW t \in Tasks, Launch(t)
  PROVE  TrackInv'
<1>1. task[t].at = "launch" /\ UNCHANGED <<row, request, overlapped>>
  BY DEF Launch, history
<1>2. \A u \in Tasks \ {t} : task'[u].at = task[u].at /\ task'[u].pipe = task[u].pipe
  BY LaunchCases, Moved DEF Goto
<1>3. ~overlapped' => \A u \in Tasks \ {t} : task[u].at \notin Working
  BY <1>1, Alone DEF Working
<1>4. RunsMove
  BY LaunchCases, NewRunType DEF RunsMove, TypeOK
<1>5. Truthful(row'.pipe, run')
  BY <1>1, <1>4, TruthKept DEF TrackInv
<1>6. ASSUME task'[t].at \in Working PROVE Follows(t)'
  <2>1. ~Goto(t, "fail")
    BY <1>6, Moved DEF Goto, Working
  <2>2. CASE run' = [run EXCEPT ![NewRun] = "running"] /\ MoveTo(t, "saveRun", Pipe("running", NewRun))
             /\ FreeRuns # {}
    <3>1. task'[t].at = "saveRun" /\ task'[t].pipe = Pipe("running", NewRun) /\ run'[NewRun] = "running"
      BY <2>2, Moved, NewRunType DEF Working, TypeOK
    <3> QED
      BY <2>2, <3>1, NewRunType DEF Follows, Truthful, Pipe, Launched
  <2>3. CASE run' = [run EXCEPT ![NewRun] = "errored"] /\ MoveTo(t, "saveRun", Pipe("failed", NewRun))
             /\ FreeRuns # {}
    <3>1. task'[t].at = "saveRun" /\ task'[t].pipe = Pipe("failed", NewRun) /\ run'[NewRun] = "errored"
      BY <2>3, Moved, NewRunType DEF Working, TypeOK
    <3> QED
      BY <2>3, <3>1, NewRunType DEF Follows, Truthful, Pipe, Launched
  <2> QED
    BY <2>1, <2>2, <2>3, LaunchCases
<1> QED
  BY <1>2, <1>3, <1>4, <1>5, <1>6, TrackOne

\* A step of an execution.
LEMMA TrackExecution ==
  ASSUME TypeOK, GraphInv, TrackInv, NEW t \in Tasks, Step(t)
  PROVE  TrackInv'
<1>0. row \in Rows /\ row.pipe \in Pipes /\ task[t].pipe \in Pipes
  BY DEF TypeOK, Rows
<1>1. task[t].at \in Working => Follows(t)
  BY DEF TrackInv
<1>2. ASSUME task'[t].at \notin Working, \A u \in Tasks \ {t} : task'[u] = task[u],
             row'.status = row.status, row'.pipe = row.pipe, UNCHANGED <<run, overlapped>>
      PROVE  TrackInv'
  BY <1>2, TrackFrame DEF RunsMove, Exists
<1>3. ASSUME NEW stage \in Stages \ Working, Goto(t, stage), UNCHANGED <<run, overlapped>>,
             row' = row \/ \E value : SetCognify(value)
      PROVE  TrackInv'
  <2>1. task'[t].at \notin Working /\ \A u \in Tasks \ {t} : task'[u] = task[u]
    BY <1>3 DEF Goto, MoveTo, TypeOK
  <2>2. row'.status = row.status /\ row'.pipe = row.pipe
    BY <1>3, Column
  <2> QED
    BY <1>2, <1>3, <2>1, <2>2
<1>4. CASE Mark(t)
  <2>1. /\ task[t].at = "mark" /\ UNCHANGED <<request, run, overlapped>>
        /\ row'.status = row.status /\ row'.pipe = row.pipe
    BY <1>4, Column DEF Mark, sidecar, history
  <2>2. /\ task'[t].at \in Working => /\ Exists /\ task'[t].at = AfterMark(task[t].pipe)
                                      /\ task'[t].pipe = task[t].pipe
        /\ \A u \in Tasks \ {t} : task'[u].at = task[u].at /\ task'[u].pipe = task[u].pipe
    <3>1. "thrown" \notin Working
      BY DEF Working
    <3> QED
      BY <1>4, <3>1, Moved DEF Mark
  <2>3. ~overlapped' => \A u \in Tasks \ {t} : task[u].at \notin Working
    BY <2>1, Alone DEF Working
  <2>4. ASSUME task'[t].at \in Working PROVE Follows(t)'
    BY <1>0, <1>1, <2>1, <2>2, <2>4, AfterMarkType DEF Follows, Exists, Working
  <2> QED
    BY <2>1, <2>2, <2>3, <2>4, TrackOne DEF TrackInv, RunsMove
<1>5. CASE Add(t)
  <2>1. task[t].at = "add" /\ UNCHANGED <<row, request, run, overlapped>>
    BY <1>5 DEF Add, history
  <2>2. CASE MoveTo(t, "saveAdd", Pipe("stored", None))
    <3>1. /\ task'[t].at = "saveAdd" /\ task'[t].pipe = Pipe("stored", None)
          /\ \A u \in Tasks \ {t} : task'[u].at = task[u].at /\ task'[u].pipe = task[u].pipe
      BY <2>2, Moved DEF Working
    <3>2. ~overlapped' => \A u \in Tasks \ {t} : task[u].at \notin Working
      BY <2>1, Alone DEF Working
    <3>3. ASSUME ~overlapped, Exists PROVE row.pipe = NoPipe
      <4>1. Follows(t) /\ row.pipe = task[t].pipe /\ task[t].pipe.phase = "none"
        BY <1>1, <2>1, <3>3 DEF Follows, Working
      <4> QED
        BY <1>0, <4>1 DEF Follows, Truthful, NoPipe, Pipe, Pipes
    <3>4. Follows(t)'
      BY <2>1, <3>1, <3>3 DEF Follows, Exists, Truthful, Pipe, Launched
    <3> QED
      BY <2>1, <3>1, <3>2, <3>4, TrackOne DEF TrackInv, RunsMove
  <2>3. CASE Goto(t, "fail")
    BY <1>3, <2>1, <2>3, StageNames DEF Working
  <2> QED
    BY <1>5, <2>2, <2>3 DEF Add
<1>6. CASE SaveAdd(t)
  <2>1. task[t].at = "saveAdd" /\ Save(t, task[t].pipe, "claim")
    BY <1>6 DEF SaveAdd
  <2> QED
    BY <1>1, <2>1, TrackSave DEF Follows, Working
<1>7. CASE Claim(t)
  <2>1. task[t].at = "claim" /\ Save(t, Pipe("launching", None), "launch")
    BY <1>7 DEF Claim
  <2>2. Truthful(Pipe("launching", None), run)
    BY DEF Truthful, Pipe, Launched
  <2> QED
    BY <2>1, <2>2, TrackSave DEF Working
<1>8. CASE Launch(t)
  BY <1>8, TrackLaunch
<1>9. CASE SaveRun(t)
  <2>1. task[t].at = "saveRun" /\ Save(t, task[t].pipe, "poll")
    BY <1>9 DEF SaveRun
  <2> QED
    BY <1>1, <2>1, TrackSave DEF Follows, Working, Launched
<1>10. CASE PollCompleted(t)
  <2> DEFINE saved == [task[t].pipe EXCEPT !.phase = "completed"]
  <2>1. /\ task[t].at = "poll" /\ Save(t, saved, "finish")
        /\ run[task[t].pipe.run] = "completed"
    BY <1>10 DEF PollCompleted, Ready
  <2>2. saved.phase = "completed" /\ saved.run = task[t].pipe.run
    BY <1>0 DEF Pipes
  <2>3. Truthful(saved, run)
    BY <1>1, <2>1, <2>2 DEF Follows, Truthful, Launched, Working
  <2> HIDE DEF saved
  <2> QED
    BY <2>1, <2>3, TrackSave DEF Working
<1>11. CASE PollErrored(t)
  <2> DEFINE saved == [task[t].pipe EXCEPT !.phase = "failed"]
  <2>1. /\ task[t].at = "poll" /\ Save(t, saved, "fail")
        /\ run[task[t].pipe.run] = "errored"
    BY <1>11 DEF PollErrored
  <2>2. saved.phase = "failed" /\ saved.run = task[t].pipe.run
    BY <1>0 DEF Pipes
  <2>3. Truthful(saved, run)
    BY <1>1, <2>1, <2>2 DEF Follows, Truthful, Launched, Working
  <2> HIDE DEF saved
  <2> QED
    BY <2>1, <2>3, TrackSave DEF Working
<1>12. CASE PollTimeout(t) \/ Select(t) \/ Send(t) \/ Finish(t) \/ Fail(t)
  <2>1. UNCHANGED <<run, request, overlapped>> /\ (row' = row \/ \E value : SetCognify(value))
    BY <1>12 DEF PollTimeout, Select, Send, Finish, Fail, sidecar, history
  <2>2. \E stage \in {"fail", "send", "thrown", "finish", "done"} : Goto(t, stage)
    BY <1>12 DEF PollTimeout, Select, Send, Finish, Fail
  <2> QED
    BY <1>3, <2>1, <2>2, StageNames DEF Working
<1>13. CASE Thrown(t)
  <2>1. UNCHANGED <<run, overlapped>> /\ (row' = row \/ SetCognify("failed"))
    BY <1>13 DEF Thrown, sidecar, history
  <2>2. CASE t \in Jobs
    <3>1. /\ task'[t].at \in {"queued", "done"}
          /\ \A u \in Tasks \ {t} : task'[u] = task[u]
      BY <1>13, <2>2 DEF Thrown, TypeOK
    <3>2. row'.status = row.status /\ row'.pipe = row.pipe
      BY <2>1, Column
    <3> QED
      BY <1>2, <2>1, <3>1, <3>2 DEF Working
  <2>3. CASE t \notin Jobs
    BY <1>3, <1>13, <2>1, <2>3, StageNames DEF Working, Thrown
  <2> QED
    BY <2>2, <2>3
<1> QED
  BY <1>4, <1>5, <1>6, <1>7, <1>8, <1>9, <1>10, <1>11, <1>12, <1>13 DEF Step
\* What is saved of a run is true, and the copy at work agrees with the row.
LEMMA TrackStep == Types /\ GraphInv /\ TrackInv /\ [Next]_vars => TrackInv'
<1> SUFFICES ASSUME TypeOK, GraphInv, TrackInv, [Next]_vars PROVE TrackInv'
  BY DEF Types
<1>0. row \in Rows /\ request \in Requests
  BY DEF TypeOK
<1>1. ASSUME \A t \in Tasks : task'[t].at \in Working => task'[t] = task[t],
             row'.pipe = row.pipe, Exists' => Exists, UNCHANGED <<run, overlapped>>
      PROVE  TrackInv'
  BY <1>1, TrackFrame DEF RunsMove
<1>2. CASE Upload
  <2>1. /\ row.status = "absent" /\ row'.pipe = row.pipe /\ UNCHANGED <<run, task>>
    BY <1>0, <1>2 DEF Upload, Rows, sidecar
  <2>2. \A t \in Tasks : task'[t].at \notin Working
    BY <2>1 DEF GraphInv
  <2> QED
    BY <2>1, <2>2 DEF TrackInv
<1>3. CASE ReprocessClaim
  <2>1. UNCHANGED <<run, task, overlapped>> /\ request.at = "claim"
    BY <1>3 DEF ReprocessClaim, sidecar, history
  <2>2. /\ row'.status = row.status
        /\ row'.pipe = row.pipe \/ (row'.pipe = NoPipe /\ request.clears)
    BY <1>0, <1>3 DEF ReprocessClaim, Rows
  <2>3. CASE row'.pipe = row.pipe
    BY <1>1, <2>1, <2>2, <2>3 DEF Exists
  <2>4. CASE row'.pipe = NoPipe /\ request.clears
    <3>1. ~overlapped /\ Exists => row.pipe.phase = "failed"
      BY <2>1, <2>4 DEF GraphInv, Clears
    <3>2. ASSUME NEW t \in Tasks, task'[t].at \in Working PROVE Follows(t)'
      <4>1. Follows(t)
        BY <2>1, <3>2 DEF TrackInv
      <4>2. NoPipe.phase = "none"
        BY DEF NoPipe, Pipe
      <4> QED
        BY <2>1, <2>2, <2>4, <3>1, <4>1, <4>2 DEF Follows, Exists
    <3> QED
      BY <2>1, <2>4, <3>2 DEF TrackInv, Truthful, NoPipe, Pipe, Launched
  <2> QED
    BY <2>2, <2>3, <2>4
<1>4. ASSUME NEW status, RequestFailed(status) PROVE row'.pipe = row.pipe /\ (Exists' => Exists)
  BY <1>0, <1>4 DEF RequestFailed, Rows, Exists
<1>5. CASE ReprocessRead \/ EnqueueEmbed \/ EmbedRuns
  <2>1. UNCHANGED <<task, run, overlapped>>
    BY <1>5 DEF ReprocessRead, EnqueueEmbed, EmbedRuns, sidecar, history
  <2>2. row'.pipe = row.pipe /\ (Exists' => Exists)
    BY <1>4, <1>5, Column DEF ReprocessRead, EnqueueEmbed, EmbedRuns, Exists
  <2> QED
    BY <1>1, <2>1, <2>2
<1>6. ASSUME NEW t \in Tasks, NEW stage \in Stages \ Working, Goto(t, stage),
             UNCHANGED <<run, overlapped>>, row' = row \/ \E value : SetCognify(value)
      PROVE  TrackInv'
  <2>1. task'[t].at \notin Working /\ \A u \in Tasks \ {t} : task'[u] = task[u]
    BY <1>6 DEF Goto, MoveTo, TypeOK
  <2>2. row'.status = row.status /\ row'.pipe = row.pipe
    BY <1>6, Column
  <2> QED
    BY <1>1, <1>6, <2>1, <2>2 DEF Exists
<1>7. CASE EnqueueGraph
  <2>1. run' = run
    BY <1>7 DEF EnqueueGraph, sidecar
  <2>2. CASE row' = row /\ UNCHANGED history
             /\ FreeJobs # {} /\ Goto(CHOOSE j \in FreeJobs : TRUE, "queued")
    BY <1>6, <2>1, <2>2, FreeJobType, StageNames DEF Working, history
  <2>3. CASE UNCHANGED <<task, overlapped>>
             /\ (row' = row \/ RequestFailed(row.status) \/ SetCognify("failed"))
    <3>1. row'.pipe = row.pipe /\ (Exists' => Exists)
      BY <1>4, <2>3, Column DEF Exists
    <3> QED
      BY <1>1, <2>1, <2>3, <3>1
  <2>4. CASE row' = row /\ \E c \in Calls : Begin(c)
    BY <2>1, <2>4, TrackBegin DEF Tasks
  <2> QED
    BY <1>7, <2>2, <2>3, <2>4 DEF EnqueueGraph, history
<1>8. ASSUME NEW t \in Tasks,
             \/ TakeLocked(t) \/ TakeDisabled(t) \/ TakeGone(t) \/ Recognify(t)
      PROVE  TrackInv'
  <2>1. /\ UNCHANGED <<run, overlapped>> /\ (row' = row \/ \E value : SetCognify(value))
        /\ Goto(t, "done") \/ Goto(t, "select")
    BY <1>8 DEF TakeLocked, TakeDisabled, TakeGone, Recognify, history, sidecar
  <2> QED
    BY <1>6, <2>1, StageNames DEF Working
<1>9. ASSUME NEW t \in Tasks, Take(t) \/ EnableDocument(t) PROVE TrackInv'
  BY <1>9, TrackBegin DEF Take, EnableDocument, sidecar
<1>10. CASE Delete \/ Forget \/ Disable \/ ForgetStatuses
  <2>1. UNCHANGED <<task, run, overlapped>>
    BY <1>10 DEF Delete, Forget, Disable, ForgetStatuses, Wipe, sidecar, history
  <2>2. \/ row'.status = row.status /\ row'.pipe = row.pipe
        \/ row'.status = "deleted" /\ row'.pipe = NoPipe
    BY <1>0, <1>10 DEF Delete, Forget, Disable, ForgetStatuses, NoRow, Rows
  <2> QED
    BY <2>1, <2>2, TrackFrame DEF RunsMove, Exists
<1>11. CASE Enable
  <2>1. UNCHANGED <<row, run, overlapped>>
    BY <1>11 DEF Enable, sidecar, history
  <2>2. CASE \E c \in Calls : Goto(c, "select")
    BY <1>6, <2>1, <2>2, StageNames DEF Working, Tasks
  <2>3. CASE task' = task
    BY <1>1, <2>1, <2>3 DEF Exists
  <2> QED
    BY <1>11, <2>2, <2>3 DEF Enable
<1>12. CASE \E r \in Runs : RunEnds(r)
  <2>1. UNCHANGED <<row, task, overlapped>>
    BY <1>12 DEF RunEnds, history
  <2>2. RunsMove
    BY <1>12 DEF RunEnds, RunsMove, TypeOK
  <2> QED
    BY <2>1, <2>2, TrackFrame DEF Exists
<1>13. CASE Crash
  <2>1. UNCHANGED <<row, run, overlapped>>
    BY <1>13 DEF Crash, sidecar
  <2>2. \A t \in Tasks : task'[t] = task[t] \/ task'[t].at \in {"queued", "done"}
    BY <1>13 DEF Crash, TypeOK
  <2> QED
    BY <1>1, <2>1, <2>2 DEF Working, Exists
<1>14. CASE UNCHANGED vars
  BY <1>1, <1>14 DEF vars, Exists
<1>15. ASSUME NEW j \in Jobs, JobStep(j) PROVE TrackInv'
  BY <1>8, <1>9, <1>15, TrackExecution DEF JobStep, Tasks
<1>16. ASSUME NEW c \in Calls, EnableDocument(c) \/ Recognify(c) \/ Step(c) PROVE TrackInv'
  BY <1>8, <1>9, <1>16, TrackExecution DEF Tasks
<1> QED
  BY <1>2, <1>3, <1>5, <1>7, <1>10, <1>11, <1>12, <1>13, <1>14, <1>15, <1>16 DEF Next

LEMMA Tracked == Spec => [](IndInv /\ TrackInv)
<1>1. Init => TrackInv
  <2>1. Init => row.pipe = NoPipe /\ \A t \in Tasks : task[t].at \notin Working
    BY DEF Init, NoRow, Working
  <2> QED
    BY <2>1 DEF TrackInv, Truthful, NoPipe, Pipe, Launched
<1>2. IndInv /\ TrackInv /\ [Next]_vars => TrackInv'
  BY TrackStep DEF IndInv, Types
<1> QED
  BY <1>1, <1>2, Inductive, PTL DEF Spec
-----------------------------------------------------------------------------
\* A step that shows another status, or none.
LEMMA Shows ==
  ASSUME TypeOK', row'.pipe = row.pipe, row'.status = "deleted" <=> row.status = "deleted",
         row'.cognify = "completed" => row.cognify = "completed" \/ indexed,
         CompletedIsIndexed, UNCHANGED <<run, indexed, overlapped>>
  PROVE  Build!Next
<1>1. row'.cognify \in {"null", "processing", "completed", "failed"}
  BY DEF TypeOK, Rows
<1>2. Build!Show(row'.cognify)
  BY DEF Build!Show, CompletedIsIndexed
<1> QED
  BY <1>1, <1>2 DEF Build!Next

\* Where a saved state moves to a legal next one, or is saved again.
LEMMA Saves ==
  ASSUME TypeOK, TypeOK', CompletedIsIndexed, NEW t \in Tasks, NEW pipe, NEW stage,
         Save(t, pipe, stage),
         Exists /\ Build!Save(pipe) => Build!Next
  PROVE  Build!Next
<1>1. UNCHANGED <<run, indexed, overlapped>>
  BY DEF Save, sidecar, history
<1>2. CASE Exists
  <2>1. row'.pipe = pipe /\ row'.status = row.status /\ row'.cognify = row.cognify
    BY <1>2 DEF Save, TypeOK, Rows
  <2> QED
    BY <1>1, <1>2, <2>1 DEF Build!Save
<1>3. CASE ~Exists
  <2>1. row' = row
    BY <1>3 DEF Save
  <2> QED
    BY <1>1, <2>1, Shows
<1> QED
  BY <1>2, <1>3

\* A launch request, which may find the document deleted.
LEMMA BuildLaunch ==
  ASSUME TypeOK, TypeOK', GraphInv, TrackInv, CompletedIsIndexed, NEW t \in Tasks, Launch(t)
  PROVE  Build!Next
<1>1. task[t].at = "launch" /\ task[t].at \in Working /\ UNCHANGED <<row, indexed, overlapped>>
  BY DEF Launch, Working, history
<1>2. CASE run' = run
  BY <1>1, <1>2, Shows
<1>3. CASE /\ FreeRuns # {}
           /\ \E status \in {"running", "errored"} : run' = [run EXCEPT ![NewRun] = status]
  <2>1. NewRun \in Runs /\ run[NewRun] = "none"
    BY <1>3, NewRunType
  <2>2. ASSUME ~overlapped
        PROVE  Build!AllFailed /\ (row.status = "deleted" \/ row.pipe = Pipe("launching", None))
    <3>1. TaskGraph(t) /\ row.status # "absent"
      BY <1>1, <2>2, Alone DEF GraphInv
    <3>2. Build!AllFailed
      BY <1>1, <3>1 DEF TaskGraph, Clean, Unfailed, Build!AllFailed, TypeOK
    <3>3. ASSUME row.status # "deleted" PROVE row.pipe = Pipe("launching", None)
      <4>1. Exists /\ row.pipe.phase = "launching"
        BY <1>1, <3>1, <3>3 DEF TaskGraph, Exists, TypeOK, Rows
      <4>2. row.pipe.run = None /\ row.pipe \in Pipes
        BY <4>1 DEF TrackInv, Truthful, TypeOK, Rows
      <4> QED
        BY <4>1, <4>2 DEF Pipe, Pipes
    <3> QED
      BY <3>2, <3>3
  <2>3. Build!Launch(NewRun)
    BY <1>1, <1>3, <2>1, <2>2 DEF Build!Launch, Build!Pipe, Pipe
  <2> QED
    BY <2>1, <2>3 DEF Build!Next
<1> QED
  BY <1>2, <1>3, LaunchCases

\* A step of an execution.
LEMMA BuildExecution ==
  ASSUME TypeOK, TypeOK', IndexInv, GraphInv, TrackInv, NEW t \in Tasks, Step(t)
  PROVE  Build!Next
<1> USE DEF IndexInv
<1>0. row.pipe \in Pipes /\ task[t].pipe \in Pipes
  BY DEF TypeOK, Rows
<1>1. task[t].at \in Working => Follows(t)
  BY DEF TrackInv
<1>2. ASSUME row' = row \/ (\E value : SetCognify(value) /\ (value = "completed" => indexed)),
             UNCHANGED <<run, indexed, overlapped>>
      PROVE  Build!Next
  BY <1>2, Column, Shows
<1>3. CASE Add(t)
  BY <1>2, <1>3 DEF Add, history
<1>4. CASE SaveAdd(t)
  <2>1. task[t].at = "saveAdd" /\ Save(t, task[t].pipe, "claim")
    BY <1>4 DEF SaveAdd
  <2>2. task[t].pipe = Pipe("stored", None)
    BY <1>0, <1>1, <2>1 DEF Follows, Truthful, Working, Pipe, Pipes
  <2>3. Exists => Build!At(Build!NoPipe)
    BY <1>1, <2>1 DEF Follows, Working, Build!At, Build!NoPipe, Build!Pipe, NoPipe, Pipe
  <2>4. Exists /\ Build!Save(task[t].pipe) => Build!Store
    BY <2>2, <2>3 DEF Build!Store, Build!Pipe, Pipe
  <2> QED
    BY <2>1, <2>4, Saves DEF Build!Next
<1>5. CASE Claim(t)
  <2>1. task[t].at = "claim" /\ Save(t, Pipe("launching", None), "launch")
    BY <1>5 DEF Claim
  <2>2. Exists => Build!At(Pipe("stored", None))
    BY <1>0, <1>1, <2>1 DEF Follows, Truthful, Working, Build!At, Pipe, Pipes
  <2>3. Exists /\ Build!Save(Pipe("launching", None)) => Build!Prepare
    BY <2>2 DEF Build!Prepare, Build!Pipe, Pipe
  <2> QED
    BY <2>1, <2>3, Saves DEF Build!Next
<1>6. CASE Launch(t)
  BY <1>6, BuildLaunch
<1>7. CASE SaveRun(t)
  <2> DEFINE r == task[t].pipe.run
  <2>1. task[t].at = "saveRun" /\ Save(t, task[t].pipe, "poll")
    BY <1>7 DEF SaveRun
  <2>2. /\ task[t].pipe = Pipe(task[t].pipe.phase, r) /\ r \in Runs /\ run[r] # "none"
        /\ task[t].pipe.phase \in {"running", "failed"}
        /\ task[t].pipe.phase = "failed" => run[r] = "errored"
    BY <1>0, <1>1, <2>1 DEF Follows, Truthful, Working, Pipe, Pipes, Launched
  <2>3. Exists => Build!At(Pipe("launching", None))
    <3>1. ~overlapped /\ Exists => row.pipe.phase = "launching"
      BY <2>1 DEF GraphInv, TaskGraph
    <3> QED
      BY <1>0, <3>1 DEF TrackInv, Truthful, Build!At, Pipe, Pipes
  <2>4. Exists /\ Build!Save(task[t].pipe) => Build!Record(r)
    <3> HIDE DEF r
    <3> QED
      BY <2>2, <2>3 DEF Build!Record, Build!Pipe, Pipe
  <2> QED
    BY <2>1, <2>2, <2>4, Saves DEF Build!Next
<1> DEFINE q == task[t].pipe.run
<1>8. task[t].at = "poll" /\ Exists =>
        /\ q \in Runs
        /\ \/ task[t].pipe = Pipe("running", q)
           \/ task[t].pipe = Pipe("failed", q) /\ run[q] = "errored"
           \/ task[t].pipe = Pipe("completed", q) /\ run[q] = "completed"
        /\ \/ overlapped \/ row.pipe = task[t].pipe
           \/ task[t].pipe = Pipe("failed", q) /\ row.pipe = NoPipe
  BY <1>0, <1>1 DEF Follows, Truthful, Working, Pipe, Pipes, Launched
<1>9. Build!Save(row.pipe) => Build!Next
  <2>1. Build!Save(row.pipe) => /\ row'.pipe = row.pipe /\ row'.cognify = row.cognify
                                /\ row'.status = "deleted" <=> row.status = "deleted"
                                /\ UNCHANGED <<run, indexed, overlapped>>
    BY DEF Build!Save
  <2> QED
    BY <2>1, Shows
<1>10. CASE PollCompleted(t)
  <2> DEFINE saved == [task[t].pipe EXCEPT !.phase = "completed"]
  <2>1. /\ task[t].at = "poll" /\ Save(t, saved, "finish")
        /\ run[q] = "completed" /\ indexed
    BY <1>10 DEF PollCompleted, Ready
  <2>2. saved = Pipe("completed", q)
    BY <1>0 DEF Pipes, Pipe
  <2> HIDE DEF saved, q
  <2>3. ASSUME Exists, Build!Save(saved) PROVE Build!Next
    <3>1. CASE row.pipe = saved
      BY <1>9, <2>3, <3>1
    <3>2. CASE Build!At(Pipe("running", q))
      <4>1. Build!Complete(q)
        BY <2>1, <2>2, <2>3, <3>2 DEF Build!Complete, Build!Pipe, Pipe
      <4> QED
        BY <1>8, <2>1, <2>3, <4>1 DEF Build!Next
    <3> QED
      BY <1>8, <2>1, <2>2, <2>3, <3>1, <3>2 DEF Build!At, Pipe
  <2> QED
    BY <2>1, <2>3, Saves
<1>11. CASE PollErrored(t)
  <2> DEFINE saved == [task[t].pipe EXCEPT !.phase = "failed"]
  <2>1. /\ task[t].at = "poll" /\ Save(t, saved, "fail")
        /\ run[q] = "errored"
    BY <1>11 DEF PollErrored
  <2>2. saved = Pipe("failed", q)
    BY <1>0 DEF Pipes, Pipe
  <2> HIDE DEF saved, q
  <2>3. ASSUME Exists, Build!Save(saved) PROVE Build!Next
    <3>1. CASE row.pipe = saved
      BY <1>9, <2>3, <3>1
    <3>2. CASE Build!At(Pipe("running", q)) \/ row.pipe = NoPipe
      <4>1. Build!Fail(q)
        BY <2>1, <2>2, <2>3, <3>2 DEF Build!Fail, Build!At, Build!NoPipe, Build!Pipe, NoPipe, Pipe
      <4> QED
        BY <1>8, <2>1, <2>3, <4>1 DEF Build!Next
    <3> QED
      BY <1>8, <2>1, <2>2, <2>3, <3>1, <3>2 DEF Build!At
  <2> QED
    BY <2>1, <2>3, Saves
<1>12. CASE Mark(t) \/ PollTimeout(t) \/ Select(t) \/ Fail(t) \/ Thrown(t)
  <2>1. row' = row \/ SetCognify("processing") \/ SetCognify("failed")
    BY <1>12 DEF Mark, PollTimeout, Select, Fail, Thrown
  <2>2. UNCHANGED <<run, indexed, overlapped>>
    BY <1>12 DEF Mark, PollTimeout, Select, Fail, Thrown, sidecar, history
  <2> QED
    BY <1>2, <2>1, <2>2
<1>13. CASE Send(t)
  <2>1. UNCHANGED <<row, run, overlapped>> /\ (indexed' = indexed \/ indexed' = TRUE)
    BY <1>13 DEF Send, history
  <2>2. CASE indexed' = indexed
    BY <1>2, <2>1, <2>2
  <2>3. CASE indexed' = TRUE
    BY <2>1, <2>3 DEF Build!Next, Build!Index
  <2> QED
    BY <2>1, <2>2, <2>3
<1>14. CASE Finish(t)
  BY <1>2, <1>14 DEF Finish, sidecar, history
<1> QED
  BY <1>3, <1>4, <1>5, <1>6, <1>7, <1>10, <1>11, <1>12, <1>13, <1>14 DEF Step
\* Every step is a step of GraphBuild or leaves what it shows alone.
LEMMA BuildStep ==
  IndInv /\ TrackInv /\ IndInv' /\ [Next]_vars => [Build!Next]_(Build!vars)
<1> SUFFICES ASSUME TypeOK, TypeOK', IndexInv, GraphInv, TrackInv, Next PROVE Build!Next
  <2>1. ASSUME UNCHANGED vars PROVE UNCHANGED Build!vars
    BY <2>1 DEF vars, Build!vars
  <2> QED
    BY <2>1 DEF IndInv
<1> USE DEF IndexInv
<1>0. row \in Rows
  BY DEF TypeOK
<1>1. ASSUME row'.pipe = row.pipe, row'.status = "deleted" <=> row.status = "deleted",
             row'.cognify = "completed" => row.cognify = "completed",
             UNCHANGED <<run, indexed, overlapped>>
      PROVE  Build!Next
  BY <1>1, Shows
<1>2. ASSUME NEW t \in Tasks, Begin(t), UNCHANGED <<row, run, indexed>> PROVE Build!Next
  <2>1. overlapped' = overlapped \/ overlapped' = TRUE
    BY <1>2 DEF Begin, TypeOK
  <2>2. CASE overlapped' = overlapped
    BY <1>1, <1>2, <2>2
  <2>3. CASE overlapped' = TRUE
    BY <1>2, <2>3 DEF Build!Next, Build!Overlap
  <2> QED
    BY <2>1, <2>2, <2>3
<1>3. ASSUME NEW status \in {row.status, "error"}, RequestFailed(status)
      PROVE  /\ row'.pipe = row.pipe /\ (row'.status = "deleted" <=> row.status = "deleted")
             /\ row'.cognify = "completed" => row.cognify = "completed"
  BY <1>0, <1>3 DEF RequestFailed, Rows, Exists
<1>4. ASSUME NEW value \in {"null", "processing", "failed"}, SetCognify(value)
      PROVE  /\ row'.pipe = row.pipe /\ row'.status = row.status
             /\ row'.cognify = "completed" => row.cognify = "completed"
  BY <1>0, <1>4 DEF SetCognify, Rows
<1>5. CASE Upload \/ ReprocessRead \/ EnqueueEmbed \/ EmbedRuns
  <2>1. UNCHANGED <<run, indexed, overlapped>>
    BY <1>5 DEF Upload, ReprocessRead, EnqueueEmbed, EmbedRuns, sidecar, history
  <2>2. CASE Upload \/ ReprocessRead \/ EmbedRuns
    BY <1>0, <1>1, <2>1, <2>2 DEF Upload, ReprocessRead, EmbedRuns, SetError, Rows, Exists
  <2>3. CASE EnqueueEmbed
    BY <1>1, <1>3, <2>1, <2>3 DEF EnqueueEmbed
  <2> QED
    BY <1>5, <2>2, <2>3
<1>6. CASE ReprocessClaim
  <2>1. UNCHANGED <<run, indexed, overlapped>> /\ request.at = "claim"
    BY <1>6 DEF ReprocessClaim, sidecar, history
  <2>2. CASE row' = row
    BY <1>1, <2>1, <2>2
  <2>3. CASE /\ row.status = request.status
             /\ row' = [row EXCEPT !.cognify = "processing",
                                   !.pipe = IF request.clears THEN NoPipe ELSE @]
    <3>1. /\ row'.status = row.status /\ row'.cognify = "processing"
          /\ row'.pipe = (IF request.clears THEN NoPipe ELSE row.pipe)
      BY <1>0, <2>3 DEF Rows
    <3>2. CASE ~request.clears
      BY <1>1, <2>1, <3>1, <3>2
    <3>3. CASE request.clears
      <4>1. Exists
        BY <2>3 DEF Exists, TypeOK, Requests
      <4>2. ~overlapped => row.pipe.phase = "failed"
        BY <2>1, <3>3, <4>1 DEF GraphInv, Clears
      <4>3. Build!Restart
        BY <2>1, <3>1, <3>3, <4>2 DEF Build!Restart, Build!NoPipe, Build!Pipe, NoPipe, Pipe
      <4> QED
        BY <4>3 DEF Build!Next
    <3> QED
      BY <3>2, <3>3
  <2> QED
    BY <1>6, <2>2, <2>3 DEF ReprocessClaim
<1>7. CASE EnqueueGraph
  <2>1. run' = run /\ indexed' = indexed
    BY <1>7 DEF EnqueueGraph, sidecar
  <2>2. CASE overlapped' = overlapped
             /\ (row' = row \/ RequestFailed(row.status) \/ SetCognify("failed"))
    BY <1>1, <1>3, <1>4, <2>1, <2>2
  <2>3. CASE row' = row /\ \E c \in Calls : Begin(c)
    BY <1>2, <2>1, <2>3 DEF Tasks
  <2> QED
    BY <1>7, <2>2, <2>3 DEF EnqueueGraph, history
<1>8. ASSUME NEW t \in Tasks,
             \/ TakeLocked(t) \/ TakeDisabled(t) \/ TakeGone(t) \/ Take(t)
             \/ EnableDocument(t) \/ Recognify(t)
      PROVE  Build!Next
  <2>1. CASE TakeLocked(t)
    BY <1>1, <1>4, <2>1 DEF TakeLocked, sidecar, history
  <2>2. CASE TakeDisabled(t) \/ TakeGone(t) \/ Recognify(t)
    BY <1>1, <2>2 DEF TakeDisabled, TakeGone, Recognify, sidecar, history
  <2>3. CASE Take(t) \/ EnableDocument(t)
    BY <1>2, <2>3 DEF Take, EnableDocument, sidecar
  <2> QED
    BY <1>8, <2>1, <2>2, <2>3
<1>9. CASE Delete
  <2>1. row'.status = "deleted" /\ row'.pipe = NoPipe /\ row'.cognify = "null"
    BY <1>9 DEF Delete, NoRow
  <2>2. UNCHANGED <<run, indexed, overlapped>>
    BY <1>9 DEF Delete, Wipe, sidecar
  <2>3. Build!Delete
    BY <2>1, <2>2 DEF Build!Delete, Build!NoPipe, Build!Pipe, NoPipe, Pipe
  <2> QED
    BY <2>3 DEF Build!Next
<1>10. CASE Forget \/ Disable \/ ForgetStatuses \/ Enable \/ Crash
  <2>1. UNCHANGED <<run, indexed, overlapped>>
    BY <1>10 DEF Forget, Disable, ForgetStatuses, Enable, Crash, Wipe, sidecar, history
  <2>2. row' = row \/ row' = [row EXCEPT !.cognify = "null"]
    BY <1>10 DEF Forget, Disable, ForgetStatuses, Enable, Crash
  <2> QED
    BY <1>0, <1>1, <2>1, <2>2 DEF Rows
<1>11. CASE \E r \in Runs : RunEnds(r)
  <2> PICK r \in Runs : RunEnds(r)
    BY <1>11
  <2>1. Build!Ends(r)
    BY DEF RunEnds, Build!Ends, history
  <2> QED
    BY <2>1 DEF Build!Next
<1>12. ASSUME NEW j \in Jobs, JobStep(j) PROVE Build!Next
  BY <1>8, <1>12, BuildExecution DEF JobStep, Tasks
<1>13. ASSUME NEW c \in Calls, EnableDocument(c) \/ Recognify(c) \/ Step(c) PROVE Build!Next
  BY <1>8, <1>13, BuildExecution DEF Tasks
<1> QED
  BY <1>5, <1>6, <1>7, <1>9, <1>10, <1>11, <1>12, <1>13 DEF Next

(***************************************************************************)
(* Documents implements GraphBuild: whatever is retried, crashed or        *)
(* answered late, a run is launched after its launch was announced and     *)
(* while no other is alive, the saved state says what is true of it, and   *)
(* an unfailed run is never replaced.                                      *)
(***************************************************************************)
THEOREM Refinement == Spec => ImplementsBuild
<1>1. Init => Build!Init
  BY DEF Init, Build!Init, NoRow, NoPipe, Pipe, Build!NoPipe, Build!Pipe
<1>2. IndInv /\ TrackInv /\ IndInv' /\ [Next]_vars => [Build!Next]_(Build!vars)
  BY BuildStep
<1> QED
  BY <1>1, <1>2, Tracked, PTL DEF Spec, ImplementsBuild, Build!Spec
=============================================================================
