----------------------------- MODULE Documents -----------------------------
(***************************************************************************)
(* One document of the knowledge base: its row, the requests that enqueue  *)
(* its processing, the two background jobs, and the graph it has built by  *)
(* the cognee sidecar.                                                     *)
(*                                                                         *)
(* A graph execution is a run of cognifyDocument.  It reads the pipeline   *)
(* state saved on the row, works on that copy, and saves the copy back     *)
(* after each phase: uploaded, about to launch, launched, terminal.  Two   *)
(* kinds of task build graphs:                                             *)
(*                                                                         *)
(*   Jobs     document-cognify jobs of the queue: attempts, redelivery     *)
(*   Calls    executions nobody retries: the PATCH that enables a          *)
(*            document, the enqueue that finds Redis down, and             *)
(*            cognifyBatch, which ignores the saved pipeline               *)
(*                                                                         *)
(* Every step of a task is one awaited request or update.  The database    *)
(* answers as long as the process lives; the sidecar, Redis and the        *)
(* embedding provider may not, and the licence gate in front of a job may  *)
(* refuse it: all of these count as faults.                                *)
(***************************************************************************)
EXTENDS Naturals, FiniteSets

CONSTANTS
  Jobs, Calls,   \* tasks
  Runs,          \* bound: identities of graph runs
  MaxAttempts,   \* attempts of a job
  MaxTasks,      \* bound: tasks of a behaviour
  MaxFaults,     \* bound: failures and operator actions of a behaviour
  None           \* no run

ASSUME DocumentsAssumption ==
  /\ MaxAttempts \in Nat \ {0}
  /\ MaxTasks \in Nat /\ MaxFaults \in Nat
  /\ None \notin Runs
  /\ Jobs \cap Calls = {}

Tasks == Jobs \cup Calls

VARIABLES
  row,         \* the Document row
  request,     \* the upload or reprocess request under way
  embed,       \* the document-embed job
  task,        \* task -> where it stands
  text,        \* what the sidecar holds of the document's text
  run,         \* graph run -> its status at the sidecar
  enabled,     \* isCogneeEnabled()
  purge,       \* the forget under way
  faults,      \* faults so far
  indexed,     \* history: the text was indexed at some time
  overlapped,  \* history: two executions worked on the saved pipeline at once
  abandoned    \* history: work was dropped without writing an outcome

vars == <<row, request, embed, task, text, run, enabled, purge,
          faults, indexed, overlapped, abandoned>>

\* cognifyPipelineJson: "stored" has data identities only, "launching" the
\* flag, the others a run identity.
Pipe(phase, id) == [phase |-> phase, run |-> id]
NoPipe == Pipe("none", None)
Pipes  == [phase : {"none", "stored", "launching", "running", "failed", "completed"},
           run : Runs \cup {None}]

Working == {"mark", "add", "saveAdd", "claim", "launch", "saveRun", "poll"}
Stages  == Working \cup {"free", "queued", "select", "send", "fail", "thrown", "finish", "done"}

Rows == [status : {"absent", "ready", "error", "deleted"},
         cognify : {"null", "processing", "completed", "failed"},
         pipe : Pipes]

Requests == [at : {"idle", "claim", "embed", "graph"}, by : {"upload", "reprocess"},
             status : {"ready", "error"},
             cognify : {"null", "processing", "completed", "failed"}, clears : BOOLEAN]

TypeOK ==
  /\ row \in Rows
  /\ request \in Requests
  /\ embed \in {"free", "queued", "done", "failed"}
  /\ task \in [Tasks -> [at : Stages, made : 0 .. MaxAttempts, stalled : BOOLEAN,
                         pipe : Pipes]]
  /\ text \in {"none", "stored", "indexed"}
  /\ run \in [Runs -> {"none", "running", "completed", "errored"}]
  /\ enabled \in BOOLEAN
  /\ purge \in {"no", "forget", "disable"}
  /\ faults \in 0 .. MaxFaults
  /\ indexed \in BOOLEAN /\ overlapped \in BOOLEAN /\ abandoned \in BOOLEAN

NoRow == [status |-> "absent", cognify |-> "null", pipe |-> NoPipe]
NoRequest == [at |-> "idle", by |-> "upload", status |-> "ready",
              cognify |-> "null", clears |-> FALSE]

Init ==
  /\ row = NoRow
  /\ request = NoRequest
  /\ embed = "free"
  /\ task = [t \in Tasks |-> [at |-> "free", made |-> 0, stalled |-> FALSE, pipe |-> NoPipe]]
  /\ text = "none"
  /\ run = [r \in Runs |-> "none"]
  /\ enabled = TRUE
  /\ purge = "no"
  /\ faults = 0
  /\ indexed = FALSE /\ overlapped = FALSE /\ abandoned = FALSE

sidecar  == <<text, run, indexed>>
settings == <<enabled, purge>>
history  == <<overlapped, abandoned>>

Exists == row.status \in {"ready", "error"}
Fault  == faults < MaxFaults /\ faults' = faults + 1

\* An update of the row that finds it gone throws; updateMany changes nothing.
SetCognify(value) == row' = IF Exists THEN [row EXCEPT !.cognify = value] ELSE row
SetError          == row' = IF Exists THEN [row EXCEPT !.status = "error"] ELSE row

\* The copy of the pipeline state lives as long as the execution works on it.
MoveTo(t, stage, pipe) ==
  task' = [task EXCEPT ![t].at = stage,
                       ![t].pipe = IF stage \in Working THEN pipe ELSE NoPipe]
Goto(t, stage) == MoveTo(t, stage, NoPipe)

Free(t) == /\ task[t].at = "free"
           /\ Cardinality({u \in Tasks : task[u].at # "free"}) < MaxTasks

FreeJobs == {j \in Jobs : Free(j)}

\* cognifyDocument up to its read of the saved pipeline.
Begin(t) ==
  /\ MoveTo(t, "mark", row.pipe)
  /\ overlapped' = (overlapped \/ \E u \in Tasks \ {t} : task[u].at \in Working)
  /\ UNCHANGED abandoned

-----------------------------------------------------------------------------
(***************************************************************************)
(* The requests: POST /api/documents and .../[id]/reprocess.               *)
(***************************************************************************)
Upload ==
  /\ row.status = "absent"
  /\ request.at = "idle"
  /\ row' = [row EXCEPT !.status = "ready"]
  /\ request' = [NoRequest EXCEPT !.at = "embed"]
  /\ UNCHANGED <<embed, task, sidecar, settings, faults, history>>

\* Bound: only as long as there are jobs left.
ReprocessRead ==
  /\ request.at = "idle" /\ FreeJobs # {}
  /\ Exists
  /\ row.status = "error" \/ row.cognify = "failed"
  /\ request' = [at |-> "claim", by |-> "reprocess", status |-> row.status,
                 cognify |-> row.cognify, clears |-> row.pipe.phase = "failed"]
  /\ UNCHANGED <<row, embed, task, sidecar, settings, faults, history>>

ReprocessClaim ==
  /\ request.at = "claim"
  /\ IF row.status = request.status /\ row.cognify = request.cognify
     THEN /\ row' = [row EXCEPT !.cognify = "processing",
                                !.pipe = IF request.clears THEN NoPipe ELSE @]
          /\ request' = [NoRequest EXCEPT !.at = "embed", !.by = "reprocess"]
     ELSE row' = row /\ request' = NoRequest
  /\ UNCHANGED <<embed, task, sidecar, settings, faults, history>>

\* A slip: the enqueue error is reported and the claim stays.
RequestFailedClaimed(status) ==
  /\ request' = NoRequest
  /\ row' = IF Exists THEN [row EXCEPT !.status = status] ELSE row

\* The catch of the reprocess route; the upload's has nothing to undo.
RequestFailed(status) ==
  /\ request' = NoRequest
  /\ row' = IF Exists
            THEN [row EXCEPT
                   !.status = status,
                   !.cognify = IF request.by = "reprocess" /\ @ = "processing"
                               THEN "failed" ELSE @]
            ELSE row

\* enqueueOrSync('document-embed'): a job, or the handler inside the request
\* when Redis is down.
EnqueueEmbed ==
  /\ request.at = "embed" /\ embed # "queued"
  /\ \/ /\ embed' = "queued"
        /\ request' = [request EXCEPT !.at = "graph"]
        /\ UNCHANGED <<row, faults>>
     \/ /\ Fault
        /\ embed' = "done"
        /\ request' = [request EXCEPT !.at = "graph"]
        /\ UNCHANGED row
     \/ /\ Fault
        /\ \E status \in {row.status, "error"} : RequestFailed(status)
        /\ UNCHANGED embed
  /\ UNCHANGED <<task, sidecar, settings, history>>

\* enqueueOrSync('document-cognify'), awaited by the reprocess only.
EnqueueGraph ==
  /\ request.at = "graph"
  /\ \/ /\ FreeJobs # {} /\ Goto(CHOOSE j \in FreeJobs : TRUE, "queued")
        /\ request' = NoRequest
        /\ UNCHANGED <<row, faults, history>>
     \/ /\ Fault
        /\ RequestFailed(row.status)
        /\ UNCHANGED <<task, history>>
     \/ /\ Fault
        /\ SetCognify("failed")
        /\ request' = NoRequest
        /\ UNCHANGED <<task, history>>
     \/ /\ enabled /\ Exists /\ Fault
        /\ \E c \in Calls : Free(c) /\ Begin(c)
        /\ request' = NoRequest
        /\ UNCHANGED row
     \/ /\ ~enabled /\ Fault
        /\ request' = NoRequest
        /\ abandoned' = TRUE
        /\ UNCHANGED <<row, task, overlapped>>
  /\ UNCHANGED <<embed, sidecar, settings>>

-----------------------------------------------------------------------------
(***************************************************************************)
(* The document-embed job.                                                 *)
(***************************************************************************)
\* Its attempts leave the row alone; the last one that fails does not.
EmbedRuns ==
  /\ embed = "queued"
  /\ \/ /\ embed' = "done"
        /\ UNCHANGED <<row, faults>>
     \/ /\ embed' = "failed"
        /\ SetError
        /\ Fault
  /\ UNCHANGED <<request, task, sidecar, settings, history>>

-----------------------------------------------------------------------------
(***************************************************************************)
(* Taking a document-cognify job: the licence gate, the handler's early    *)
(* returns, and the read of the saved pipeline.                            *)
(***************************************************************************)
TakeLocked(j) ==
  /\ task[j].at = "queued" /\ Fault
  /\ SetCognify("failed")
  /\ Goto(j, "done")
  /\ UNCHANGED <<request, embed, sidecar, settings, history>>

TakeDisabled(j) ==
  /\ task[j].at = "queued" /\ ~enabled
  /\ Goto(j, "done")
  /\ abandoned' = TRUE
  /\ UNCHANGED <<row, request, embed, sidecar, settings, faults, overlapped>>

TakeGone(j) ==
  /\ task[j].at = "queued" /\ enabled /\ ~Exists
  /\ Goto(j, "done")
  /\ UNCHANGED <<row, request, embed, sidecar, settings, faults, history>>

Take(j) ==
  /\ task[j].at = "queued" /\ enabled /\ Exists
  /\ Begin(j)
  /\ UNCHANGED <<row, request, embed, sidecar, settings, faults>>

\* PATCH of a disabled document, which does not wait for the graph.
EnableDocument(c) ==
  /\ Free(c) /\ enabled /\ Exists
  /\ Begin(c)
  /\ UNCHANGED <<row, request, embed, sidecar, settings, faults>>

\* The rows the recognify action and autoCognifyAll select.
Eligible == row.status = "ready" /\ row.cognify # "completed"

Recognify(c) ==
  /\ Free(c) /\ enabled /\ Eligible
  /\ Goto(c, "select")
  /\ UNCHANGED <<row, request, embed, sidecar, settings, faults, history>>

-----------------------------------------------------------------------------
(***************************************************************************)
(* One execution.                                                          *)
(***************************************************************************)
\* A slip: an unknown launch outcome is taken for no launch.
AfterMarkRelaunching(pipe) ==
  CASE pipe.phase = "none"                    -> "add"
    [] pipe.phase \in {"stored", "launching"} -> "claim"
    [] OTHER                                  -> "poll"

\* Where processDocumentPipeline goes from the state it was given.
AfterMark(pipe) ==
  CASE pipe.phase = "none"      -> "add"
    [] pipe.phase = "stored"    -> "claim"
    [] pipe.phase = "launching" -> "fail"
    [] OTHER                    -> "poll"

Mark(t) ==
  /\ task[t].at = "mark"
  /\ SetCognify("processing")
  /\ MoveTo(t, IF Exists THEN AfterMark(task[t].pipe) ELSE "thrown", task[t].pipe)
  /\ UNCHANGED <<request, embed, sidecar, settings, faults, history>>

\* POST /add; a lost answer may hide a stored copy.
Add(t) ==
  /\ task[t].at = "add"
  /\ \/ /\ text' = IF text = "none" THEN "stored" ELSE text
        /\ \/ MoveTo(t, "saveAdd", Pipe("stored", None)) /\ UNCHANGED faults
           \/ Goto(t, "fail") /\ Fault
     \/ Goto(t, "fail") /\ Fault /\ UNCHANGED text
  /\ UNCHANGED <<row, request, embed, run, indexed, settings, history>>

\* onState: the row takes the copy, or is gone and the update throws.
Save(t, pipe, stage) ==
  /\ row' = IF Exists THEN [row EXCEPT !.pipe = pipe] ELSE row
  /\ MoveTo(t, IF Exists THEN stage ELSE "thrown", pipe)
  /\ UNCHANGED <<request, embed, sidecar, settings, faults, history>>

SaveAdd(t) == task[t].at = "saveAdd" /\ Save(t, task[t].pipe, "claim")

Claim(t) ==
  /\ task[t].at = "claim"
  /\ Save(t, Pipe("launching", None), "launch")

\* Run identities are interchangeable; when the bound is reached the sidecar
\* refuses.
FreeRuns == {r \in Runs : run[r] = "none"}
NewRun   == CHOOSE r \in FreeRuns : TRUE

\* POST /cognify in the background; a lost answer may hide a started run.
Launch(t) ==
  /\ task[t].at = "launch"
  /\ \/ /\ FreeRuns # {}
        /\ \/ /\ run' = [run EXCEPT ![NewRun] = "running"]
              /\ \/ MoveTo(t, "saveRun", Pipe("running", NewRun)) /\ UNCHANGED faults
                 \/ Goto(t, "fail") /\ Fault
           \/ /\ run' = [run EXCEPT ![NewRun] = "errored"]
              /\ MoveTo(t, "saveRun", Pipe("failed", NewRun))
              /\ Fault
     \/ /\ Goto(t, "fail")
        /\ IF FreeRuns = {} THEN UNCHANGED faults ELSE Fault
        /\ UNCHANGED run
  /\ UNCHANGED <<row, request, embed, text, indexed, settings, history>>

SaveRun(t) == task[t].at = "saveRun" /\ Save(t, task[t].pipe, "poll")

\* A slip: a completed run is taken for an indexed document.
ReadyUnchecked(pipe) == run[pipe.run] = "completed"

\* The poll loop; the row is saved with the terminal status it finds.
Ready(pipe) == run[pipe.run] = "completed" /\ text = "indexed"

PollCompleted(t) ==
  /\ task[t].at = "poll" /\ Ready(task[t].pipe)
  /\ Save(t, [task[t].pipe EXCEPT !.phase = "completed"], "finish")

PollErrored(t) ==
  /\ task[t].at = "poll" /\ run[task[t].pipe.run] = "errored"
  /\ Save(t, [task[t].pipe EXCEPT !.phase = "failed"], "fail")

PollTimeout(t) ==
  /\ task[t].at = "poll"
  /\ Goto(t, "fail")
  /\ UNCHANGED <<row, request, embed, sidecar, settings, faults, history>>

\* cognifyBatch: mark, then remember with its own retries: stored and indexed,
\* or not.
Select(t) ==
  /\ task[t].at = "select"
  /\ SetCognify("processing")
  /\ Goto(t, IF Exists THEN "send" ELSE "thrown")
  /\ UNCHANGED <<request, embed, sidecar, settings, faults, history>>

Send(t) ==
  /\ task[t].at = "send"
  /\ \/ /\ text' = "indexed" /\ indexed' = TRUE
        /\ \/ Goto(t, "finish") /\ UNCHANGED faults
           \/ Goto(t, "fail") /\ Fault
     \/ Goto(t, "fail") /\ Fault /\ UNCHANGED <<text, indexed>>
  /\ UNCHANGED <<row, request, embed, run, settings, history>>

Finish(t) ==
  /\ task[t].at = "finish"
  /\ SetCognify("completed")
  /\ Goto(t, IF Exists THEN "done" ELSE "thrown")
  /\ UNCHANGED <<request, embed, sidecar, settings, faults, history>>

\* The failure is written, then thrown to whoever runs the execution.
Fail(t) ==
  /\ task[t].at = "fail"
  /\ SetCognify("failed")
  /\ Goto(t, "thrown")
  /\ UNCHANGED <<request, embed, sidecar, settings, faults, history>>

\* A slip: attempts are compared before this one is counted.
ThrownOnceMore(t) ==
  /\ task[t].at = "thrown"
  /\ IF t \in Jobs
     THEN LET made == task[t].made + 1
          IN  IF task[t].made < MaxAttempts
              THEN task' = [task EXCEPT ![t].at = "queued", ![t].made = made] /\ row' = row
              ELSE /\ task' = [task EXCEPT ![t].at = "done", ![t].made = made]
                   /\ SetCognify("failed")
     ELSE Goto(t, "done") /\ row' = row
  /\ UNCHANGED <<request, embed, sidecar, settings, faults, history>>

\* The worker's catch: retry or, in the "failed" event after the last attempt,
\* write the failure once more; by then the document may have been claimed again
\* or be worked on.  The job counts as under way until that write.
Thrown(t) ==
  /\ task[t].at = "thrown"
  /\ IF t \in Jobs
     THEN LET made == task[t].made + 1
          IN  IF made < MaxAttempts
              THEN task' = [task EXCEPT ![t].at = "queued", ![t].made = made] /\ row' = row
              ELSE /\ task' = [task EXCEPT ![t].at = "done", ![t].made = made]
                   /\ SetCognify("failed")
     ELSE Goto(t, "done") /\ row' = row
  /\ UNCHANGED <<request, embed, sidecar, settings, faults, history>>

Step(t) ==
  \/ Mark(t) \/ Add(t) \/ SaveAdd(t) \/ Claim(t) \/ Launch(t) \/ SaveRun(t)
  \/ PollCompleted(t) \/ PollErrored(t) \/ PollTimeout(t)
  \/ Select(t) \/ Send(t) \/ Finish(t) \/ Fail(t) \/ Thrown(t)

JobStep(j) == TakeLocked(j) \/ TakeDisabled(j) \/ TakeGone(j) \/ Take(j) \/ Step(j)

-----------------------------------------------------------------------------
(***************************************************************************)
(* Deletion, the forget of the dataset, the cognee switch.                 *)
(***************************************************************************)
\* forgetKnowledgeGraph up to the sidecar's answer.
Wipe(why) ==
  /\ purge' = why
  /\ text' = "none"
  /\ UNCHANGED <<run, indexed>>

Delete ==
  /\ Exists /\ purge = "no" /\ Fault
  /\ row' = [NoRow EXCEPT !.status = "deleted"]
  /\ IF enabled THEN Wipe("forget") ELSE UNCHANGED <<purge, sidecar>>
  /\ UNCHANGED <<request, embed, task, enabled, overlapped, abandoned>>

\* Another document is deleted, or an administrator forgets or resets.
Forget ==
  /\ enabled /\ purge = "no" /\ Fault
  /\ Wipe("forget")
  /\ UNCHANGED <<row, request, embed, task, enabled, overlapped, abandoned>>

\* update_config: the purge first, then the switch, whatever the purge did.
Disable ==
  /\ enabled /\ purge = "no" /\ Fault
  /\ \/ Wipe("disable") /\ UNCHANGED enabled
     \/ enabled' = FALSE /\ UNCHANGED <<purge, sidecar>>
  /\ UNCHANGED <<row, request, embed, task, overlapped, abandoned>>

ForgetStatuses ==
  /\ purge # "no"
  /\ row' = [row EXCEPT !.cognify = "null"]
  /\ enabled' = (enabled /\ purge # "disable")
  /\ purge' = "no"
  /\ UNCHANGED <<request, embed, task, sidecar, faults, history>>

\* Switching on starts autoCognifyAll.
Enable ==
  /\ ~enabled /\ Fault
  /\ enabled' = TRUE
  /\ IF Eligible
     THEN \E c \in Calls : Free(c) /\ Goto(c, "select")
     ELSE UNCHANGED task
  /\ UNCHANGED <<row, request, embed, sidecar, purge, history>>

-----------------------------------------------------------------------------
(***************************************************************************)
(* The environment.                                                        *)
(***************************************************************************)
\* A run ends; a completed one may have left items out.
RunEnds(r) ==
  /\ run[r] = "running"
  /\ \/ /\ run' = [run EXCEPT ![r] = "completed"]
        /\ \/ text = "stored" /\ text' = "indexed" /\ indexed' = TRUE
           \/ UNCHANGED <<text, indexed>>
        /\ UNCHANGED faults
     \/ run' = [run EXCEPT ![r] = "errored"] /\ Fault /\ UNCHANGED <<text, indexed>>
  /\ UNCHANGED <<row, request, embed, task, settings, history>>

\* The process dies.  The queue hands an active job out again, once; nothing
\* else of what was under way is taken up.
Redelivered(t) == t \in Jobs /\ ~task[t].stalled
Active(t)      == task[t].at \notin {"free", "queued", "done"}

Crash ==
  /\ Fault
  /\ task' = [t \in Tasks |->
                IF ~Active(t) THEN task[t]
                ELSE IF Redelivered(t)
                     THEN [task[t] EXCEPT !.at = "queued", !.stalled = TRUE, !.pipe = NoPipe]
                     ELSE [task[t] EXCEPT !.at = "done", !.pipe = NoPipe]]
  /\ request' = NoRequest
  /\ purge' = "no"
  /\ abandoned' = \/ abandoned
                  \/ request.at # "idle"
                  \/ \E t \in Tasks : Active(t) /\ ~Redelivered(t)
  /\ UNCHANGED <<row, embed, sidecar, enabled, overlapped>>

-----------------------------------------------------------------------------
Next ==
  \/ Upload \/ ReprocessRead \/ ReprocessClaim \/ EnqueueEmbed \/ EnqueueGraph
  \/ EmbedRuns
  \/ \E j \in Jobs : JobStep(j)
  \/ \E c \in Calls : EnableDocument(c) \/ Recognify(c) \/ Step(c)
  \/ Delete \/ Forget \/ Disable \/ ForgetStatuses \/ Enable
  \/ \E r \in Runs : RunEnds(r)
  \/ Crash

Spec == Init /\ [][Next]_vars

=============================================================================
