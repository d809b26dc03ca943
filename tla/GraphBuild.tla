----------------------------- MODULE GraphBuild -----------------------------
(***************************************************************************)
(* What the pipeline state saved on a document promises of the graph runs  *)
(* that were launched for it, with no word about requests, jobs, attempts, *)
(* crashes or answers:                                                     *)
(*                                                                         *)
(*   none -> stored -> launching -> running -> completed                   *)
(*     ^                    |          |                                   *)
(*     |                    v          v                                   *)
(*     +----------------- failed <-----+                                   *)
(*                                                                         *)
(* A run is launched once its launch was announced, and while every other  *)
(* run has failed; what is saved of a run is true of it; a run that did    *)
(* not fail is never forgotten for another one.  Only executions that      *)
(* overlapped lose the order, and even they save nothing untrue.           *)
(***************************************************************************)
CONSTANTS
  Runs,
  None   \* no run

VARIABLES
  pipe,        \* the saved state: phase and run
  shown,       \* the graph status the document shows
  gone,        \* the document was deleted
  run,         \* run -> its status at the sidecar
  indexed,     \* the text was indexed
  overlapped   \* executions overlapped

vars == <<pipe, shown, gone, run, indexed, overlapped>>

Pipe(phase, r) == [phase |-> phase, run |-> r]
NoPipe == Pipe("none", None)

Init ==
  /\ pipe = NoPipe
  /\ shown = "null" /\ gone = FALSE
  /\ run = [r \in Runs |-> "none"]
  /\ indexed = FALSE /\ overlapped = FALSE

\* The saved state is p, for all one knows.
At(p) == overlapped \/ pipe = p

AllFailed == \A r \in Runs : run[r] \in {"none", "errored"}

Save(p) == pipe' = p /\ UNCHANGED <<shown, gone, run, indexed, overlapped>>

Store   == At(NoPipe) /\ Save(Pipe("stored", None))
Prepare == At(Pipe("stored", None)) /\ Save(Pipe("launching", None))

\* The request of a launch may arrive after the document was deleted.
Launch(r) ==
  /\ run[r] = "none"
  /\ overlapped \/ (AllFailed /\ (gone \/ pipe = Pipe("launching", None)))
  /\ \E status \in {"running", "errored"} : run' = [run EXCEPT ![r] = status]
  /\ UNCHANGED <<pipe, shown, gone, indexed, overlapped>>

Ends(r) ==
  /\ run[r] = "running"
  /\ \/ run' = [run EXCEPT ![r] = "errored"] /\ UNCHANGED indexed
     \/ run' = [run EXCEPT ![r] = "completed"] /\ indexed' \in {indexed, TRUE}
  /\ UNCHANGED <<pipe, shown, gone, overlapped>>

Record(r) ==
  /\ At(Pipe("launching", None))
  /\ \/ run[r] # "none" /\ Save(Pipe("running", r))
     \/ run[r] = "errored" /\ Save(Pipe("failed", r))

Complete(r) ==
  /\ At(Pipe("running", r))
  /\ run[r] = "completed" /\ indexed
  /\ Save(Pipe("completed", r))

\* An execution that polled a failed run may save it again after the restart.
Fail(r) ==
  /\ At(Pipe("running", r)) \/ At(NoPipe)
  /\ run[r] = "errored"
  /\ Save(Pipe("failed", r))

\* The reprocess request: a failed run makes room for a new one.
Restart ==
  /\ overlapped \/ pipe.phase = "failed"
  /\ pipe' = NoPipe /\ shown' = "processing"
  /\ UNCHANGED <<gone, run, indexed, overlapped>>

Show(status) ==
  /\ status = "completed" => indexed
  /\ shown' = status
  /\ UNCHANGED <<pipe, gone, run, indexed, overlapped>>

\* The text is sent without the pipeline.
Index ==
  /\ indexed' = TRUE
  /\ UNCHANGED <<pipe, shown, gone, run, overlapped>>

Delete ==
  /\ gone' = TRUE /\ pipe' = NoPipe /\ shown' = "null"
  /\ UNCHANGED <<run, indexed, overlapped>>

Overlap ==
  /\ overlapped' = TRUE
  /\ UNCHANGED <<pipe, shown, gone, run, indexed>>

Next ==
  \/ Store \/ Prepare
  \/ \E r \in Runs : Launch(r) \/ Ends(r) \/ Record(r) \/ Complete(r) \/ Fail(r)
  \/ Restart \/ Index \/ Delete \/ Overlap
  \/ \E status \in {"null", "processing", "completed", "failed"} : Show(status)

Spec == Init /\ [][Next]_vars
=============================================================================
