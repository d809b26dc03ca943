--------------------------- MODULE DocumentsProps ---------------------------
(***************************************************************************)
(* What must hold of a document and its graph.                             *)
(***************************************************************************)
EXTENDS Documents

(***************************************************************************)
(* "Only a confirmed terminal failure starts a new run"                    *)
(* (reprocess/route.ts:47) and "Never launch another graph run on retry"   *)
(* (cognee-document-pipeline.ts:78): as long as executions do not overlap, *)
(* retries, reprocessing, crashes at any await and answers lost on the way *)
(* leave at most one graph run that has not failed.                        *)
(***************************************************************************)
Unfailed(r) == run[r] \in {"running", "completed"}

OneGraph ==
  ~overlapped => \A r, q \in Runs : Unfailed(r) /\ Unfailed(q) => r = q

(***************************************************************************)
(* A document shown as processing has somebody working on it.  Otherwise   *)
(* the reprocess route refuses it for ever.  The exceptions are work a     *)
(* dead process dropped and jobs taken while cognee was switched off.      *)
(***************************************************************************)
Owner == \/ \E t \in Tasks : task[t].at \notin {"free", "done"}
         \/ request.at \in {"embed", "graph"}

ProcessingHasOwner == Exists /\ row.cognify = "processing" => Owner \/ abandoned

(***************************************************************************)
(* The saved pipeline state moves as GraphBuild says, whatever is retried, *)
(* reprocessed, crashed, deleted or answered late: a launch is announced   *)
(* before it is made ("A lost launch response is ambiguous",               *)
(* cognee-document-pipeline.ts:78), what the state says of a run is true,  *)
(* and a run is replaced after it failed only.  A document is shown as     *)
(* completed only if it was indexed: "a document that reports `completed`  *)
(* but was never indexed is invisible forever"                             *)
(* (cognee-knowledge-graph.ts:99).                                         *)
(***************************************************************************)
Build == INSTANCE GraphBuild WITH pipe <- row.pipe, shown <- row.cognify,
                                  gone <- row.status = "deleted"

ImplementsBuild == Build!Spec
=============================================================================
