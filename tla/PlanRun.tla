------------------------------ MODULE PlanRun ------------------------------
(***************************************************************************)
(* A chat turn that needs several tools: runMultiStepDag plans, executes   *)
(* the plan level by level and synthesises one answer.                     *)
(*                                                                         *)
(* Every step runs in a sandbox that answers an error when its time is     *)
(* over.  The step itself is not stopped: it goes on, reaches its tool and *)
(* records at the breaker, while the plan has moved on.                    *)
(*                                                                         *)
(* A step is either one call of the MCP tool of ToolGuard, or a question   *)
(* put to the whole chat pipeline.  A step that throws is reformulated     *)
(* once and put to the pipeline.                                           *)
(***************************************************************************)
EXTENDS PlanModel, ToolGuard

CONSTANTS
  McpSteps,   \* the steps that call the MCP tool
  Naming      \* the steps whose input names {{stepN}}, with or without a dependsOn

ASSUME McpAssumption == McpSteps \subseteq Steps /\ Naming \subseteq Steps

VARIABLES
  deps,     \* dependsOn
  stage,    \* where the turn stands
  started,  \* the steps of the levels started so far
  step,     \* step -> where its execution stands, and how its MCP call ended
  result,   \* step -> what the plan was told of it
  literal   \* steps that got a placeholder as it stands

planVars == <<deps, stage, started, step, result, literal>>

Sandboxed == {"limit", "expire", "call", "row", "correct"}

PlanTypeOK ==
  /\ deps \in RawPlans
  /\ stage \in {"planned", "running", "synthesis", "answered", "single", "lost"}
  /\ started \subseteq Steps
  /\ step \in [Steps -> [at : {"idle", "done"} \cup Sandboxed, ok : BOOLEAN]]
  /\ result \in [Steps -> {"none", "ok", "error"}]
  /\ literal \subseteq Steps

PlanInit ==
  /\ deps \in RawPlans
  /\ stage = "planned"
  /\ started = {}
  /\ step = [s \in Steps |-> [at |-> "idle", ok |-> FALSE]]
  /\ result = [s \in Steps |-> "none"]
  /\ literal = {}

Goto(s, at) == step' = [step EXCEPT ![s].at = at]
Awaits(s, at) == s \in Steps /\ step[s].at = at

\* A slip: a step that returns after its time was over is believed.
FinishLate(s, ok) ==
  /\ step' = [step EXCEPT ![s] = [at |-> "done", ok |-> FALSE]]
  /\ result' = [result EXCEPT ![s] = IF ok THEN "ok" ELSE "error"]

\* The step returns; the plan hears it unless the sandbox has spoken.
Finish(s, ok) ==
  /\ step' = [step EXCEPT ![s] = [at |-> "done", ok |-> FALSE]]
  /\ result' = [result EXCEPT ![s] = IF @ # "none" THEN @ ELSE IF ok THEN "ok" ELSE "error"]

-----------------------------------------------------------------------------
(***************************************************************************)
(* The plan.                                                               *)
(***************************************************************************)
\* fallbackChatPlan: one step, which depends on nothing.
ChatPlan == [s \in Steps |-> {}]

\* An invalid plan falls back to a chat plan, which runMultiStepDag hands back to
\* the single-tool path.
Plan ==
  /\ stage = "planned"
  /\ \/ Valid(deps) /\ stage' = "running" /\ UNCHANGED deps
     \/ ~Valid(deps) /\ stage' = "single" /\ deps' = ChatPlan
  /\ UNCHANGED <<started, step, result, literal, guardVars>>

LevelSettled == \A s \in started : result[s] # "none"

\* resolveStepInput: with no output at all the inputs stay as they are; with
\* one, a placeholder becomes the output or nothing.
Unresolved(S) ==
  IF \A d \in Steps : result[d] # "ok" THEN S \cap Naming ELSE {}

\* The steps of the next level start together: inputs and breaker are read at once.
StartLevel ==
  /\ stage = "running" /\ LevelSettled
  /\ LET S       == NextLevel(deps, started)
         refused == IF Allowed(breaker) THEN {} ELSE S \cap McpSteps
     IN  /\ S # {}
         /\ started' = started \cup S
         /\ step' = [s \in Steps |->
                       IF s \notin S THEN step[s]
                       ELSE [step[s] EXCEPT !.at = IF s \in refused THEN "done"
                                                   ELSE IF s \in McpSteps THEN "limit" ELSE "call"]]
         /\ result' = [s \in Steps |-> IF s \in refused THEN "error" ELSE result[s]]
         /\ literal' = literal \cup Unresolved(S)
         /\ breaker' = IF S \cap McpSteps = {} THEN breaker ELSE Metrics(breaker)
  /\ UNCHANGED <<deps, stage, window, faults, blamed, endless>>

AllLevels ==
  /\ stage = "running" /\ LevelSettled /\ NextLevel(deps, started) = {}
  /\ stage' = "synthesis"
  /\ UNCHANGED <<deps, started, step, result, literal, guardVars>>

\* A synthesis that throws sends the question down the single-tool path.
Synthesize ==
  /\ stage = "synthesis"
  /\ stage' \in {"answered", "single"}
  /\ UNCHANGED <<deps, started, step, result, literal, guardVars>>

-----------------------------------------------------------------------------
(***************************************************************************)
(* A step.                                                                 *)
(***************************************************************************)
\* An error of Redis lets the call through; a lost INCR is sent again or is an error.
CountStep(s) ==
  /\ Awaits(s, "limit")
  /\ \/ /\ window' = Incremented
        /\ LET next == AfterCount(Incremented.count) IN
           IF next = "refused" THEN Finish(s, FALSE) ELSE Goto(s, next) /\ UNCHANGED result
        /\ UNCHANGED <<faults, endless>>
     \/ Goto(s, "call") /\ Fault /\ UNCHANGED <<result, window, endless>>
     \/ CountedUnheard /\ (Goto(s, "limit") \/ Goto(s, "call")) /\ UNCHANGED result
  /\ UNCHANGED <<deps, stage, started, literal, breaker, blamed>>

ExpireStep(s) ==
  /\ Awaits(s, "expire")
  /\ Goto(s, "call")
  /\ \/ window' = [window EXCEPT !.ttl = TRUE] /\ UNCHANGED <<faults, endless>>
     \/ Fault /\ endless' = TRUE /\ UNCHANGED window
  /\ UNCHANGED <<deps, stage, started, result, literal, breaker, blamed>>

\* The MCP call answers; the outcome is recorded, then the tool run is stored.
CallMcp(s) ==
  /\ Awaits(s, "call") /\ s \in McpSteps
  /\ \E ok \in BOOLEAN :
       /\ step' = [step EXCEPT ![s] = [at |-> "row", ok |-> ok]]
       /\ IF ok THEN RecordSuccess ELSE RecordFailure(<<s, 0>>)
  /\ UNCHANGED <<deps, stage, started, result, literal, window, faults, endless>>

StoreRun(s) ==
  /\ Awaits(s, "row")
  /\ Finish(s, step[s].ok)
  /\ UNCHANGED <<deps, stage, started, literal, guardVars>>

\* The pipeline answers, at once or after a reformulation, or it fails.
CallPipeline(s) ==
  /\ Awaits(s, "call") /\ s \notin McpSteps
  /\ \E ok \in BOOLEAN : Finish(s, ok)
  /\ UNCHANGED <<deps, stage, started, literal, guardVars>>

\* The list of tools or the call throws: nothing is recorded, and the model is
\* asked for a better question.
CallThrows(s) ==
  /\ s \in McpSteps /\ (Awaits(s, "limit") \/ Awaits(s, "call"))
  /\ Goto(s, "correct")
  /\ UNCHANGED <<deps, stage, started, result, literal, guardVars>>

SelfCorrect(s) ==
  /\ Awaits(s, "correct")
  /\ \E ok \in BOOLEAN : Finish(s, ok)
  /\ UNCHANGED <<deps, stage, started, literal, guardVars>>

\* A slip: the time of a step that runs the pipeline is not bounded.
SandboxTimeoutMcp(s) ==
  /\ step[s].at \in Sandboxed /\ result[s] = "none" /\ s \in McpSteps
  /\ result' = [result EXCEPT ![s] = "error"]
  /\ UNCHANGED <<deps, stage, started, step, literal, guardVars>>

\* The end of a late pipeline step touches nothing here: it is left out.
SandboxTimeout(s) ==
  /\ step[s].at \in Sandboxed /\ result[s] = "none"
  /\ result' = [result EXCEPT ![s] = "error"]
  /\ IF s \in McpSteps THEN UNCHANGED step ELSE Goto(s, "done")
  /\ UNCHANGED <<deps, stage, started, literal, guardVars>>

\* The process dies, and with it the turn and its late steps.
LosePlan ==
  /\ stage' = IF stage \in {"answered", "single"} THEN stage ELSE "lost"
  /\ step' = [s \in Steps |-> IF step[s].at = "idle" THEN step[s] ELSE [at |-> "done", ok |-> FALSE]]
  /\ UNCHANGED <<deps, started, result, literal>>

-----------------------------------------------------------------------------
StepWork(s) == CountStep(s) \/ ExpireStep(s) \/ CallMcp(s) \/ StoreRun(s) \/ CallPipeline(s)
               \/ CallThrows(s) \/ SelfCorrect(s)

PlanWork == Plan \/ StartLevel \/ AllLevels \/ Synthesize

PlanNext == PlanWork \/ \E s \in Steps : StepWork(s) \/ SandboxTimeout(s)

(***************************************************************************)
(* The plan goes on when a level has its results, and the timers fire.     *)
(* Nothing is asked of the tools, the pipeline, Redis or the database.     *)
(***************************************************************************)
PlanFairness == WF_planVars(PlanWork) /\ \A s \in Steps : WF_planVars(SandboxTimeout(s))
=============================================================================
