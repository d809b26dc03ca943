-------------------------- MODULE ToolTurnsProps ---------------------------
(***************************************************************************)
(* What must hold of planned turns, agent loops and the guards they share. *)
(***************************************************************************)
EXTENDS ToolTurns

(***************************************************************************)
(* Of the plans that name every step once, whatever the model makes of     *)
(* their dependencies, validatePlan accepts exactly those without an       *)
(* unknown dependency and without a cycle ("Throws on: ... circular deps,  *)
(* dangling dependsOn", plan-model.ts:154), and the order of an accepted   *)
(* plan has every step once, after its dependencies.  (A plan that names a *)
(* step twice is accepted as well.)                                        *)
(***************************************************************************)
SortedPlan ==
  stage = "planned" =>
    LET order == Kahn(deps) IN
    /\ Valid(deps) <=> Acyclic(deps) /\ \A s \in Steps : Ghost \notin deps[s]
    /\ \A i \in 1 .. Len(order) :
         /\ \A j \in 1 .. i - 1 : order[i] # order[j]
         /\ deps[order[i]] \subseteq {order[j] : j \in 1 .. i - 1}

(***************************************************************************)
(* "every dependency of a step in level N has already landed here by the   *)
(* time that level starts" (planner.ts:325), and no step of a plan is left *)
(* without a result when the answer is written.                            *)
(***************************************************************************)
DependenciesLanded ==
  /\ \A s \in Steps : step[s].at # "idle" => \A d \in deps[s] : result[d] # "none"
  /\ stage \in {"synthesis", "answered"} => \A s \in Steps : result[s] # "none"

(***************************************************************************)
(* Sorted by Kahn's algorithm, run level by level, with refusals of the    *)
(* circuit and the rate limit, self-correction, sandboxes that answer      *)
(* before their tool does and tools that answer after them, a plan is      *)
(* executed as Dataflow says: no late answer changes a result, and a tool  *)
(* gets a literal placeholder only while no step has succeeded.  (The      *)
(* comment at plan-model.ts:268 promises that it never does; a failed      *)
(* first step is enough for it.)                                           *)
(***************************************************************************)
Flow == INSTANCE Dataflow

ImplementsDataflow == Flow!Spec

(***************************************************************************)
(* One failing call never opens the circuit, although an agent call counts *)
(* twice and its second count may come after a success of somebody else.   *)
(* The three "consecutive failures" of tool-circuit-breaker.ts:23 are not  *)
(* needed: two failing agent calls are enough.                             *)
(***************************************************************************)
OneCallNeverOpens == breaker.state # "closed" => Cardinality(blamed) = 2

(***************************************************************************)
(* A window of the rate limit has an end, or somebody is about to give it  *)
(* one: otherwise the tool stays refused for ever.  This fails, and nobody *)
(* notices, once the EXPIRE of the call that opened the window failed, the *)
(* answer to its INCR was lost (sent again it answers 2, lib/redis.ts:23), *)
(* or its process died between the two commands.                           *)
(***************************************************************************)
WindowHasEnd ==
  window.count > 0 /\ ~window.ttl /\ ~endless =>
    Expiring

(***************************************************************************)
(* A turn ends although tools, the pipeline, Redis and the database never  *)
(* answer: "Tool timed out after" (tool-sandbox.ts:6) is an answer too.    *)
(* A turn whose process dies is lost.                                      *)
(***************************************************************************)
TurnEnds == <>(stage \in {"answered", "single", "lost"})
=============================================================================
