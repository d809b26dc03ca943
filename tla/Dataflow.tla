------------------------------ MODULE Dataflow ------------------------------
(***************************************************************************)
(* What a planned turn promises, with no word about sorting, levels,       *)
(* sandboxes or tools: a plan is accepted when it has neither a cycle nor  *)
(* an unknown step, a step starts once every step it depends on has its    *)
(* result, a result is reported once and stays, and the answer is composed *)
(* when every step has one.  Only a step that starts while no step has     *)
(* succeeded gets its placeholders as they stand.                          *)
(***************************************************************************)
CONSTANTS
  Steps,
  Ghost   \* a step the plan does not have

VARIABLES
  deps,     \* step -> the steps it depends on
  stage,    \* where the turn stands
  started,  \* the steps started so far
  result,   \* step -> "none", "ok" or "error"
  literal   \* the steps that got a placeholder as it stands

vars == <<deps, stage, started, result, literal>>

Init ==
  /\ deps \in [Steps -> SUBSET (Steps \cup {Ghost})]
  /\ stage = "planned"
  /\ started = {}
  /\ result = [s \in Steps |-> "none"]
  /\ literal = {}

\* In every set of steps one depends on none of the others, and all are known.
Executable ==
  /\ \A S \in (SUBSET Steps) \ {{}} : \E s \in S : deps[s] \cap S = {}
  /\ \A s \in Steps : Ghost \notin deps[s]

Accept ==
  /\ stage = "planned" /\ Executable
  /\ stage' = "running"
  /\ UNCHANGED <<deps, started, result, literal>>

\* The turn goes on without a plan.
Reject ==
  /\ stage = "planned" /\ ~Executable
  /\ stage' = "single"
  /\ deps' = [s \in Steps |-> {}]
  /\ UNCHANGED <<started, result, literal>>

Ready == {s \in Steps \ started : \A d \in deps[s] : result[d] # "none"}

\* Steps start together; some are refused at once.
Start ==
  /\ stage = "running"
  /\ \E S \in SUBSET Ready : \E refused, raw \in SUBSET S :
       /\ S # {}
       /\ raw # {} => \A s \in Steps : result[s] # "ok"
       /\ started' = started \cup S
       /\ result' = [s \in Steps |-> IF s \in refused THEN "error" ELSE result[s]]
       /\ literal' = literal \cup raw
  /\ UNCHANGED <<deps, stage>>

Report(s) ==
  /\ stage = "running" /\ s \in started /\ result[s] = "none"
  /\ \E r \in {"ok", "error"} : result' = [result EXCEPT ![s] = r]
  /\ UNCHANGED <<deps, stage, started, literal>>

Conclude ==
  /\ stage = "running" /\ \A s \in Steps : result[s] # "none"
  /\ stage' = "synthesis"
  /\ UNCHANGED <<deps, started, result, literal>>

Answer ==
  /\ stage = "synthesis"
  /\ stage' \in {"answered", "single"}
  /\ UNCHANGED <<deps, started, result, literal>>

\* The process dies before the answer.
Lose ==
  /\ stage \in {"planned", "running", "synthesis"}
  /\ stage' = "lost"
  /\ UNCHANGED <<deps, started, result, literal>>

Next == Accept \/ Reject \/ Start \/ Conclude \/ Answer \/ Lose \/ \E s \in Steps : Report(s)

Spec == Init /\ [][Next]_vars
=============================================================================
