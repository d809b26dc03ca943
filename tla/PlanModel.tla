----------------------------- MODULE PlanModel -----------------------------
(***************************************************************************)
(* The plan a language model returns for a compound question, and how it   *)
(* becomes executable: the dependency check, the order (Kahn's algorithm)  *)
(* and the levels that run in parallel.                                    *)
(***************************************************************************)
EXTENDS Naturals, Sequences

CONSTANTS
  N,     \* steps of the plan
  Ghost  \* a step id the plan does not have

Steps == 1 .. N   \* in the order of the plan

ASSUME PlanAssumption == N \in Nat \ {0} /\ Ghost \notin Steps

\* dependsOn of every step: ids the model made up, itself, or cycles included.
RawPlans == [Steps -> SUBSET (Steps \cup {Ghost})]

\* The steps of S in the order of the plan, out of its first n steps.
Kept(S) ==
  LET kept[n \in 0 .. N] == IF n = 0 THEN <<>>
                            ELSE IF n \in S THEN Append(kept[n - 1], n)
                            ELSE kept[n - 1]
  IN  kept

InOrder(S) == Kept(S)[N]

\* A slip: a step is queued with every finished dependency.
ReleasedEarly(q, head) == {s \in Steps : head \in q.open[s]}

\* The dependents that wait for nothing else.
Released(q, head) == {s \in Steps : q.open[s] = {head}}

\* The queue, what each step still waits for, and the result.
KahnStart(deps) == [queue |-> InOrder({s \in Steps : deps[s] = {}}), open |-> deps, sorted |-> <<>>]

KahnRound(q) ==
  LET head == Head(q.queue) IN
  [queue  |-> Tail(q.queue) \o InOrder(Released(q, head)),
   open   |-> [s \in Steps |-> q.open[s] \ {head}],
   sorted |-> Append(q.sorted, head)]

\* The loop after n rounds; it ends when the queue is empty.
KahnLoop(deps) ==
  LET loop[n \in 0 .. N] == IF n = 0 THEN KahnStart(deps)
                            ELSE IF loop[n - 1].queue = <<>> THEN loop[n - 1]
                            ELSE KahnRound(loop[n - 1])
  IN  loop

Kahn(deps) == KahnLoop(deps)[N].sorted

\* validatePlan: topoSort throws on an unknown dependency and on a cycle.
Valid(deps) == /\ \A s \in Steps : Ghost \notin deps[s]
               /\ Len(Kahn(deps)) = N

\* What Valid is compared with: some step of every set depends on no step of it.
Acyclic(deps) == \A S \in (SUBSET Steps) \ {{}} : \E s \in S : deps[s] \cap S = {}

\* A slip: one completed dependency is enough.
NextLevelEager(deps, completed) ==
  {s \in Steps \ completed : deps[s] = {} \/ deps[s] \cap completed # {}}

\* groupByLevel: the steps that follow the completed levels.
NextLevel(deps, completed) == {s \in Steps \ completed : deps[s] \subseteq completed}
=============================================================================
