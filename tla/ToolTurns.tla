----------------------------- MODULE ToolTurns -----------------------------
(***************************************************************************)
(* A planned turn and an agent loop that share one MCP tool: its circuit   *)
(* in the process, its rate limit in Redis.  Planning touches neither, so  *)
(* the plan may be taken to be made before the loop starts.                *)
(***************************************************************************)
EXTENDS PlanRun, AgentRun

vars == <<guardVars, planVars, agentVars>>

TypeOK ==
  /\ breaker \in Breakers
  /\ window \in [count : 0 .. Limit + 1, ttl : BOOLEAN]
  /\ faults \in 0 .. MaxFaults
  /\ blamed \in SUBSET ((Steps \X {0}) \cup (Calls \X (1 .. MaxRounds)))
  /\ endless \in BOOLEAN
  /\ PlanTypeOK
  /\ AgentTypeOK

Init == GuardInit /\ PlanInit /\ AgentInit

Expiring == (\E s \in Steps : step[s].at = "expire") \/ (\E c \in Calls : call[c].at = "expire")

\* The process dies with everything but the window, whose EXPIRE may be missing.
Crash ==
  /\ Fault
  /\ ForgetBreaker /\ LosePlan /\ RestartAgent
  /\ endless' = (endless \/ Expiring)
  /\ UNCHANGED window

Next ==
  \/ PlanNext /\ UNCHANGED agentVars
  \/ stage # "planned" /\ AgentNext /\ UNCHANGED planVars
  \/ (Cooldown \/ WindowEnds) /\ UNCHANGED <<planVars, agentVars>>
  \/ Crash

Spec == Init /\ [][Next]_vars

FairSpec == Spec /\ PlanFairness
=============================================================================
