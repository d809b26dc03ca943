------------------------------ MODULE AgentRun -----------------------------
(***************************************************************************)
(* The agent loop of another request of the same organisation: in every    *)
(* round the model answers, or names tools that are called in parallel.    *)
(*                                                                         *)
(* The tool is wrapped with its own guards, and the loop has guards too,   *)
(* on the same circuit: what the wrapper recorded is recorded again when   *)
(* its answer reaches the loop, and a refusal by the rate limit, which the *)
(* wrapper does not record, is recorded as a failure of the tool.          *)
(***************************************************************************)
EXTENDS ToolGuard

CONSTANTS
  Calls,      \* bound: calls of the tool in a round
  MaxRounds   \* maxRounds

ASSUME AgentAssumption == MaxRounds \in Nat \ {0}

VARIABLES
  agent,   \* [stage, round]
  call     \* call -> where it stands, and how it ended

agentVars == <<agent, call>>

AgentTypeOK ==
  /\ agent \in [stage : {"think", "tools", "ended"}, round : 0 .. MaxRounds]
  /\ call \in [Calls -> [at : {"idle", "limit", "expire", "call", "row", "done"}, ok : BOOLEAN]]

AgentInit ==
  /\ agent = [stage |-> "think", round |-> 0]
  /\ call = [c \in Calls |-> [at |-> "idle", ok |-> FALSE]]

Step(c, stage) == call' = [call EXCEPT ![c].at = stage]
Id(c)          == <<c, agent.round>>

\* A slip: one round too many.
AnotherRoundInclusive == agent.round <= MaxRounds

AnotherRound == agent.round < MaxRounds

\* The model names tools; the circuit is read for all of them at once.
CallTools ==
  /\ agent.stage = "think" /\ AnotherRound
  /\ agent' = [stage |-> "tools", round |-> agent.round + 1]
  /\ \E C \in (SUBSET Calls) \ {{}} :
       call' = [c \in Calls |-> [at |-> IF c \notin C THEN "idle"
                                        ELSE IF Allowed(breaker) THEN "limit" ELSE "done",
                                 ok |-> FALSE]]
  /\ breaker' = Metrics(breaker)
  /\ UNCHANGED <<window, faults, blamed, endless>>

\* The model answers, throws, or has used its rounds.
Conclude ==
  /\ agent.stage = "think"
  /\ agent' = [agent EXCEPT !.stage = "ended"]
  /\ UNCHANGED <<call, guardVars>>

RoundEnds ==
  /\ agent.stage = "tools" /\ \A c \in Calls : call[c].at \in {"idle", "done"}
  /\ agent' = [agent EXCEPT !.stage = "think"]
  /\ call' = [c \in Calls |-> [at |-> "idle", ok |-> FALSE]]
  /\ UNCHANGED guardVars

\* A refusal comes back as a failed result and is recorded by the loop.
CountCall(c) ==
  /\ call[c].at = "limit"
  /\ \/ /\ window' = Incremented
        /\ LET next == AfterCount(Incremented.count) IN
           IF next = "refused" THEN Step(c, "done") /\ RecordFailure(Id(c))
           ELSE Step(c, next) /\ UNCHANGED <<breaker, blamed>>
        /\ UNCHANGED <<faults, endless>>
     \/ Step(c, "call") /\ Fault /\ UNCHANGED <<window, endless, breaker, blamed>>
     \/ CountedUnheard /\ (Step(c, "limit") \/ Step(c, "call")) /\ UNCHANGED <<breaker, blamed>>
  /\ UNCHANGED agent

ExpireCall(c) ==
  /\ call[c].at = "expire"
  /\ Step(c, "call")
  /\ \/ window' = [window EXCEPT !.ttl = TRUE] /\ UNCHANGED <<faults, endless>>
     \/ Fault /\ endless' = TRUE /\ UNCHANGED window
  /\ UNCHANGED <<agent, breaker, blamed>>

\* The tool answers; the wrapper records it and stores the tool run.
Answer(c) ==
  /\ call[c].at = "call"
  /\ \E ok \in BOOLEAN :
       /\ call' = [call EXCEPT ![c] = [at |-> "row", ok |-> ok]]
       /\ IF ok THEN RecordSuccess ELSE RecordFailure(Id(c))
  /\ UNCHANGED <<agent, window, faults, endless>>

\* The tool throws or outlasts the sandbox: wrapper and loop record at once.
AnswerThrows(c) ==
  /\ call[c].at = "call"
  /\ Step(c, "done")
  /\ RecordTwice(Id(c))
  /\ UNCHANGED <<agent, window, faults, endless>>

\* The loop records what the wrapper has recorded before.
RecordAgain(c) ==
  /\ call[c].at = "row"
  /\ call' = [call EXCEPT ![c] = [at |-> "done", ok |-> FALSE]]
  /\ IF call[c].ok THEN RecordSuccess ELSE RecordFailure(Id(c))
  /\ UNCHANGED <<agent, window, faults, endless>>

\* The process dies; its next request starts a loop of its own.
RestartAgent ==
  /\ agent' = [stage |-> "think", round |-> 0]
  /\ call' = [c \in Calls |-> [at |-> "idle", ok |-> FALSE]]

CallWork(c) == CountCall(c) \/ ExpireCall(c) \/ Answer(c) \/ AnswerThrows(c) \/ RecordAgain(c)

AgentNext == CallTools \/ Conclude \/ RoundEnds \/ \E c \in Calls : CallWork(c)
=============================================================================
