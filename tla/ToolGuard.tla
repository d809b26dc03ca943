----------------------------- MODULE ToolGuard -----------------------------
(***************************************************************************)
(* What stands between a caller and one MCP tool: the circuit breaker of   *)
(* the process and the rate limit of the organisation in Redis.            *)
(*                                                                         *)
(* The breaker is plain memory: a check or a record is one step.  The rate *)
(* limit is two commands, INCR and, by whoever counted one, EXPIRE, and    *)
(* other callers come in between.                                          *)
(***************************************************************************)
EXTENDS Naturals, FiniteSets

CONSTANTS
  Threshold,   \* failureThreshold
  Limit,       \* calls of a window
  MaxFaults    \* bound: failed commands and lost answers of Redis, crashes

ASSUME GuardAssumption ==
  /\ Threshold \in Nat /\ Threshold > 2
  /\ Limit \in Nat \ {0}
  /\ MaxFaults \in Nat

VARIABLES
  breaker,   \* the circuit of the tool
  window,    \* the counter in Redis and whether it has a time to live
  faults,    \* faults so far
  blamed,    \* history: calls that recorded a failure since the last success (two are enough)
  endless    \* history: nobody is left to send the EXPIRE of a window

guardVars == <<breaker, window, faults, blamed, endless>>

Breakers == [state : {"closed", "open", "half_open"}, fails : 0 .. Threshold, cooled : BOOLEAN]

GuardInit ==
  /\ breaker = [state |-> "closed", fails |-> 0, cooled |-> FALSE]
  /\ window = [count |-> 0, ttl |-> FALSE]
  /\ faults = 0
  /\ blamed = {}
  /\ endless = FALSE

Fault == faults < MaxFaults /\ faults' = faults + 1

-----------------------------------------------------------------------------
(***************************************************************************)
(* The breaker.                                                            *)
(***************************************************************************)
\* getMetrics: an open circuit is half open once its cooldown is over.
Metrics(b) == IF b.state = "open" /\ b.cooled THEN [b EXCEPT !.state = "half_open"] ELSE b

\* isExecutionAllowed; every caller of a half open circuit is a probe.
Allowed(b) == Metrics(b).state # "open"

\* recordSuccess closes an open circuit as well.
AfterSuccess(b) == [state |-> "closed", fails |-> 0, cooled |-> FALSE]

\* A slip: the circuit opens one failure early.
AfterFailureEarly(b) ==
  LET m == Metrics(b) IN
  [state  |-> IF m.state = "closed" /\ m.fails + 2 < Threshold THEN "closed" ELSE "open",
   fails  |-> IF m.fails < Threshold THEN m.fails + 1 ELSE Threshold,
   cooled |-> FALSE]

\* recordFailure; a failure while open starts the cooldown again.
AfterFailure(b) ==
  LET m == Metrics(b) IN
  [state  |-> IF m.state = "closed" /\ m.fails + 1 < Threshold THEN "closed" ELSE "open",
   fails  |-> IF m.fails < Threshold THEN m.fails + 1 ELSE Threshold,
   cooled |-> FALSE]

Blame(call) == blamed' = IF Cardinality(blamed) < 2 THEN blamed \cup {call} ELSE blamed

RecordSuccess       == breaker' = AfterSuccess(breaker) /\ blamed' = {}
RecordFailure(call) == breaker' = AfterFailure(breaker) /\ Blame(call)
RecordTwice(call)   == breaker' = AfterFailure(AfterFailure(breaker)) /\ Blame(call)

Cooldown ==
  /\ breaker.state = "open" /\ ~breaker.cooled
  /\ breaker' = [breaker EXCEPT !.cooled = TRUE]
  /\ UNCHANGED <<window, faults, blamed, endless>>

-----------------------------------------------------------------------------
(***************************************************************************)
(* The rate limit: what INCR makes of the window, and what the caller does *)
(* next.  An error of Redis lets the call through.                         *)
(***************************************************************************)
Incremented == [window EXCEPT !.count = IF @ <= Limit THEN @ + 1 ELSE @]

\* The connection is lost after the INCR and before its answer: nobody hears that
\* it opened the window.
CountedUnheard ==
  /\ Fault
  /\ window' = Incremented
  /\ endless' = (endless \/ Incremented.count = 1)

\* A slip: the window gets its end from the caller that fills it.
AfterCountFilling(n) == IF n = Limit THEN "expire" ELSE IF n > Limit THEN "refused" ELSE "call"

AfterCount(n) == IF n = 1 THEN "expire" ELSE IF n > Limit THEN "refused" ELSE "call"

\* The process of the breaker dies; the window is in Redis.
ForgetBreaker == breaker' = AfterSuccess(breaker) /\ blamed' = {}

WindowEnds ==
  /\ window.count > 0 /\ window.ttl
  /\ window' = [count |-> 0, ttl |-> FALSE]
  /\ UNCHANGED <<breaker, faults, blamed, endless>>
=============================================================================
