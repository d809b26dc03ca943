-------------------------- MODULE ToolTurnsProofs --------------------------
(***************************************************************************)
(* For plans of every length, every number of calls, rounds and faults and *)
(* every threshold and limit: accepted plans are sorted, a step follows    *)
(* its dependencies, the turn is a Dataflow, moves forward and waits only  *)
(* for what has a timer, one call never opens the circuit, and a           *)
(* rate-limit window has an end.                                           *)
(***************************************************************************)
EXTENDS ToolTurnsProps, PlanModelProofs

(***************************************************************************)
(* The plan.  A step leaves "idle" with its level, and only then can it    *)
(* have a result.                                                          *)
(***************************************************************************)
Landed == \A s \in Steps : step[s].at # "idle" => \A d \in deps[s] : d \in Steps /\ result[d] # "none"

PlanInv ==
  /\ \A s \in Steps : step[s].at # "idle" => s \in started
  /\ \A s \in Steps : step[s].at \in {"limit", "expire", "row", "correct"} => s \in McpSteps
  /\ stage = "planned" => started = {}
  /\ stage = "lost" => \A s \in Steps : step[s].at \in {"idle", "done"}
  /\ Landed

(***************************************************************************)
(* The agent loop.  Calls are under way in a round only.                   *)
(***************************************************************************)
AgentInv ==
  /\ agent.stage = "tools" => agent.round > 0
  /\ \A c \in Calls : call[c].at # "idle" => agent.stage = "tools"

(***************************************************************************)
(* Why OneCallNeverOpens holds.  A call that has not reached its tool is   *)
(* not blamed; the only one blamed has counted twice at most, once if it   *)
(* is about to count again.                                                *)
(***************************************************************************)
Unrecorded == {"limit", "expire", "call"}

Again(x) == \E c \in Calls : x = <<c, agent.round>> /\ call[c].at = "row"

BlameInv ==
  /\ \A s \in Steps : <<s, 0>> \in blamed => step[s].at \notin Unrecorded \cup {"idle"}
  /\ \A c \in Calls, r \in Nat :
       <<c, r>> \in blamed => r <= agent.round /\ (r = agent.round => call[c].at \notin Unrecorded)

CircuitInv ==
  /\ blamed = {} => breaker.state = "closed" /\ breaker.fails = 0
  /\ \A x : blamed = {x} => /\ breaker.state = "closed" /\ breaker.fails <= 2
                            /\ Again(x) => breaker.fails <= 1
  /\ blamed = {} \/ (\E x : blamed = {x}) \/ Cardinality(blamed) = 2

IndInv == TypeOK /\ PlanInv /\ AgentInv /\ BlameInv /\ CircuitInv /\ WindowHasEnd
-----------------------------------------------------------------------------
Places   == {"idle", "done"} \cup Sandboxed
StepType == [Steps -> [at : Places, ok : BOOLEAN]]
CallType == [Calls -> [at : {"idle", "limit", "expire", "call", "row", "done"}, ok : BOOLEAN]]
Ids      == (Steps \X {0}) \cup (Calls \X (1 .. MaxRounds))
Windows  == [count : 0 .. Limit + 1, ttl : BOOLEAN]

\* The breaker's own steps.
LEMMA BreakerType ==
  /\ breaker \in Breakers => /\ Metrics(breaker) \in Breakers
                             /\ breaker.state # "open" => Metrics(breaker) = breaker
  /\ \A b : AfterSuccess(b) \in Breakers
BY GuardAssumption DEF Breakers, Metrics, AfterSuccess

\* A failure counts one, and opens the circuit at the threshold.
LEMMA FailureCounts ==
  ASSUME NEW b \in Breakers
  PROVE  /\ AfterFailure(b) \in Breakers
         /\ b.state = "closed" /\ b.fails <= 1 =>
              AfterFailure(b).state = "closed" /\ AfterFailure(b).fails = b.fails + 1
<1>1. Metrics(b) \in Breakers /\ (b.state # "open" => Metrics(b) = b)
  BY DEF Metrics, Breakers
<1> DEFINE m     == Metrics(b)
           state == IF m.state = "closed" /\ m.fails + 1 < Threshold THEN "closed" ELSE "open"
           fails == IF m.fails < Threshold THEN m.fails + 1 ELSE Threshold
<1>2. AfterFailure(b) = [state |-> state, fails |-> fails, cooled |-> FALSE]
  BY DEF AfterFailure
<1>3. state \in {"closed", "open"}
  OBVIOUS
<1>4. fails \in 0 .. Threshold
  BY <1>1, GuardAssumption DEF Breakers
<1>5. b.state = "closed" /\ b.fails <= 1 => state = "closed" /\ fails = b.fails + 1
  BY <1>1, GuardAssumption DEF Breakers
<1> HIDE DEF state, fails
<1> QED
  BY <1>2, <1>3, <1>4, <1>5 DEF Breakers

\* Small sets.
LEMMA Small ==
  /\ Cardinality({}) = 0
  /\ \A x : Cardinality({x}) = 1
  /\ \A x, y : x # y => Cardinality({x, y}) = 2
<1>1. Cardinality({}) = 0 /\ \A x : Cardinality({x}) = 1 /\ IsFiniteSet({x})
  BY FS_EmptySet, FS_Singleton
<1>2. ASSUME NEW x, NEW y, x # y PROVE Cardinality({x, y}) = 2
  <2>1. Cardinality({x} \cup {y}) = Cardinality({x}) + 1
    BY <1>1, <1>2, FS_AddElement
  <2>2. {x, y} = {x} \cup {y}
    OBVIOUS
  <2>3. Cardinality({x}) = 1
    BY <1>1
  <2>4. Cardinality({x} \cup {y}) = 2
    BY <2>1, <2>3
  <2> QED
    BY <2>2, <2>4
<1> QED
  BY <1>1, <1>2

\* Who is blamed after a failure.
LEMMA Blamed ==
  ASSUME CircuitInv, NEW x, Blame(x)
  PROVE  /\ blamed' \subseteq blamed \cup {x}
         /\ \/ blamed = {} /\ blamed' = {x}
            \/ blamed = {x} /\ blamed' = {x}
            \/ Cardinality(blamed') = 2
<1>1. CASE blamed = {}
  BY <1>1, Small DEF Blame
<1>2. CASE \E y : blamed = {y}
  <2>1. PICK y : blamed = {y}
    BY <1>2
  <2>2. blamed' = {y, x}
    <3>1. Cardinality(blamed) = 1
      BY <2>1, Small
    <3>2. blamed' = blamed \cup {x}
      BY <3>1 DEF Blame
    <3> QED
      BY <2>1, <3>2
  <2> QED
    BY <2>1, <2>2, Small
<1>3. CASE Cardinality(blamed) = 2
  BY <1>3 DEF Blame
<1> QED
  BY <1>1, <1>2, <1>3 DEF CircuitInv

\* Two blamed calls leave nothing to show.
LEMMA TwoBlamed == Cardinality(blamed') = 2 => CircuitInv'
<1> SUFFICES ASSUME Cardinality(blamed') = 2 PROVE CircuitInv'
  OBVIOUS
<1>1. blamed' # {}
  BY Small
<1>2. ASSUME NEW x, blamed' = {x} PROVE FALSE
  <2>1. Cardinality({x}) = 1
    BY Small
  <2> QED
    BY <1>2, <2>1
<1> QED
  BY <1>1, <1>2 DEF CircuitInv

\* A step that records nothing.
LEMMA CircuitFrame ==
  ASSUME CircuitInv, blamed' = blamed, breaker.state # "open" => breaker' = breaker,
         \A x : Again(x)' => Again(x)
  PROVE  CircuitInv'
<1>1. CASE Cardinality(blamed) = 2
  BY <1>1, TwoBlamed
<1>2. CASE blamed = {} \/ \E x : blamed = {x}
  <2>1. breaker' = breaker
    BY <1>2 DEF CircuitInv
  <2> QED
    BY <2>1 DEF CircuitInv
<1> QED
  BY <1>1, <1>2 DEF CircuitInv

\* A success.
LEMMA CircuitSuccess == RecordSuccess => CircuitInv' /\ blamed' = {} /\ breaker' \in Breakers
<1> SUFFICES ASSUME RecordSuccess PROVE CircuitInv' /\ blamed' = {} /\ breaker' \in Breakers
  OBVIOUS
<1>1. blamed' = {} /\ breaker'.state = "closed" /\ breaker'.fails = 0 /\ breaker' \in Breakers
  BY GuardAssumption DEF RecordSuccess, AfterSuccess, Breakers
<1> QED
  BY <1>1 DEF CircuitInv

\* A failure of a call that has not counted yet, or has counted once.
LEMMA CircuitFailure ==
  ASSUME CircuitInv, breaker \in Breakers, NEW x, RecordFailure(x),
         blamed = {x} => breaker.fails <= 1, x \in blamed => ~Again(x)'
  PROVE  CircuitInv' /\ breaker' \in Breakers
<1>1. breaker' = AfterFailure(breaker) /\ Blame(x)
  BY DEF RecordFailure
<1>2. breaker' \in Breakers
  BY <1>1, FailureCounts
<1>3. CASE blamed = {} /\ blamed' = {x}
  <2>1. breaker'.state = "closed" /\ breaker'.fails = 1
    BY <1>1, <1>3, FailureCounts DEF CircuitInv
  <2> QED
    BY <1>2, <1>3, <2>1 DEF CircuitInv
<1>4. CASE blamed = {x} /\ blamed' = {x}
  <2>1. breaker'.state = "closed" /\ breaker'.fails = breaker.fails + 1 /\ breaker.fails <= 1
    BY <1>1, <1>4, FailureCounts DEF CircuitInv
  <2>2. breaker'.fails <= 2 /\ ~Again(x)'
    BY <1>4, <2>1 DEF Breakers
  <2> QED
    BY <1>2, <1>4, <2>1, <2>2 DEF CircuitInv
<1> QED
  BY <1>1, <1>2, <1>3, <1>4, Blamed, TwoBlamed

\* A failure that counts twice, of a call that has not counted yet.
LEMMA CircuitTwice ==
  ASSUME CircuitInv, breaker \in Breakers, NEW x, RecordTwice(x), x \notin blamed, ~Again(x)'
  PROVE  CircuitInv' /\ breaker' \in Breakers
<1>1. breaker' = AfterFailure(AfterFailure(breaker)) /\ Blame(x)
  BY DEF RecordTwice
<1>2. AfterFailure(breaker) \in Breakers
  BY FailureCounts
<1>3. breaker' \in Breakers
  BY <1>1, <1>2, FailureCounts
<1>4. CASE blamed = {} /\ blamed' = {x}
  <2>1. AfterFailure(breaker).state = "closed" /\ AfterFailure(breaker).fails = 1
    BY <1>4, FailureCounts DEF CircuitInv
  <2>2. breaker'.state = "closed" /\ breaker'.fails = 2
    BY <1>1, <1>2, <2>1, FailureCounts
  <2> QED
    BY <1>3, <1>4, <2>2 DEF CircuitInv
<1> QED
  BY <1>1, <1>3, <1>4, Blamed, TwoBlamed
-----------------------------------------------------------------------------
\* A move changes the place of one step.
LEMMA StepMoved ==
  ASSUME step \in StepType, NEW s \in Steps, NEW place \in Places, Goto(s, place)
  PROVE  /\ step' \in StepType
         /\ step'[s].at = place
         /\ \A u \in Steps \ {s} : step'[u] = step[u]
BY DEF StepType, Goto

\* A step that returns is over, and the plan has a result for it.
LEMMA Finished ==
  ASSUME step \in StepType, result \in [Steps -> {"none", "ok", "error"}],
         NEW s \in Steps, NEW ok \in BOOLEAN, Finish(s, ok)
  PROVE  /\ step' \in StepType /\ result' \in [Steps -> {"none", "ok", "error"}]
         /\ step'[s].at = "done"
         /\ \A u \in Steps \ {s} : step'[u] = step[u]
         /\ \A u \in Steps : result[u] # "none" => result'[u] # "none"
<1>1. step' = [step EXCEPT ![s] = [at |-> "done", ok |-> FALSE]]
  BY DEF Finish
<1>2. [at |-> "done", ok |-> FALSE] \in [at : Places, ok : BOOLEAN]
  BY DEF Places
<1> DEFINE told == IF result[s] # "none" THEN result[s] ELSE IF ok THEN "ok" ELSE "error"
<1>3. result' = [result EXCEPT ![s] = told]
  BY DEF Finish
<1>4. told \in {"ok", "error"}
  OBVIOUS
<1> HIDE DEF told
<1>5. step' \in StepType /\ step'[s].at = "done" /\ \A u \in Steps \ {s} : step'[u] = step[u]
  BY <1>1, <1>2 DEF StepType
<1>6. /\ result' \in [Steps -> {"none", "ok", "error"}]
      /\ \A u \in Steps : result[u] # "none" => result'[u] # "none"
  BY <1>3, <1>4
<1> QED
  BY <1>5, <1>6

\* What is typed, by name.
LEMMA Typed ==
  TypeOK <=> /\ breaker \in Breakers /\ window \in Windows /\ faults \in 0 .. MaxFaults
             /\ blamed \subseteq Ids /\ endless \in BOOLEAN
             /\ deps \in RawPlans /\ stage \in {"planned", "running", "synthesis", "answered", "single", "lost"}
             /\ started \subseteq Steps /\ step \in StepType
             /\ result \in [Steps -> {"none", "ok", "error"}] /\ literal \subseteq Steps
             /\ agent \in [stage : {"think", "tools", "ended"}, round : 0 .. MaxRounds]
             /\ call \in CallType
BY DEF TypeOK, PlanTypeOK, AgentTypeOK, Windows, Ids, StepType, CallType, Places

LEMMA TypeNext ==
  ASSUME breaker' \in Breakers, window' \in Windows, faults' \in 0 .. MaxFaults,
         blamed' \subseteq Ids, endless' \in BOOLEAN,
         deps' \in RawPlans, stage' \in {"planned", "running", "synthesis", "answered", "single", "lost"},
         started' \subseteq Steps, step' \in StepType,
         result' \in [Steps -> {"none", "ok", "error"}], literal' \subseteq Steps,
         agent' \in [stage : {"think", "tools", "ended"}, round : 0 .. MaxRounds],
         call' \in CallType
  PROVE  TypeOK'
BY DEF TypeOK, PlanTypeOK, AgentTypeOK, Windows, Ids, StepType, CallType, Places

\* An ended window.
LEMMA EndedWindow == [count |-> 0, ttl |-> FALSE] \in Windows
<1>1. 0 \in 0 .. Limit + 1
  BY GuardAssumption
<1> QED
  BY <1>1 DEF Windows

\* The guards' counters.
LEMMA GuardTypes ==
  ASSUME TypeOK
  PROVE  /\ Incremented \in Windows
         /\ [window EXCEPT !.ttl = TRUE] \in Windows
         /\ Fault => faults' \in 0 .. MaxFaults
         /\ CountedUnheard =>
              /\ window' = Incremented /\ window' \in Windows /\ faults' \in 0 .. MaxFaults
              /\ endless' \in BOOLEAN /\ (endless \/ Incremented.count = 1 => endless')
         /\ \A x \in Ids : Blame(x) => blamed' \subseteq Ids
<1>1. Incremented \in Windows
  <2> DEFINE count == IF window.count <= Limit THEN window.count + 1 ELSE window.count
  <2>1. window \in Windows
    BY Typed
  <2>2. Incremented = [window EXCEPT !.count = count]
    BY DEF Incremented
  <2>3. count \in 0 .. Limit + 1
    BY <2>1, GuardAssumption DEF Windows
  <2> HIDE DEF count
  <2> QED
    BY <2>1, <2>2, <2>3 DEF Windows
<1>2. [window EXCEPT !.ttl = TRUE] \in Windows
  BY Typed DEF Windows
<1>3. Fault => faults' \in 0 .. MaxFaults
  BY Typed, GuardAssumption DEF Fault
<1>4. \A x \in Ids : Blame(x) => blamed' \subseteq Ids
  BY Typed DEF Blame
<1>5. ASSUME CountedUnheard
      PROVE  endless' \in BOOLEAN /\ (endless \/ Incremented.count = 1 => endless')
  <2>1. endless' = (endless \/ Incremented.count = 1) /\ endless \in BOOLEAN
    BY <1>5, Typed DEF CountedUnheard
  <2> QED
    BY <2>1
<1>6. CountedUnheard => Fault /\ window' = Incremented
  BY DEF CountedUnheard
<1> QED
  BY <1>1, <1>2, <1>3, <1>4, <1>5, <1>6

\* The next level, and what it starts.
LEMMA LevelFacts ==
  ASSUME TypeOK, StartLevel
  PROVE  \E S \in SUBSET Steps :
           /\ S \cap started = {} /\ started' = started \cup S
           /\ \A s \in S : \A d \in deps[s] : d \in started
           /\ \A s \in Steps \ S : step'[s] = step[s]
           /\ \A s \in S : step'[s].at \in {"done", "limit", "call"}
           /\ \A s \in S : step'[s].at = "limit" => s \in McpSteps
           /\ \A s \in Steps : result[s] # "none" => result'[s] # "none"
           /\ step' \in StepType /\ result' \in [Steps -> {"none", "ok", "error"}]
           /\ literal' = literal \cup Unresolved(S)
<1> DEFINE S       == NextLevel(deps, started)
           refused == IF Allowed(breaker) THEN {} ELSE S \cap McpSteps
           first(s) == IF s \in refused THEN "done" ELSE IF s \in McpSteps THEN "limit" ELSE "call"
<1>1. /\ started' = started \cup S
      /\ step' = [s \in Steps |-> IF s \notin S THEN step[s] ELSE [step[s] EXCEPT !.at = first(s)]]
      /\ result' = [s \in Steps |-> IF s \in refused THEN "error" ELSE result[s]]
      /\ literal' = literal \cup Unresolved(S)
  BY DEF StartLevel
<1>2. S \subseteq Steps /\ S \cap started = {} /\ \A s \in S : \A d \in deps[s] : d \in started
  BY DEF NextLevel
<1>3. \A s : first(s) \in {"done", "limit", "call"} /\ (first(s) = "limit" => s \in McpSteps)
  OBVIOUS
<1>4. step \in StepType /\ result \in [Steps -> {"none", "ok", "error"}]
  BY Typed
<1> HIDE DEF S, refused, first
<1>5. result' \in [Steps -> {"none", "ok", "error"}] /\ \A s \in Steps : result[s] # "none" => result'[s] # "none"
  BY <1>1, <1>4
<1>6. ASSUME NEW s \in Steps
      PROVE  /\ s \notin S => step'[s] = step[s]
             /\ s \in S => step'[s] = [step[s] EXCEPT !.at = first(s)] /\ step'[s].at = first(s)
  BY <1>1, <1>4, <1>6 DEF StepType
<1>7. step' \in StepType
  <2>1. \A s : first(s) \in Places
    BY <1>3 DEF Places, Sandboxed
  <2>2. \A s \in Steps : [step[s] EXCEPT !.at = first(s)] \in [at : Places, ok : BOOLEAN]
    BY <1>4, <2>1 DEF StepType
  <2>3. \A s \in Steps : step'[s] \in [at : Places, ok : BOOLEAN]
    BY <1>4, <1>6, <2>2 DEF StepType
  <2> QED
    BY <1>1, <2>3 DEF StepType
<1> QED
  BY <1>1, <1>2, <1>3, <1>5, <1>6, <1>7

\* The places by name.
LEMMA PlaceNames == {"done", "limit", "expire", "call", "row", "correct"} \subseteq Places
BY DEF Places, Sandboxed

\* What INCR leads to.
LEMMA Counted ==
  ASSUME NEW n
  PROVE  /\ AfterCount(n) \in {"expire", "refused", "call"}
         /\ AfterCount(n) # "refused" => AfterCount(n) \in {"expire", "call"}
         /\ n = 1 => AfterCount(n) = "expire"
BY DEF AfterCount

\* What a step of the plan does to it, whichever it is.
PlanChange(s) ==
  /\ UNCHANGED <<deps, stage, started, literal>>
  /\ step' \in StepType /\ result' \in [Steps -> {"none", "ok", "error"}]
  /\ \A u \in Steps \ {s} : step'[u] = step[u]
  /\ \A u \in Steps : result[u] # "none" => result'[u] # "none"
  /\ step[s].at \notin {"idle", "done"} /\ step'[s].at # "idle"
  /\ step'[s].at \in {"limit", "expire", "row", "correct"} =>
       s \in McpSteps \/ step[s].at \in {"limit", "expire", "row", "correct"}
  /\ step'[s].at \in Unrecorded => step[s].at \in Unrecorded
  /\ step'[s].at = "expire" \/ step[s].at # "expire"
     \/ window' = [window EXCEPT !.ttl = TRUE] \/ endless' = TRUE \/ s \notin McpSteps

LEMMA StepChanges ==
  ASSUME TypeOK, NEW s \in Steps, StepWork(s) \/ SandboxTimeout(s)
  PROVE  PlanChange(s)
<1>0. step \in StepType /\ result \in [Steps -> {"none", "ok", "error"}]
  BY Typed
<1>1. CASE CountStep(s)
  <2>1. UNCHANGED <<deps, stage, started, literal>> /\ step[s].at = "limit"
    BY <1>1 DEF CountStep, Awaits
  <2>2. CASE Finish(s, FALSE)
    BY <1>0, <2>1, <2>2, Finished DEF PlanChange, Unrecorded
  <2>3. ASSUME NEW place \in {"limit", "expire", "call"}, Goto(s, place), result' = result
        PROVE  PlanChange(s)
    <3>1. step' \in StepType /\ step'[s].at = place /\ \A u \in Steps \ {s} : step'[u] = step[u]
      BY <1>0, <2>3, StepMoved, PlaceNames
    <3> QED
      BY <1>0, <2>1, <2>3, <3>1 DEF PlanChange, Unrecorded
  <2> DEFINE next == AfterCount(Incremented.count)
  <2>4. \/ next = "refused" /\ Finish(s, FALSE)
        \/ next # "refused" /\ Goto(s, next) /\ result' = result
        \/ (Goto(s, "limit") \/ Goto(s, "call")) /\ result' = result
    BY <1>1 DEF CountStep
  <2>5. next # "refused" => next \in {"expire", "call"}
    BY Counted
  <2> HIDE DEF next
  <2> QED
    BY <2>2, <2>3, <2>4, <2>5
<1>2. CASE ExpireStep(s)
  <2>1. UNCHANGED <<deps, stage, started, literal, result>> /\ step[s].at = "expire" /\ Goto(s, "call")
        /\ (window' = [window EXCEPT !.ttl = TRUE] \/ endless' = TRUE)
    BY <1>2 DEF ExpireStep, Awaits
  <2>2. step' \in StepType /\ step'[s].at = "call" /\ \A u \in Steps \ {s} : step'[u] = step[u]
    BY <1>0, <2>1, StepMoved, PlaceNames
  <2> QED
    BY <1>0, <2>1, <2>2 DEF PlanChange, Unrecorded
<1>3. CASE CallMcp(s)
  <2>1. /\ UNCHANGED <<deps, stage, started, literal, result>> /\ step[s].at = "call" /\ s \in McpSteps
        /\ \E ok \in BOOLEAN : step' = [step EXCEPT ![s] = [at |-> "row", ok |-> ok]]
    BY <1>3 DEF CallMcp, Awaits
  <2>2. step' \in StepType /\ step'[s].at = "row" /\ \A u \in Steps \ {s} : step'[u] = step[u]
    BY <1>0, <2>1, PlaceNames DEF StepType
  <2> QED
    BY <1>0, <2>1, <2>2 DEF PlanChange, Unrecorded
<1>4. CASE StoreRun(s) \/ CallPipeline(s) \/ SelfCorrect(s)
  <2>1. /\ UNCHANGED <<deps, stage, started, literal>> /\ step[s].at \in {"row", "call", "correct"}
    BY <1>4 DEF StoreRun, CallPipeline, SelfCorrect, Awaits
  <2>2. PICK ok \in BOOLEAN : Finish(s, ok)
    BY <1>0, <1>4 DEF StoreRun, CallPipeline, SelfCorrect, StepType
  <2> QED
    BY <1>0, <2>1, <2>2, Finished DEF PlanChange, Unrecorded
<1>5. CASE CallThrows(s)
  <2>1. /\ UNCHANGED <<deps, stage, started, literal, result>> /\ step[s].at \in {"limit", "call"}
        /\ s \in McpSteps /\ Goto(s, "correct")
    BY <1>5 DEF CallThrows, Awaits
  <2>2. step' \in StepType /\ step'[s].at = "correct" /\ \A u \in Steps \ {s} : step'[u] = step[u]
    BY <1>0, <2>1, StepMoved, PlaceNames
  <2> QED
    BY <1>0, <2>1, <2>2 DEF PlanChange, Unrecorded
<1>6. CASE SandboxTimeout(s)
  <2>1. /\ UNCHANGED <<deps, stage, started, literal>> /\ step[s].at \in Sandboxed
        /\ result' = [result EXCEPT ![s] = "error"]
    BY <1>6 DEF SandboxTimeout
  <2>5. (s \in McpSteps /\ step' = step) \/ (s \notin McpSteps /\ Goto(s, "done"))
    BY <1>6 DEF SandboxTimeout
  <2>2. /\ result' \in [Steps -> {"none", "ok", "error"}]
        /\ \A u \in Steps : result[u] # "none" => result'[u] # "none"
    BY <1>0, <2>1
  <2>3. CASE s \in McpSteps /\ step' = step
    BY <1>0, <2>1, <2>2, <2>3 DEF PlanChange, Unrecorded, Sandboxed
  <2>4. CASE s \notin McpSteps /\ Goto(s, "done")
    <3>1. step' \in StepType /\ step'[s].at = "done" /\ \A u \in Steps \ {s} : step'[u] = step[u]
      BY <1>0, <2>4, StepMoved, PlaceNames
    <3> QED
      BY <1>0, <2>1, <2>2, <2>4, <3>1 DEF PlanChange, Unrecorded, Sandboxed
  <2> QED
    BY <2>3, <2>4, <2>5
<1> QED
  BY <1>1, <1>2, <1>3, <1>4, <1>5, <1>6 DEF StepWork
\* What a step of the plan does to the guards.
LEMMA StepGuards ==
  ASSUME TypeOK, BlameInv, CircuitInv, NEW s \in Steps, StepWork(s) \/ SandboxTimeout(s),
         UNCHANGED agentVars
  PROVE  /\ breaker' \in Breakers /\ window' \in Windows /\ faults' \in 0 .. MaxFaults
         /\ endless' \in BOOLEAN /\ blamed' \subseteq Ids
         /\ CircuitInv'
         /\ blamed' \subseteq blamed \cup {<<s, 0>>}
         /\ <<s, 0>> \in blamed' => <<s, 0>> \in blamed \/ step'[s].at = "row"
<1>0. /\ breaker \in Breakers /\ window \in Windows /\ faults \in 0 .. MaxFaults
      /\ endless \in BOOLEAN /\ blamed \subseteq Ids /\ step \in StepType
  BY Typed
<1>1. UNCHANGED <<agent, call>> /\ \A x : Again(x)' => Again(x)
  BY DEF agentVars, Again
<1>2. CASE CountStep(s) \/ ExpireStep(s)
  <2>1. UNCHANGED <<breaker, blamed>>
    BY <1>2 DEF CountStep, ExpireStep
  <2>2. window' \in {window, Incremented, [window EXCEPT !.ttl = TRUE]}
    BY <1>2 DEF CountStep, ExpireStep, CountedUnheard
  <2>3. CountedUnheard \/ ((Fault \/ faults' = faults) /\ (endless' = endless \/ endless' = TRUE))
    BY <1>2 DEF CountStep, ExpireStep
  <2>4. CircuitInv'
    BY <1>1, <2>1, CircuitFrame
  <2> QED
    BY <1>0, <2>1, <2>2, <2>3, <2>4, GuardTypes
<1>3. CASE CallMcp(s)
  <2>1. /\ UNCHANGED <<window, faults, endless>> /\ step[s].at = "call"
        /\ \E ok \in BOOLEAN : step' = [step EXCEPT ![s] = [at |-> "row", ok |-> ok]]
        /\ RecordSuccess \/ RecordFailure(<<s, 0>>)
    BY <1>3 DEF CallMcp, Awaits
  <2>2. step'[s].at = "row" /\ <<s, 0>> \notin blamed /\ <<s, 0>> \in Ids
    <3>1. step'[s].at = "row"
      <4>1. PICK ok \in BOOLEAN : step' = [step EXCEPT ![s] = [at |-> "row", ok |-> ok]]
        BY <2>1
      <4>2. [at |-> "row", ok |-> ok].at = "row"
        OBVIOUS
      <4> QED
        BY <1>0, <4>1, <4>2 DEF StepType
    <3>2. <<s, 0>> \notin blamed
      BY <2>1 DEF BlameInv, Unrecorded
    <3> QED
      BY <3>1, <3>2 DEF Ids
  <2>3. CASE RecordSuccess
    BY <1>0, <2>1, <2>2, <2>3, CircuitSuccess
  <2>4. CASE RecordFailure(<<s, 0>>)
    <3>1. CircuitInv' /\ breaker' \in Breakers
      BY <1>0, <2>2, <2>4, CircuitFailure
    <3>2. blamed' \subseteq blamed \cup {<<s, 0>>}
      BY <2>4, Blamed DEF RecordFailure
    <3> QED
      BY <1>0, <2>1, <2>2, <3>1, <3>2
  <2> QED
    BY <2>1, <2>3, <2>4
<1>4. CASE StoreRun(s) \/ CallPipeline(s) \/ CallThrows(s) \/ SelfCorrect(s) \/ SandboxTimeout(s)
  <2>1. UNCHANGED guardVars
    BY <1>4 DEF StoreRun, CallPipeline, CallThrows, SelfCorrect, SandboxTimeout
  <2>2. UNCHANGED <<breaker, window, faults, blamed, endless>>
    BY <2>1 DEF guardVars
  <2>3. CircuitInv'
    BY <1>1, <2>2, CircuitFrame
  <2> QED
    BY <1>0, <2>2, <2>3
<1> QED
  BY <1>2, <1>3, <1>4 DEF StepWork

\* What a step of the plan does to the window.
LEMMA StepWindow ==
  ASSUME TypeOK, PlanInv, WindowHasEnd, NEW s \in Steps, StepWork(s) \/ SandboxTimeout(s),
         UNCHANGED agentVars
  PROVE  WindowHasEnd'
<1>0. PlanChange(s) /\ window \in Windows /\ UNCHANGED call /\ step \in StepType
  BY StepChanges, Typed DEF agentVars
<1>1. endless => endless'
  BY GuardTypes DEF StepWork, CountStep, ExpireStep, CallMcp, StoreRun, CallPipeline, CallThrows, SelfCorrect,
         SandboxTimeout, guardVars
<1>2. CASE window'.count > 0 /\ ~window'.ttl /\ ~endless'
  <2>1. CASE window' = window
    <3>1. \A u \in Steps : step[u].at = "expire" => step'[u].at = "expire"
      <4>1. step[s].at = "expire" => step'[s].at = "expire"
        <5>1. step[s].at = "expire" => s \in McpSteps
          BY DEF PlanInv
        <5>2. window' # [window EXCEPT !.ttl = TRUE]
          BY <1>0, <1>2 DEF Windows
        <5> QED
          BY <1>0, <1>2, <5>1, <5>2 DEF PlanChange
      <4> QED
        BY <1>0, <4>1 DEF PlanChange
    <3> QED
      BY <1>0, <1>1, <1>2, <2>1, <3>1 DEF WindowHasEnd, Expiring
  <2>2. CASE window' = Incremented /\ CountStep(s)
    <3>1. step[s].at = "limit" /\ \A u \in Steps \ {s} : step'[u] = step[u]
      BY <1>0, <2>2 DEF CountStep, Awaits, PlanChange
    <3>2. CASE window.count > 0
      <4>1. ~window.ttl
        BY <1>0, <1>2, <2>2 DEF Windows, Incremented
      <4> QED
        BY <1>0, <1>1, <1>2, <3>1, <3>2, <4>1 DEF WindowHasEnd, Expiring
    <3>3. CASE ~(window.count > 0)
      <4>1. Incremented.count = 1
        <5>1. window.count = 0
          BY <1>0, <3>3, GuardAssumption DEF Windows
        <5>2. window.count <= Limit
          BY <5>1, GuardAssumption
        <5> QED
          BY <1>0, <5>1, <5>2 DEF Windows, Incremented
      <4>2. AfterCount(Incremented.count) = "expire"
        BY <4>1, Counted
      <4>3. Goto(s, "expire") \/ window' = window \/ CountedUnheard
        BY <2>2, <4>2 DEF CountStep
      <4>5. ~CountedUnheard
        BY <1>2, <4>1, GuardTypes
      <4>4. CASE Goto(s, "expire")
        <5>1. step'[s].at = "expire"
          BY <1>0, <4>4, StepMoved, PlaceNames
        <5> QED
          BY <5>1 DEF WindowHasEnd, Expiring
      <4> QED
        BY <2>1, <4>3, <4>4, <4>5
    <3> QED
      BY <3>2, <3>3
  <2>3. window' = window \/ (window' = Incremented /\ CountStep(s)) \/ window' = [window EXCEPT !.ttl = TRUE]
    BY DEF StepWork, CountStep, CountedUnheard, ExpireStep, CallMcp, StoreRun, CallPipeline, CallThrows, SelfCorrect,
           SandboxTimeout, guardVars
  <2>4. window' # [window EXCEPT !.ttl = TRUE]
    BY <1>0, <1>2 DEF Windows
  <2> QED
    BY <2>1, <2>2, <2>3, <2>4
<1> QED
  BY <1>2 DEF WindowHasEnd, Expiring

\* A step of the plan preserves the invariant.
LEMMA StepInvariant ==
  ASSUME IndInv, NEW s \in Steps, StepWork(s) \/ SandboxTimeout(s), UNCHANGED agentVars
  PROVE  IndInv'
<1> USE DEF IndInv
<1>0. PlanChange(s) /\ UNCHANGED <<agent, call>>
  BY StepChanges DEF agentVars
<1>1. TypeOK'
  BY <1>0, StepGuards, Typed, TypeNext DEF PlanChange
<1>2. PlanInv'
  <2>1. /\ \A u \in Steps : step'[u].at # "idle" => step[u].at # "idle"
        /\ \A u \in Steps : step'[u].at \in {"limit", "expire", "row", "correct"} =>
             u \in McpSteps \/ step[u].at \in {"limit", "expire", "row", "correct"}
    BY <1>0 DEF PlanChange
  <2>2. Landed'
    BY <1>0, <2>1 DEF PlanInv, Landed, PlanChange
  <2> QED
    BY <1>0, <2>1, <2>2 DEF PlanInv, PlanChange
<1>3. AgentInv'
  BY <1>0 DEF AgentInv
<1>4. BlameInv'
  <2>1. \A c \in Calls, r \in Nat : <<c, r>> \in blamed' => <<c, r>> \in blamed \/ r = 0
    BY StepGuards
  <2>2. ASSUME NEW u \in Steps, <<u, 0>> \in blamed'
        PROVE  step'[u].at \notin Unrecorded \cup {"idle"}
    <3>1. CASE u = s
      BY <1>0, <2>2, <3>1, StepGuards DEF BlameInv, PlanChange, Unrecorded
    <3>2. CASE u # s
      BY <1>0, <2>2, <3>2, StepGuards DEF BlameInv, PlanChange
    <3> QED
      BY <3>1, <3>2
  <2>3. ASSUME NEW c \in Calls, NEW r \in Nat, <<c, r>> \in blamed'
        PROVE  r <= agent.round /\ (r = agent.round => call[c].at \notin Unrecorded)
    <3>1. agent \in [stage : {"think", "tools", "ended"}, round : 0 .. MaxRounds]
      BY Typed
    <3>2. CASE <<c, r>> \in blamed
      BY <3>2 DEF BlameInv
    <3>3. CASE r = 0
      <4>1. agent.round = 0 => call[c].at \notin Unrecorded
        BY <3>1 DEF AgentInv, Unrecorded
      <4> QED
        BY <3>1, <3>3, <4>1, AgentAssumption
    <3> QED
      BY <2>1, <2>3, <3>2, <3>3
  <2> QED
    BY <1>0, <2>2, <2>3 DEF BlameInv
<1>5. CircuitInv' /\ WindowHasEnd'
  BY StepGuards, StepWindow
<1> QED
  BY <1>1, <1>2, <1>3, <1>4, <1>5
\* The turn's own steps preserve the invariant.
LEMMA PlanInvariant ==
  ASSUME IndInv, PlanWork, UNCHANGED agentVars
  PROVE  IndInv'
<1> USE DEF IndInv
<1>0. /\ UNCHANGED <<agent, call>>
      /\ breaker \in Breakers /\ step \in StepType /\ result \in [Steps -> {"none", "ok", "error"}]
  BY Typed DEF agentVars
<1>1. ASSUME UNCHANGED <<breaker, window, faults, blamed, endless>>,
             UNCHANGED <<started, step, result, literal>>, deps' \in RawPlans,
             stage' \in {"running", "synthesis", "answered", "single"},
             started = {} \/ deps' = deps
      PROVE  IndInv'
  <2>1. TypeOK'
    BY <1>0, <1>1, Typed, TypeNext
  <2>2. PlanInv'
    BY <1>1 DEF PlanInv, Landed
  <2>3. AgentInv' /\ BlameInv'
    BY <1>0, <1>1 DEF AgentInv, BlameInv
  <2>4. CircuitInv'
    BY <1>0, <1>1, CircuitFrame DEF Again
  <2>5. WindowHasEnd'
    BY <1>0, <1>1 DEF WindowHasEnd, Expiring
  <2> QED
    BY <2>1, <2>2, <2>3, <2>4, <2>5
<1>2. CASE Plan
  <2>1. ChatPlan \in RawPlans /\ deps \in RawPlans
    BY Typed DEF ChatPlan, RawPlans
  <2>2. started = {}
    BY <1>2 DEF Plan, PlanInv
  <2> QED
    BY <1>1, <1>2, <2>1, <2>2 DEF Plan, guardVars
<1>3. CASE AllLevels \/ Synthesize
  <2>1. deps \in RawPlans
    BY Typed
  <2> QED
    BY <1>1, <1>3, <2>1 DEF AllLevels, Synthesize, guardVars
<1>4. CASE StartLevel
  <2>1. /\ UNCHANGED <<deps, stage, window, faults, blamed, endless>>
        /\ stage = "running" /\ LevelSettled
    BY <1>4 DEF StartLevel
  <2>2. breaker' \in {breaker, Metrics(breaker)}
    BY <1>4 DEF StartLevel
  <2>3. PICK S \in SUBSET Steps :
           /\ S \cap started = {} /\ started' = started \cup S
           /\ \A s \in S : \A d \in deps[s] : d \in started
           /\ \A s \in Steps \ S : step'[s] = step[s]
           /\ \A s \in S : step'[s].at \in {"done", "limit", "call"}
           /\ \A s \in S : step'[s].at = "limit" => s \in McpSteps
           /\ \A s \in Steps : result[s] # "none" => result'[s] # "none"
           /\ step' \in StepType /\ result' \in [Steps -> {"none", "ok", "error"}]
           /\ literal' = literal \cup Unresolved(S)
    BY <1>4, LevelFacts
  <2>4. breaker' \in Breakers /\ (breaker.state # "open" => breaker' = breaker)
    BY <1>0, <2>2, BreakerType
  <2>5. started \subseteq Steps /\ Unresolved(S) \subseteq S /\ \A s \in S : step[s].at = "idle"
    BY <2>3, Typed DEF Unresolved, PlanInv
  <2>6. TypeOK'
    <3>1. started' \subseteq Steps /\ literal' \subseteq Steps
      BY <2>3, <2>5, Typed
    <3> QED
      BY <1>0, <2>1, <2>3, <2>4, <3>1, Typed, TypeNext
  <2>7. PlanInv'
    <3>1. Landed'
      <4>1. \A s \in started : result[s] # "none"
        BY <2>1 DEF LevelSettled
      <4>2. ASSUME NEW s \in Steps, step'[s].at # "idle", NEW d \in deps[s]
            PROVE  d \in Steps /\ result'[d] # "none"
        <5>1. d \in Steps /\ result[d] # "none"
          <6>1. CASE s \in S
            BY <2>3, <2>5, <4>1, <4>2, <6>1
          <6>2. CASE s \notin S
            BY <2>3, <4>2, <6>2 DEF PlanInv, Landed
          <6> QED
            BY <6>1, <6>2
        <5> QED
          BY <2>3, <5>1
      <4> QED
        BY <2>1, <4>2 DEF Landed
    <3> QED
      BY <2>1, <2>3, <3>1 DEF PlanInv
  <2>8. AgentInv'
    BY <1>0 DEF AgentInv
  <2>9. BlameInv'
    <3>1. \A s \in S : <<s, 0>> \notin blamed
      BY <2>5 DEF BlameInv
    <3>2. ASSUME NEW s \in Steps, <<s, 0>> \in blamed'
          PROVE  step'[s].at \notin Unrecorded \cup {"idle"}
      BY <2>1, <2>3, <3>1, <3>2 DEF BlameInv
    <3> QED
      BY <1>0, <2>1, <3>2 DEF BlameInv
  <2>10. CircuitInv'
    BY <1>0, <2>1, <2>4, CircuitFrame DEF Again
  <2>11. WindowHasEnd'
    <3>1. \A s \in Steps : step[s].at = "expire" => step'[s].at = "expire"
      BY <2>3, <2>5
    <3> QED
      BY <1>0, <2>1, <3>1 DEF WindowHasEnd, Expiring
  <2> QED
    BY <2>6, <2>7, <2>8, <2>9, <2>10, <2>11
<1> QED
  BY <1>2, <1>3, <1>4 DEF PlanWork
-----------------------------------------------------------------------------
(***************************************************************************)
(* The agent loop.                                                         *)
(***************************************************************************)
\* What an outcome of a call leaves of the other parts.
AgentFrame == UNCHANGED <<deps, stage, started, step, result, literal>>

\* A move of one call.
LEMMA CallMoved ==
  ASSUME TypeOK, NEW c \in Calls,
         NEW place \in {"limit", "expire", "call", "row", "done"},
         \/ Step(c, place)
         \/ \E ok \in BOOLEAN : call' = [call EXCEPT ![c] = [at |-> place, ok |-> ok]]
  PROVE  /\ call' \in CallType /\ call'[c].at = place
         /\ \A e \in Calls \ {c} : call'[e] = call[e]
<1>0. call \in CallType
  BY Typed
<1>1. CASE Step(c, place)
  BY <1>0, <1>1 DEF Step, CallType
<1>2. CASE \E ok \in BOOLEAN : call' = [call EXCEPT ![c] = [at |-> place, ok |-> ok]]
  <2>1. PICK ok \in BOOLEAN : call' = [call EXCEPT ![c] = [at |-> place, ok |-> ok]]
    BY <1>2
  <2>2. [at |-> place, ok |-> ok] \in [at : {"idle", "limit", "expire", "call", "row", "done"}, ok : BOOLEAN]
        /\ [at |-> place, ok |-> ok].at = place
    OBVIOUS
  <2> DEFINE r == [at |-> place, ok |-> ok]
  <2>3. call' = [call EXCEPT ![c] = r] /\ r.at = place
        /\ r \in [at : {"idle", "limit", "expire", "call", "row", "done"}, ok : BOOLEAN]
    BY <2>1, <2>2
  <2> HIDE DEF r
  <2> QED
    BY <1>0, <2>3 DEF CallType
<1> QED
  BY <1>1, <1>2

\* The invariant after a step of one call of the round.
LEMMA CallFrame ==
  ASSUME IndInv, NEW c \in Calls, AgentFrame, agent' = agent,
         call[c].at # "idle", call' \in CallType, call'[c].at # "idle",
         \A e \in Calls \ {c} : call'[e] = call[e],
         breaker' \in Breakers, CircuitInv', window' \in Windows, faults' \in 0 .. MaxFaults,
         endless' \in BOOLEAN, WindowHasEnd',
         blamed' \subseteq blamed \cup {Id(c)},
         Id(c) \in blamed' => Id(c) \in blamed \/ call'[c].at \notin Unrecorded,
         call'[c].at \in Unrecorded => call[c].at \in Unrecorded
  PROVE  IndInv'
<1> USE DEF IndInv
<1>0. /\ agent \in [stage : {"think", "tools", "ended"}, round : 0 .. MaxRounds]
      /\ agent.stage = "tools" /\ agent.round > 0 /\ agent.round \in 1 .. MaxRounds
  <2>1. agent.stage = "tools" /\ agent.round > 0
    BY DEF AgentInv
  <2>2. agent \in [stage : {"think", "tools", "ended"}, round : 0 .. MaxRounds]
    BY Typed
  <2> QED
    BY <2>1, <2>2, AgentAssumption
<1>1. TypeOK'
  <2>1. Id(c) \in Ids
    BY <1>0 DEF Id, Ids
  <2>2. blamed' \subseteq Ids
    BY <2>1, Typed
  <2> QED
    BY <2>2, Typed, TypeNext DEF AgentFrame
<1>2. PlanInv'
  BY DEF PlanInv, Landed, AgentFrame
<1>3. AgentInv'
  BY <1>0 DEF AgentInv
<1>4. BlameInv'
  <2>1. \A s \in Steps : <<s, 0>> \in blamed' => <<s, 0>> \in blamed
    BY <1>0 DEF Id
  <2>2. ASSUME NEW e \in Calls, NEW r \in Nat, <<e, r>> \in blamed'
        PROVE  r <= agent.round /\ (r = agent.round => call'[e].at \notin Unrecorded)
    <3>1. CASE <<e, r>> = Id(c)
      <4>1. e = c /\ r = agent.round
        BY <3>1 DEF Id
      <4>2. call'[c].at \notin Unrecorded
        BY <2>2, <3>1, <4>1 DEF BlameInv
      <4> QED
        BY <1>0, <4>1, <4>2
    <3>2. CASE <<e, r>> # Id(c)
      <4>1. r <= agent.round /\ (r = agent.round => call[e].at \notin Unrecorded)
        BY <2>2, <3>2 DEF BlameInv
      <4>2. e = c => r # agent.round
        BY <3>2 DEF Id
      <4> QED
        BY <4>1, <4>2
    <3> QED
      BY <3>1, <3>2
  <2> QED
    BY <2>1, <2>2 DEF BlameInv, AgentFrame
<1> QED
  BY <1>1, <1>2, <1>3, <1>4

\* Only a call on its way back counts again.
LEMMA AgainFrame ==
  ASSUME NEW c \in Calls, agent' = agent, call'[c].at # "row",
         \A e \in Calls \ {c} : call'[e] = call[e]
  PROVE  \A x : (Again(x)' => Again(x)) /\ (x = Id(c) => ~Again(x)')
<1>1. ASSUME NEW x, Again(x)' PROVE Again(x)
  <2>1. PICK e \in Calls : x = <<e, agent'.round>> /\ call'[e].at = "row"
    BY <1>1 DEF Again
  <2> QED
    BY <2>1 DEF Again
<1>2. ASSUME NEW x, x = Id(c), Again(x)' PROVE FALSE
  <2>1. PICK e \in Calls : x = <<e, agent'.round>> /\ call'[e].at = "row"
    BY <1>2 DEF Again
  <2> QED
    BY <1>2, <2>1 DEF Id
<1> QED
  BY <1>1, <1>2

\* A window nobody counts in.
LEMMA WindowFrame ==
  ASSUME TypeOK, WindowHasEnd, NEW c \in Calls, AgentFrame, UNCHANGED <<window, endless>>,
         call[c].at # "expire", \A e \in Calls \ {c} : call'[e] = call[e]
  PROVE  WindowHasEnd'
BY DEF WindowHasEnd, Expiring, AgentFrame

\* A counted call.
LEMMA CountInvariant ==
  ASSUME IndInv, NEW c \in Calls, CountCall(c), UNCHANGED planVars
  PROVE  IndInv'
<1> USE DEF IndInv
<1>0. /\ breaker \in Breakers /\ window \in Windows /\ faults \in 0 .. MaxFaults
      /\ endless \in BOOLEAN /\ AgentFrame
  BY Typed DEF planVars, AgentFrame
<1>1. call[c].at = "limit" /\ agent' = agent /\ Id(c) \notin blamed
  <2>1. call[c].at = "limit" /\ agent' = agent
    BY DEF CountCall
  <2>2. agent.round \in Nat
    BY Typed
  <2> QED
    BY <2>1, <2>2 DEF Id, BlameInv, Unrecorded
<1> DEFINE next == AfterCount(Incremented.count)
<1>2. \/ /\ window' = Incremented /\ next = "refused" /\ Step(c, "done") /\ RecordFailure(Id(c))
         /\ UNCHANGED <<faults, endless>>
      \/ /\ window' = Incremented /\ next # "refused" /\ Step(c, next) /\ UNCHANGED <<breaker, blamed>>
         /\ UNCHANGED <<faults, endless>>
      \/ Step(c, "call") /\ Fault /\ UNCHANGED <<window, endless, breaker, blamed>>
      \/ CountedUnheard /\ (Step(c, "limit") \/ Step(c, "call")) /\ UNCHANGED <<breaker, blamed>>
  BY DEF CountCall
<1>3. faults' \in 0 .. MaxFaults /\ window' \in Windows /\ endless' \in BOOLEAN
  BY <1>0, <1>2, GuardTypes
<1>4. (next # "refused" => next \in {"expire", "call"}) /\ (Incremented.count = 1 => next = "expire")
  BY Counted
<1> HIDE DEF next
<1>5. CASE Step(c, "call") /\ UNCHANGED <<window, endless, breaker, blamed>>
  <2>1. call' \in CallType /\ call'[c].at = "call" /\ \A e \in Calls \ {c} : call'[e] = call[e]
    BY <1>5, CallMoved
  <2>2. CircuitInv'
    BY <1>1, <1>5, <2>1, AgainFrame, CircuitFrame
  <2>3. WindowHasEnd'
    BY <1>0, <1>1, <1>5, <2>1, WindowFrame
  <2> QED
    BY <1>0, <1>1, <1>3, <1>5, <2>1, <2>2, <2>3, CallFrame DEF Unrecorded
<1>6. CASE window' = Incremented /\ (UNCHANGED endless \/ CountedUnheard)
  <2>0. endless => endless'
    BY <1>6, GuardTypes
  <2>1. ASSUME ~(window.count > 0) PROVE Incremented.count = 1
    <3>1. window.count = 0 /\ window.count <= Limit
      BY <1>0, <2>1, GuardAssumption DEF Windows
    <3> QED
      BY <1>0, <3>1 DEF Windows, Incremented
  <2>2. Incremented.ttl = window.ttl
    BY <1>0 DEF Windows, Incremented
  <2>3. ASSUME \A e \in Calls \ {c} : call'[e] = call[e],
               window.count > 0 \/ call'[c].at = "expire" \/ endless'
        PROVE  WindowHasEnd'
    <3>1. CASE window.count > 0
      BY <1>0, <1>1, <1>6, <2>0, <2>2, <2>3, <3>1 DEF WindowHasEnd, Expiring, AgentFrame
    <3>2. CASE call'[c].at = "expire" \/ endless'
      BY <3>2 DEF WindowHasEnd, Expiring
    <3> QED
      BY <2>3, <3>1, <3>2
  <2>4. CASE next = "refused" /\ Step(c, "done") /\ RecordFailure(Id(c))
    <3>1. call' \in CallType /\ call'[c].at = "done" /\ \A e \in Calls \ {c} : call'[e] = call[e]
      BY <2>4, CallMoved
    <3>2. window.count > 0
      BY <1>4, <2>1, <2>4
    <3>3. CircuitInv' /\ breaker' \in Breakers
      BY <1>0, <1>1, <2>4, CircuitFailure
    <3>4. blamed' \subseteq blamed \cup {Id(c)}
      BY <2>4, Blamed DEF RecordFailure
    <3> QED
      BY <1>0, <1>1, <1>3, <2>3, <3>1, <3>2, <3>3, <3>4, CallFrame DEF Unrecorded
  <2>5. CASE next # "refused" /\ Step(c, next) /\ UNCHANGED <<breaker, blamed>>
    <3>1. call' \in CallType /\ call'[c].at = next /\ \A e \in Calls \ {c} : call'[e] = call[e]
      BY <1>4, <2>5, CallMoved
    <3>2. window.count > 0 \/ call'[c].at = "expire"
      BY <1>4, <2>1, <3>1
    <3>3. CircuitInv'
      BY <1>1, <1>4, <2>5, <3>1, AgainFrame, CircuitFrame
    <3> QED
      BY <1>0, <1>1, <1>3, <1>4, <2>3, <2>5, <3>1, <3>2, <3>3, CallFrame DEF Unrecorded
  <2>6. CASE CountedUnheard /\ (Step(c, "limit") \/ Step(c, "call")) /\ UNCHANGED <<breaker, blamed>>
    <3>1. PICK place \in {"limit", "call"} : Step(c, place)
      BY <2>6
    <3>2. call' \in CallType /\ call'[c].at = place /\ \A e \in Calls \ {c} : call'[e] = call[e]
      BY <3>1, CallMoved
    <3>3. window.count > 0 \/ endless'
      BY <2>1, <2>6, GuardTypes
    <3>4. CircuitInv'
      BY <1>1, <2>6, <3>2, AgainFrame, CircuitFrame
    <3> QED
      BY <1>0, <1>1, <1>3, <2>3, <2>6, <3>2, <3>3, <3>4, CallFrame DEF Unrecorded
  <2> QED
    BY <1>2, <1>6, <2>4, <2>5, <2>6, <1>5
<1>7. CountedUnheard => window' = Incremented
  BY DEF CountedUnheard
<1> QED
  BY <1>2, <1>5, <1>6, <1>7
\* An EXPIRE.
LEMMA ExpireInvariant ==
  ASSUME IndInv, NEW c \in Calls, ExpireCall(c), UNCHANGED planVars
  PROVE  IndInv'
<1> USE DEF IndInv
<1>0. /\ breaker \in Breakers /\ window \in Windows /\ faults \in 0 .. MaxFaults
      /\ endless \in BOOLEAN /\ AgentFrame
  BY Typed DEF planVars, AgentFrame
<1>1. /\ call[c].at = "expire" /\ UNCHANGED <<agent, breaker, blamed>> /\ Step(c, "call")
      /\ \/ window' = [window EXCEPT !.ttl = TRUE] /\ UNCHANGED <<faults, endless>>
         \/ Fault /\ endless' = TRUE /\ UNCHANGED window
  BY DEF ExpireCall
<1>2. call' \in CallType /\ call'[c].at = "call" /\ \A e \in Calls \ {c} : call'[e] = call[e]
  BY <1>1, CallMoved
<1>3. /\ faults' \in 0 .. MaxFaults /\ window' \in Windows /\ endless' \in BOOLEAN
  BY <1>0, <1>1, GuardTypes
<1>4. CircuitInv'
  BY <1>1, <1>2, AgainFrame, CircuitFrame
<1>5. WindowHasEnd'
  BY <1>0, <1>1 DEF WindowHasEnd, Expiring, Windows
<1> QED
  BY <1>0, <1>1, <1>2, <1>3, <1>4, <1>5, CallFrame DEF Unrecorded

\* An answer, a throw, and what the loop records again.
LEMMA AnswerInvariant ==
  ASSUME IndInv, NEW c \in Calls, Answer(c) \/ AnswerThrows(c) \/ RecordAgain(c), UNCHANGED planVars
  PROVE  IndInv'
<1> USE DEF IndInv
<1>0. /\ breaker \in Breakers /\ window \in Windows /\ faults \in 0 .. MaxFaults
      /\ endless \in BOOLEAN /\ AgentFrame /\ call \in CallType /\ agent.round \in Nat
  BY Typed DEF planVars, AgentFrame
<1>1. UNCHANGED <<agent, window, faults, endless>> /\ call[c].at \in {"call", "row"}
  BY DEF Answer, AnswerThrows, RecordAgain
<1>2. ASSUME \A e \in Calls \ {c} : call'[e] = call[e], call' \in CallType,
             call'[c].at \in {"row", "done"},
             CircuitInv', breaker' \in Breakers, blamed' \subseteq blamed \cup {Id(c)}
      PROVE  IndInv'
  <2>1. WindowHasEnd'
    BY <1>0, <1>1, <1>2, WindowFrame
  <2> QED
    BY <1>0, <1>1, <1>2, <2>1, CallFrame DEF Unrecorded
<1>3. ASSUME RecordSuccess
      PROVE  CircuitInv' /\ breaker' \in Breakers /\ blamed' \subseteq blamed \cup {Id(c)}
  BY <1>3, CircuitSuccess
<1>4. CASE Answer(c)
  <2>1. /\ call[c].at = "call"
        /\ \E ok \in BOOLEAN : call' = [call EXCEPT ![c] = [at |-> "row", ok |-> ok]]
        /\ RecordSuccess \/ RecordFailure(Id(c))
    BY <1>4 DEF Answer
  <2>2. call' \in CallType /\ call'[c].at = "row" /\ \A e \in Calls \ {c} : call'[e] = call[e]
    BY <2>1, CallMoved
  <2>3. CASE RecordFailure(Id(c))
    <3>1. Id(c) \notin blamed
      BY <1>0, <2>1 DEF Id, BlameInv, Unrecorded
    <3>2. CircuitInv' /\ breaker' \in Breakers
      BY <1>0, <2>3, <3>1, CircuitFailure
    <3>3. blamed' \subseteq blamed \cup {Id(c)}
      BY <2>3, Blamed DEF RecordFailure
    <3> QED
      BY <1>2, <2>2, <3>2, <3>3
  <2> QED
    BY <1>2, <1>3, <2>1, <2>2, <2>3
<1>5. CASE AnswerThrows(c)
  <2>1. call[c].at = "call" /\ Step(c, "done") /\ RecordTwice(Id(c))
    BY <1>5 DEF AnswerThrows
  <2>2. call' \in CallType /\ call'[c].at = "done" /\ \A e \in Calls \ {c} : call'[e] = call[e]
    BY <2>1, CallMoved
  <2> PICK x : x = Id(c)
    OBVIOUS
  <2>3. x \notin blamed /\ ~Again(x)'
    BY <1>0, <1>1, <2>1, <2>2, AgainFrame DEF Id, BlameInv, Unrecorded
  <2>4. CircuitInv' /\ breaker' \in Breakers
    BY <1>0, <2>1, <2>3, CircuitTwice
  <2>5. blamed' \subseteq blamed \cup {Id(c)}
    BY <2>1, Blamed DEF RecordTwice
  <2> QED
    BY <1>2, <2>2, <2>4, <2>5
<1>6. CASE RecordAgain(c)
  <2>1. /\ call[c].at = "row" /\ call' = [call EXCEPT ![c] = [at |-> "done", ok |-> FALSE]]
        /\ RecordSuccess \/ RecordFailure(Id(c))
    BY <1>6 DEF RecordAgain
  <2>2. call' \in CallType /\ call'[c].at = "done" /\ \A e \in Calls \ {c} : call'[e] = call[e]
    BY <2>1, CallMoved
  <2>3. CASE RecordFailure(Id(c))
    <3> PICK x : x = Id(c)
      OBVIOUS
    <3>1. Again(x) /\ ~Again(x)'
      BY <1>1, <2>1, <2>2, AgainFrame DEF Id, Again
    <3>2. blamed = {x} => breaker.fails <= 1
      BY <3>1 DEF CircuitInv
    <3>3. CircuitInv' /\ breaker' \in Breakers
      BY <1>0, <2>3, <3>1, <3>2, CircuitFailure
    <3>4. blamed' \subseteq blamed \cup {Id(c)}
      BY <2>3, Blamed DEF RecordFailure
    <3> QED
      BY <1>2, <2>2, <3>3, <3>4
  <2> QED
    BY <1>2, <1>3, <2>1, <2>2, <2>3
<1> QED
  BY <1>4, <1>5, <1>6

\* The loop's own steps: all its calls are idle before or after them.
LEMMA LoopInvariant ==
  ASSUME IndInv, CallTools \/ Conclude \/ RoundEnds, UNCHANGED planVars
  PROVE  IndInv'
<1> USE DEF IndInv
<1>0. /\ breaker \in Breakers /\ AgentFrame /\ call \in CallType
      /\ agent \in [stage : {"think", "tools", "ended"}, round : 0 .. MaxRounds]
  BY Typed DEF planVars, AgentFrame
<1>1. ASSUME UNCHANGED <<window, faults, blamed, endless>>, breaker' \in Breakers,
             breaker.state # "open" => breaker' = breaker,
             agent' \in [stage : {"think", "tools", "ended"}, round : 0 .. MaxRounds],
             call' \in CallType, \A c \in Calls : call'[c].at # "row",
             \A c \in Calls : call[c].at # "expire",
             AgentInv', agent'.round >= agent.round,
             agent'.round > agent.round \/ \A c \in Calls : call'[c].at \notin Unrecorded
      PROVE  IndInv'
  <2>1. TypeOK'
    BY <1>0, <1>1, Typed, TypeNext DEF AgentFrame
  <2>2. PlanInv'
    BY <1>0 DEF PlanInv, Landed, AgentFrame
  <2>3. BlameInv'
    <3>1. \A s \in Steps : <<s, 0>> \in blamed' => step'[s].at \notin Unrecorded \cup {"idle"}
      BY <1>0, <1>1 DEF BlameInv, AgentFrame
    <3>2. ASSUME NEW c \in Calls, NEW r \in Nat, <<c, r>> \in blamed'
          PROVE  r <= agent'.round /\ (r = agent'.round => call'[c].at \notin Unrecorded)
      <4>1. r <= agent.round
        BY <1>1, <3>2 DEF BlameInv
      <4> QED
        BY <1>0, <1>1, <4>1, AgentAssumption
    <3> QED
      BY <3>1, <3>2 DEF BlameInv
  <2>4. CircuitInv'
    BY <1>1, CircuitFrame DEF Again
  <2>5. WindowHasEnd'
    BY <1>0, <1>1 DEF WindowHasEnd, Expiring, AgentFrame
  <2> QED
    BY <1>1, <2>1, <2>2, <2>3, <2>4, <2>5
<1>2. CASE CallTools
  <2>1. /\ agent.stage = "think" /\ agent.round < MaxRounds
        /\ agent' = [stage |-> "tools", round |-> agent.round + 1]
        /\ breaker' = Metrics(breaker) /\ UNCHANGED <<window, faults, blamed, endless>>
    BY <1>2 DEF CallTools, AnotherRound
  <2>2. PICK C \in (SUBSET Calls) \ {{}} :
           call' = [c \in Calls |-> [at |-> IF c \notin C THEN "idle"
                                            ELSE IF Allowed(breaker) THEN "limit" ELSE "done",
                                     ok |-> FALSE]]
    BY <1>2 DEF CallTools
  <2> DEFINE first(c) == IF c \notin C THEN "idle" ELSE IF Allowed(breaker) THEN "limit" ELSE "done"
  <2>3. \A c : first(c) \in {"idle", "limit", "done"}
    OBVIOUS
  <2>4. call' = [c \in Calls |-> [at |-> first(c), ok |-> FALSE]]
    BY <2>2
  <2> HIDE DEF first
  <2>5. call' \in CallType /\ \A c \in Calls : call'[c].at \in {"idle", "limit", "done"}
    BY <2>3, <2>4 DEF CallType
  <2>6. \A c \in Calls : call[c].at = "idle"
    BY <2>1 DEF AgentInv
  <2>7. /\ agent'.stage = "tools" /\ agent'.round = agent.round + 1 /\ agent'.round > 0
        /\ agent' \in [stage : {"think", "tools", "ended"}, round : 0 .. MaxRounds]
    BY <1>0, <2>1, AgentAssumption
  <2>8. breaker' \in Breakers /\ (breaker.state # "open" => breaker' = breaker)
    BY <1>0, <2>1, BreakerType
  <2>9. AgentInv' /\ agent'.round > agent.round
    BY <1>0, <2>7 DEF AgentInv
  <2>10. agent'.round >= agent.round
    BY <1>0, <2>7
  <2>11. \A c \in Calls : call'[c].at # "row" /\ call[c].at # "expire"
    BY <2>5, <2>6
  <2> QED
    BY <1>1, <2>1, <2>5, <2>7, <2>8, <2>9, <2>10, <2>11
<1>3. CASE Conclude \/ RoundEnds
  <2>1. /\ UNCHANGED <<breaker, window, faults, blamed, endless>>
        /\ \E s \in {"think", "ended"} : agent' = [agent EXCEPT !.stage = s]
    BY <1>3 DEF Conclude, RoundEnds, guardVars
  <2>2. /\ agent'.stage \in {"think", "ended"} /\ agent'.round = agent.round
        /\ agent' \in [stage : {"think", "tools", "ended"}, round : 0 .. MaxRounds]
    BY <1>0, <2>1
  <2>3. /\ \A c \in Calls : call[c].at \in {"idle", "done"} /\ call'[c].at = "idle"
        /\ call' \in CallType
    <3>1. CASE Conclude
      BY <1>0, <3>1 DEF Conclude, AgentInv
    <3>2. CASE RoundEnds
      <4>1. call' = [c \in Calls |-> [at |-> "idle", ok |-> FALSE]]
        BY <3>2 DEF RoundEnds
      <4> QED
        BY <3>2, <4>1 DEF RoundEnds, CallType
    <3> QED
      BY <1>3, <3>1, <3>2
  <2>4. AgentInv'
    BY <2>2, <2>3 DEF AgentInv
  <2>5. /\ agent'.round >= agent.round
        /\ \A c \in Calls : /\ call'[c].at # "row" /\ call[c].at # "expire"
                            /\ call'[c].at \notin Unrecorded
    BY <1>0, <2>2, <2>3 DEF Unrecorded
  <2> QED
    BY <1>0, <1>1, <2>1, <2>2, <2>3, <2>4, <2>5
<1> QED
  BY <1>2, <1>3

\* The clock: cooldowns and windows end.
LEMMA ClockInvariant ==
  ASSUME IndInv, Cooldown \/ WindowEnds \/ UNCHANGED guardVars, UNCHANGED <<planVars, agentVars>>
  PROVE  IndInv'
<1> USE DEF IndInv
<1>0. /\ UNCHANGED <<agent, call>> /\ AgentFrame /\ breaker \in Breakers /\ window \in Windows
  BY Typed DEF planVars, agentVars, AgentFrame
<1>1. UNCHANGED <<faults, blamed, endless>>
  BY DEF Cooldown, WindowEnds, guardVars
<1>2. breaker' \in Breakers /\ (breaker.state # "open" => breaker' = breaker)
  BY <1>0 DEF Cooldown, WindowEnds, guardVars, Breakers
<1>3. window' = window \/ window' = [count |-> 0, ttl |-> FALSE]
  BY DEF Cooldown, WindowEnds, guardVars
<1>4. window' \in Windows
  BY <1>0, <1>3, EndedWindow
<1>5. TypeOK'
  BY <1>0, <1>1, <1>2, <1>4, Typed, TypeNext DEF AgentFrame
<1>6. PlanInv' /\ AgentInv' /\ BlameInv'
  BY <1>0, <1>1 DEF PlanInv, Landed, AgentInv, BlameInv, AgentFrame
<1>7. CircuitInv'
  BY <1>0, <1>1, <1>2, CircuitFrame DEF Again
<1>8. WindowHasEnd'
  BY <1>0, <1>1, <1>3 DEF WindowHasEnd, Expiring, AgentFrame
<1> QED
  BY <1>5, <1>6, <1>7, <1>8

\* A crash: what is left is the window and what the plan was told.
LEMMA CrashInvariant ==
  ASSUME IndInv, Crash
  PROVE  IndInv'
<1> USE DEF IndInv
<1>0. /\ breaker \in Breakers /\ window \in Windows /\ endless \in BOOLEAN
      /\ step \in StepType /\ AgentAssumption
  BY Typed, AgentAssumption
<1>1. /\ UNCHANGED <<window, deps, started, result, literal>>
      /\ stage' \in {"answered", "single", "lost"}
      /\ faults' \in 0 .. MaxFaults /\ endless' = (endless \/ Expiring)
      /\ breaker' = AfterSuccess(breaker) /\ blamed' = {}
      /\ agent' = [stage |-> "think", round |-> 0]
      /\ call' = [c \in Calls |-> [at |-> "idle", ok |-> FALSE]]
  BY GuardTypes DEF Crash, LosePlan, ForgetBreaker, RestartAgent
<1>2. step' \in StepType /\ \A s \in Steps : step'[s] = IF step[s].at = "idle" THEN step[s]
                                                      ELSE [at |-> "done", ok |-> FALSE]
  <2>1. step' = [s \in Steps |-> IF step[s].at = "idle" THEN step[s] ELSE [at |-> "done", ok |-> FALSE]]
    BY DEF Crash, LosePlan
  <2>2. [at |-> "done", ok |-> FALSE] \in [at : Places, ok : BOOLEAN]
    BY DEF Places
  <2> QED
    BY <1>0, <2>1, <2>2 DEF StepType
<1>3. \A s \in Steps : step'[s].at \in {"idle", "done"} /\ (step'[s].at # "idle" => step[s].at # "idle")
  BY <1>2
<1>4. breaker' \in Breakers /\ breaker'.state = "closed" /\ breaker'.fails = 0
  BY <1>1, BreakerType DEF AfterSuccess
<1>5. TypeOK'
  <2>1. agent' \in [stage : {"think", "tools", "ended"}, round : 0 .. MaxRounds] /\ call' \in CallType
    BY <1>1, AgentAssumption DEF CallType
  <2>2. endless' \in BOOLEAN /\ blamed' \subseteq Ids
    BY <1>0, <1>1 DEF Expiring
  <2> QED
    BY <1>0, <1>1, <1>2, <1>4, <2>1, <2>2, Typed, TypeNext
<1>6. PlanInv'
  <2>1. Landed'
    BY <1>1, <1>3 DEF PlanInv, Landed
  <2> QED
    BY <1>1, <1>3, <2>1 DEF PlanInv
<1>7. AgentInv' /\ BlameInv'
  BY <1>1 DEF AgentInv, BlameInv
<1>8. CircuitInv'
  BY <1>1, <1>4 DEF CircuitInv
<1>9. WindowHasEnd'
  <2>1. window.count > 0 /\ ~window.ttl => endless \/ Expiring
    BY DEF WindowHasEnd
  <2> QED
    BY <1>1, <2>1 DEF WindowHasEnd
<1> QED
  BY <1>5, <1>6, <1>7, <1>8, <1>9

-----------------------------------------------------------------------------
LEMMA IndInit == Init => IndInv
<1> SUFFICES ASSUME Init PROVE IndInv
  OBVIOUS
<1> USE DEF Init, GuardInit, PlanInit, AgentInit
<1>1. TypeOK
  <2>1. /\ breaker \in Breakers /\ window \in Windows /\ faults \in 0 .. MaxFaults
        /\ blamed \subseteq Ids /\ endless \in BOOLEAN
    <3>1. breaker \in Breakers /\ faults \in 0 .. MaxFaults
      BY GuardAssumption DEF Breakers
    <3> QED
      BY <3>1, EndedWindow
  <2>2. step \in StepType /\ result \in [Steps -> {"none", "ok", "error"}]
    BY DEF StepType, Places
  <2>3. /\ agent \in [stage : {"think", "tools", "ended"}, round : 0 .. MaxRounds]
        /\ call \in CallType
    BY AgentAssumption DEF CallType
  <2> QED
    BY <2>1, <2>2, <2>3, Typed
<1>2. PlanInv /\ AgentInv /\ BlameInv
  BY DEF PlanInv, Landed, AgentInv, BlameInv
<1>3. CircuitInv
  BY DEF CircuitInv
<1>4. WindowHasEnd
  BY DEF WindowHasEnd, Expiring
<1> QED
  BY <1>1, <1>2, <1>3, <1>4 DEF IndInv

LEMMA IndStep == IndInv /\ [Next]_vars => IndInv'
<1> SUFFICES ASSUME IndInv, [Next]_vars PROVE IndInv'
  OBVIOUS
<1>1. CASE PlanNext /\ UNCHANGED agentVars
  BY <1>1, PlanInvariant, StepInvariant DEF PlanNext
<1>2. CASE AgentNext /\ UNCHANGED planVars
  BY <1>2, CountInvariant, ExpireInvariant, AnswerInvariant, LoopInvariant DEF AgentNext, CallWork
<1>3. CASE (Cooldown \/ WindowEnds) /\ UNCHANGED <<planVars, agentVars>>
  BY <1>3, ClockInvariant
<1>4. CASE UNCHANGED vars
  BY <1>4, ClockInvariant DEF vars
<1>5. CASE Crash
  BY <1>5, CrashInvariant
<1> QED
  BY <1>1, <1>2, <1>3, <1>4, <1>5 DEF Next

(***************************************************************************)
(* The inductive invariant.                                                *)
(***************************************************************************)
THEOREM Inductive == Spec => []IndInv
BY IndInit, IndStep, PTL DEF Spec

(***************************************************************************)
(* The guards, the plan and the loop are well typed: the failures of a     *)
(* circuit, the count of a window and the rounds of a loop stay in bounds. *)
(***************************************************************************)
THEOREM TurnTypes == Spec => []TypeOK
BY Inductive, PTL DEF IndInv

(***************************************************************************)
(* An accepted plan is sorted, every step once and after its dependencies, *)
(* and exactly the plans with no unknown dependency and no cycle are       *)
(* accepted: what PlanModelProofs says of Kahn's algorithm, for the plan   *)
(* the model returned.                                                     *)
(***************************************************************************)
THEOREM PlansAreSorted == Spec => []SortedPlan
<1>1. ASSUME IndInv PROVE SortedPlan
  <2>1. deps \in RawPlans
    BY <1>1, Typed DEF IndInv
  <2> DEFINE order == Kahn(deps)
  <2>2. order \in Seq(Steps) /\ Distinct(order) /\ Ordered(deps, order)
    BY <2>1, KahnOrders
  <2>3. Valid(deps) <=> Acyclic(deps) /\ \A s \in Steps : Ghost \notin deps[s]
    BY <2>1, ValidIsAcyclic
  <2> HIDE DEF order
  <2>4. ASSUME NEW i \in 1 .. Len(order)
        PROVE  /\ \A j \in 1 .. i - 1 : order[i] # order[j]
               /\ deps[order[i]] \subseteq {order[j] : j \in 1 .. i - 1}
    <3>1. Len(order) \in Nat
      BY <2>2, LenProperties
    <3>2. \A j \in 1 .. i - 1 : j \in 1 .. Len(order) /\ j # i
      BY <3>1
    <3>3. \A j \in 1 .. i - 1 : order[i] # order[j]
      BY <2>2, <3>2 DEF Distinct
    <3>4. deps[order[i]] \subseteq {order[j] : j \in 1 .. i - 1}
      BY <2>2 DEF Ordered
    <3> QED
      BY <3>3, <3>4
  <2> QED
    BY <2>3, <2>4 DEF SortedPlan, order
<1> QED
  BY <1>1, Inductive, PTL

(***************************************************************************)
(* Why no step is left without a result: only a valid plan is executed,    *)
(* the levels of a valid plan reach every step, and what the plan has been *)
(* told is not taken back.                                                 *)
(***************************************************************************)
EndInv ==
  /\ stage = "running" => Valid(deps)
  /\ stage \in {"synthesis", "answered"} => \A s \in Steps : result[s] # "none"
  /\ stage = "single" => started = {} \/ \A s \in Steps : result[s] # "none"

\* A step at work leaves the plan alone and takes no result back.
LEMMA ResultsStay ==
  ASSUME TypeOK, NEW s \in Steps, StepWork(s) \/ SandboxTimeout(s)
  PROVE  /\ UNCHANGED <<deps, stage, started, literal>>
         /\ \A u \in Steps : result[u] # "none" => result'[u] # "none"
<1>1. UNCHANGED <<deps, stage, started, literal>>
  BY DEF StepWork, CountStep, ExpireStep, CallMcp, StoreRun, CallPipeline, CallThrows,
         SelfCorrect, SandboxTimeout
<1>2. step \in StepType /\ result \in [Steps -> {"none", "ok", "error"}]
  BY Typed
<1>3. ASSUME NEW ok \in BOOLEAN, Finish(s, ok)
      PROVE  \A u \in Steps : result[u] # "none" => result'[u] # "none"
  BY <1>2, <1>3, Finished
<1>4. ASSUME CountStep(s) PROVE result' = result \/ Finish(s, FALSE)
  BY <1>4 DEF CountStep
<1>5. ASSUME StoreRun(s) PROVE Finish(s, step[s].ok) /\ step[s].ok \in BOOLEAN
  BY <1>2, <1>5 DEF StoreRun, StepType
<1>6. ASSUME CallPipeline(s) \/ SelfCorrect(s) PROVE \E ok \in BOOLEAN : Finish(s, ok)
  BY <1>6 DEF CallPipeline, SelfCorrect
<1>7. ASSUME ExpireStep(s) \/ CallMcp(s) \/ CallThrows(s) PROVE result' = result
  BY <1>7 DEF ExpireStep, CallMcp, CallThrows
<1>8. ASSUME SandboxTimeout(s) PROVE result' = [result EXCEPT ![s] = "error"]
  BY <1>8 DEF SandboxTimeout
<1>9. ASSUME SandboxTimeout(s) PROVE \A u \in Steps : result[u] # "none" => result'[u] # "none"
  BY <1>2, <1>8, <1>9
<1> QED
  BY <1>1, <1>3, <1>4, <1>5, <1>6, <1>7, <1>9 DEF StepWork

LEMMA EndStep == IndInv /\ EndInv /\ [Next]_vars => EndInv'
<1> SUFFICES ASSUME IndInv, EndInv, [Next]_vars PROVE EndInv'
  OBVIOUS
<1>0. TypeOK
  BY DEF IndInv
<1>1. CASE Plan
  BY <1>1 DEF Plan, EndInv, IndInv, PlanInv
<1>2. CASE StartLevel
  BY <1>2 DEF StartLevel, EndInv
<1>3. CASE AllLevels
  <2>1. deps \in RawPlans /\ started \in SUBSET Steps /\ Valid(deps)
    BY <1>0, <1>3, Typed DEF AllLevels, EndInv
  <2>2. NextLevel(deps, started) = {} /\ LevelSettled
    BY <1>3 DEF AllLevels
  <2>3. started = Steps
    BY <2>1, <2>2, LevelsReachAll
  <2>4. \A s \in Steps : result[s] # "none"
    BY <2>2, <2>3 DEF LevelSettled
  <2> QED
    BY <1>3, <2>4 DEF AllLevels, EndInv
<1>4. CASE Synthesize
  BY <1>4 DEF Synthesize, EndInv
<1>5. ASSUME NEW s \in Steps, StepWork(s) \/ SandboxTimeout(s) PROVE EndInv'
  BY <1>0, <1>5, ResultsStay DEF EndInv
<1>6. CASE UNCHANGED planVars
  BY <1>6 DEF planVars, EndInv
<1>7. UNCHANGED vars => UNCHANGED planVars
  BY DEF vars
<1>8. CASE Crash
  <2>1. UNCHANGED <<started, result>> /\ (stage' = stage \/ stage' = "lost")
        /\ stage' # "running" /\ stage' # "synthesis"
    BY <1>8 DEF Crash, LosePlan
  <2> QED
    BY <2>1 DEF EndInv
<1> QED
  BY <1>1, <1>2, <1>3, <1>4, <1>5, <1>6, <1>7, <1>8 DEF Next, PlanNext, PlanWork

(***************************************************************************)
(* A step starts after every step it depends on has a result, whatever     *)
(* order the results come in; and the answer is written when every step    *)
(* has one.                                                                *)
(***************************************************************************)
THEOREM StepsFollow == Spec => []DependenciesLanded
<1>1. Init => EndInv
  BY DEF Init, PlanInit, EndInv
<1>2. Spec => []EndInv
  BY <1>1, EndStep, Inductive, PTL DEF Spec
<1>3. IndInv /\ EndInv => DependenciesLanded
  BY DEF IndInv, PlanInv, Landed, EndInv, DependenciesLanded
<1> QED
  BY <1>2, <1>3, Inductive, PTL

(***************************************************************************)
(* One failing call never opens the circuit, although it may count twice.  *)
(***************************************************************************)
THEOREM CircuitsNeedTwo == Spec => []OneCallNeverOpens
<1>1. IndInv => OneCallNeverOpens
  BY DEF IndInv, CircuitInv, OneCallNeverOpens
<1> QED
  BY <1>1, Inductive, PTL

(***************************************************************************)
(* A window of the rate limit has an end, or somebody is about to set one, *)
(* unless its EXPIRE failed, its first count was not heard or its process  *)
(* died before the EXPIRE.                                                 *)
(***************************************************************************)
THEOREM WindowsEnd == Spec => []WindowHasEnd
BY Inductive, PTL DEF IndInv

-----------------------------------------------------------------------------
(***************************************************************************)
(* The turn as Dataflow sees it.                                           *)
(***************************************************************************)
LEMMA ExecutableIsValid ==
  ASSUME TypeOK
  PROVE  Valid(deps) <=> Flow!Executable
<1>1. deps \in RawPlans
  BY Typed
<1> QED
  BY <1>1, ValidIsAcyclic DEF Acyclic, Flow!Executable

LEMMA FlowInit == Init => Flow!Init
BY DEF Init, PlanInit, Flow!Init, RawPlans

\* A level is a set of steps that are ready.
LEMMA FlowStarts ==
  ASSUME IndInv, StartLevel
  PROVE  Flow!Start
<1> DEFINE S       == NextLevel(deps, started)
           refused == IF Allowed(breaker) THEN {} ELSE S \cap McpSteps
           raw     == Unresolved(S)
<1>1. /\ stage = "running" /\ LevelSettled /\ S # {}
      /\ started' = started \cup S
      /\ result' = [s \in Steps |-> IF s \in refused THEN "error" ELSE result[s]]
      /\ literal' = literal \cup raw
      /\ deps' = deps /\ stage' = stage
  BY DEF StartLevel
<1>2. S \subseteq Steps \ started /\ \A s \in S : \A d \in deps[s] : d \in started
  BY DEF NextLevel
<1>3. S \in SUBSET Flow!Ready
  BY <1>1, <1>2 DEF LevelSettled, Flow!Ready
<1>4. refused \in SUBSET S /\ raw \in SUBSET S
  BY DEF Unresolved
<1>5. raw # {} => \A s \in Steps : result[s] # "ok"
  BY DEF Unresolved
<1> HIDE DEF S, refused, raw
<1>6. \E T \in SUBSET Flow!Ready : \E no, asis \in SUBSET T :
        /\ T # {}
        /\ asis # {} => \A s \in Steps : result[s] # "ok"
        /\ started' = started \cup T
        /\ result' = [s \in Steps |-> IF s \in no THEN "error" ELSE result[s]]
        /\ literal' = literal \cup asis
  <2> USE <1>3, <1>4
  <2> WITNESS S \in SUBSET Flow!Ready
  <2> WITNESS refused \in SUBSET S, raw \in SUBSET S
  <2> QED
    BY <1>1, <1>5
<1> QED
  BY <1>1, <1>6 DEF Flow!Start

\* A step at work reports its result, if the plan has none for it yet.
LEMMA FlowReports ==
  ASSUME IndInv, EndInv, NEW s \in Steps, StepWork(s) \/ SandboxTimeout(s)
  PROVE  Flow!Report(s) \/ UNCHANGED planVars \/ UNCHANGED Flow!vars
<1>1. /\ UNCHANGED <<deps, stage, started, literal>>
      /\ step \in StepType /\ result \in [Steps -> {"none", "ok", "error"}]
      /\ stage \in {"planned", "running", "synthesis", "answered", "single", "lost"}
  BY ResultsStay, Typed DEF IndInv
<1>2. step[s].at \notin {"idle", "done"}
  BY DEF StepWork, CountStep, ExpireStep, CallMcp, StoreRun, CallPipeline, CallThrows,
         SelfCorrect, SandboxTimeout, Awaits, Sandboxed
<1>3. s \in started
  BY <1>2 DEF IndInv, PlanInv
<1>4. result[s] = "none" => stage = "running"
  <2>1. stage \notin {"planned", "lost"}
    BY <1>2, <1>3 DEF IndInv, PlanInv
  <2> QED
    BY <1>1, <1>3, <2>1 DEF EndInv
<1>5. ASSUME result' = result PROVE UNCHANGED Flow!vars
  BY <1>1, <1>5 DEF Flow!vars
<1>6. ASSUME NEW r \in {"ok", "error"}, result[s] = "none", result' = [result EXCEPT ![s] = r]
      PROVE  Flow!Report(s)
  <2>1. stage = "running"
    BY <1>4, <1>6
  <2> QED
    BY <1>1, <1>3, <1>6, <2>1 DEF Flow!Report
<1>7. ASSUME NEW ok \in BOOLEAN, Finish(s, ok) PROVE result' = result \/ Flow!Report(s)
  <2>1. CASE result[s] # "none"
    <3>1. result' = [result EXCEPT ![s] = result[s]]
      BY <1>7, <2>1 DEF Finish
    <3> QED
      BY <1>1, <3>1
  <2>2. CASE result[s] = "none"
    <3>1. PICK r \in {"ok", "error"} : r = IF ok THEN "ok" ELSE "error"
      OBVIOUS
    <3>2. result' = [result EXCEPT ![s] = r]
      BY <1>7, <2>2, <3>1 DEF Finish
    <3> QED
      BY <1>6, <2>2, <3>2
  <2> QED
    BY <2>1, <2>2
<1>8. ASSUME CountStep(s) PROVE result' = result \/ Finish(s, FALSE)
  BY <1>8 DEF CountStep
<1>9. ASSUME StoreRun(s) PROVE Finish(s, step[s].ok) /\ step[s].ok \in BOOLEAN
  BY <1>1, <1>9 DEF StoreRun, StepType
<1>10. ASSUME CallPipeline(s) \/ SelfCorrect(s) PROVE \E ok \in BOOLEAN : Finish(s, ok)
  BY <1>10 DEF CallPipeline, SelfCorrect
<1>11. ASSUME ExpireStep(s) \/ CallMcp(s) \/ CallThrows(s) PROVE result' = result
  BY <1>11 DEF ExpireStep, CallMcp, CallThrows
<1>12. ASSUME SandboxTimeout(s) PROVE result[s] = "none" /\ result' = [result EXCEPT ![s] = "error"]
  BY <1>12 DEF SandboxTimeout
<1>13. result' = result \/ Flow!Report(s)
  BY <1>6, <1>7, <1>8, <1>9, <1>10, <1>11, <1>12 DEF StepWork
<1> QED
  BY <1>5, <1>13

LEMMA FlowStep ==
  IndInv /\ EndInv /\ [Next]_vars => [Flow!Next]_(Flow!vars)
<1> SUFFICES ASSUME IndInv, EndInv, Next PROVE Flow!Next \/ UNCHANGED Flow!vars
  BY DEF vars, planVars, Flow!vars
<1>1. CASE Plan
  <2>1. Valid(deps) <=> Flow!Executable
    BY ExecutableIsValid DEF IndInv
  <2>2. Flow!Accept \/ Flow!Reject
    BY <1>1, <2>1 DEF Plan, ChatPlan, Flow!Accept, Flow!Reject
  <2> QED
    BY <2>2 DEF Flow!Next
<1>2. CASE StartLevel
  BY <1>2, FlowStarts DEF Flow!Next
<1>3. CASE AllLevels
  <2>1. deps \in RawPlans /\ started \in SUBSET Steps /\ Valid(deps)
    BY <1>3, Typed DEF AllLevels, EndInv, IndInv
  <2>2. started = Steps
    BY <1>3, <2>1, LevelsReachAll DEF AllLevels
  <2>3. Flow!Conclude
    BY <1>3, <2>2 DEF AllLevels, LevelSettled, Flow!Conclude
  <2> QED
    BY <2>3 DEF Flow!Next
<1>4. CASE Synthesize
  BY <1>4 DEF Synthesize, Flow!Answer, Flow!Next
<1>5. ASSUME NEW s \in Steps, StepWork(s) \/ SandboxTimeout(s)
      PROVE  Flow!Next \/ UNCHANGED Flow!vars
  BY <1>5, FlowReports DEF Flow!Next, planVars, Flow!vars
<1>6. CASE UNCHANGED planVars
  BY <1>6 DEF planVars, Flow!vars
<1>7. CASE Crash
  <2>1. /\ UNCHANGED <<deps, started, result, literal>>
        /\ stage' = IF stage \in {"answered", "single"} THEN stage ELSE "lost"
        /\ stage \in {"planned", "running", "synthesis", "answered", "single", "lost"}
    BY <1>7, Typed DEF Crash, LosePlan, IndInv
  <2>2. Flow!Lose \/ UNCHANGED Flow!vars
    BY <2>1 DEF Flow!Lose, Flow!vars
  <2> QED
    BY <2>2 DEF Flow!Next
<1> QED
  BY <1>1, <1>2, <1>3, <1>4, <1>5, <1>6, <1>7 DEF Next, PlanNext, PlanWork

(***************************************************************************)
(* A planned turn implements Dataflow: which plans are accepted, what a    *)
(* step may rely on when it starts, that a result stays whatever the tool  *)
(* answers after its time is over, and that no step is left out.           *)
(***************************************************************************)
THEOREM Refinement == Spec => ImplementsDataflow
<1>1. Init => EndInv
  BY DEF Init, PlanInit, EndInv
<1>2. Spec => []EndInv
  BY <1>1, EndStep, Inductive, PTL DEF Spec
<1> QED
  BY <1>2, FlowInit, FlowStep, Inductive, PTL DEF Spec, ImplementsDataflow, Flow!Spec

(***************************************************************************)
(* The safety half of TurnEnds: a level waits only for steps whose timer   *)
(* runs, so that SandboxTimeout can end the wait.  The timers of a process *)
(* that died are gone with it.                                             *)
(***************************************************************************)
TimerInv == stage # "lost" => \A s \in started : result[s] = "none" => step[s].at \in Sandboxed

LEMMA TimerStep == IndInv /\ IndInv' /\ EndInv /\ TimerInv /\ [Next]_vars => TimerInv'
<1> SUFFICES ASSUME IndInv, IndInv', EndInv, TimerInv, [Next]_vars PROVE TimerInv'
  OBVIOUS
<1>0. /\ step \in StepType /\ result \in [Steps -> {"none", "ok", "error"}] /\ started \subseteq Steps
      /\ step' \in StepType /\ result' \in [Steps -> {"none", "ok", "error"}]
  BY Typed DEF IndInv, TypeOK, PlanTypeOK, StepType, Places
<1>1. CASE Plan \/ AllLevels \/ Synthesize \/ UNCHANGED planVars
  BY <1>1 DEF Plan, AllLevels, Synthesize, planVars, TimerInv
<1>4. CASE Crash
  <2>1. UNCHANGED <<started, result>>
        /\ (stage' = "lost" \/ (stage' = stage /\ stage \in {"answered", "single"}))
    BY <1>4 DEF Crash, LosePlan
  <2>2. stage \in {"answered", "single"} => \A s \in started : result[s] # "none"
    BY <1>0 DEF EndInv
  <2> QED
    BY <2>1, <2>2 DEF TimerInv
<1>2. CASE StartLevel
  <2> DEFINE S       == NextLevel(deps, started)
             refused == IF Allowed(breaker) THEN {} ELSE S \cap McpSteps
             first(s) == IF s \in refused THEN "done" ELSE IF s \in McpSteps THEN "limit" ELSE "call"
  <2>1. /\ started' = started \cup S /\ S \subseteq Steps /\ S \cap started = {}
        /\ step' = [s \in Steps |-> IF s \notin S THEN step[s] ELSE [step[s] EXCEPT !.at = first(s)]]
        /\ result' = [s \in Steps |-> IF s \in refused THEN "error" ELSE result[s]]
    BY <1>2 DEF StartLevel, NextLevel
  <2>2. \A s : s \notin refused => first(s) \in Sandboxed
    BY DEF Sandboxed
  <2>3. \A s : s \in refused => s \in S
    OBVIOUS
  <2> HIDE DEF S, refused, first
  <2>6. stage = "running" /\ stage' = stage
    BY <1>2 DEF StartLevel
  <2>4. ASSUME NEW s \in started PROVE result'[s] = "none" => step'[s].at \in Sandboxed
    BY <1>0, <2>1, <2>3, <2>6 DEF TimerInv
  <2>5. ASSUME NEW s \in S PROVE result'[s] = "none" => step'[s].at \in Sandboxed
    <3>1. result'[s] = "none" => s \notin refused
      BY <2>1
    <3>2. step'[s].at = first(s)
      BY <1>0, <2>1 DEF StepType
    <3> QED
      BY <2>2, <3>1, <3>2
  <2> QED
    BY <2>1, <2>4, <2>5 DEF TimerInv
<1>3. ASSUME NEW s \in Steps, StepWork(s) \/ SandboxTimeout(s) PROVE TimerInv'
  <2>1. started' = started /\ stage' = stage
        /\ \A u \in Steps : result[u] # "none" => result'[u] # "none"
    BY <1>3, ResultsStay DEF IndInv
  <2>2. ASSUME NEW to \in Sandboxed, Goto(s, to) PROVE TimerInv'
    <3>1. to \in Places
      BY DEF Places
    <3>2. step'[s].at = to /\ \A u \in Steps \ {s} : step'[u] = step[u]
      BY <1>0, <2>2, <3>1, StepMoved
    <3> QED
      BY <1>0, <2>1, <2>2, <3>2 DEF TimerInv
  <2>3. ASSUME NEW ok \in BOOLEAN, Finish(s, ok) PROVE TimerInv'
    <3>1. \A u \in Steps \ {s} : step'[u] = step[u]
      BY <1>0, <2>3, Finished
    <3>2. result'[s] # "none"
      BY <1>0, <2>3 DEF Finish
    <3> QED
      BY <1>0, <2>1, <3>1, <3>2 DEF TimerInv
  <2>4. CASE CountStep(s)
    BY <2>2, <2>3, <2>4 DEF CountStep, AfterCount, Sandboxed
  <2>5. CASE ExpireStep(s) \/ CallThrows(s)
    BY <2>2, <2>5 DEF ExpireStep, CallThrows, Sandboxed
  <2>6. CASE CallMcp(s)
    <3>1. step'[s].at = "row" /\ \A u \in Steps \ {s} : step'[u] = step[u]
      BY <1>0, <2>6 DEF CallMcp, StepType
    <3> QED
      BY <1>0, <2>1, <3>1 DEF TimerInv, Sandboxed
  <2>7. CASE StoreRun(s)
    BY <1>0, <2>3, <2>7 DEF StoreRun, StepType
  <2>8. CASE CallPipeline(s) \/ SelfCorrect(s)
    BY <2>3, <2>8 DEF CallPipeline, SelfCorrect
  <2>9. CASE SandboxTimeout(s)
    <3>1. result'[s] = "error" /\ \A u \in Steps \ {s} : step'[u] = step[u]
      BY <1>0, <2>9 DEF SandboxTimeout, Goto, StepType
    <3> QED
      BY <1>0, <2>1, <3>1 DEF TimerInv
  <2> QED
    BY <1>3, <2>4, <2>5, <2>6, <2>7, <2>8, <2>9 DEF StepWork
<1> QED
  BY <1>1, <1>2, <1>3, <1>4 DEF Next, PlanNext, PlanWork, vars, planVars

(***************************************************************************)
(* Nothing is waited for without a timer, in a process that lives.         *)
(***************************************************************************)
THEOREM WaitsAreTimed ==
  Spec => [](stage # "lost" =>
               \A s \in started : result[s] = "none" => step[s].at \in Sandboxed)
<1>1. Init => TimerInv /\ EndInv
  BY DEF Init, PlanInit, TimerInv, EndInv
<1>2. Spec => []TimerInv
  BY <1>1, TimerStep, EndStep, Inductive, PTL DEF Spec
<1>3. TimerInv => (stage # "lost" =>
         \A s \in started : result[s] = "none" => step[s].at \in Sandboxed)
  BY DEF TimerInv
<1> QED
  BY <1>2, <1>3, PTL
(***************************************************************************)
(* What the turn still has ahead of it: levels to start, results to hear,  *)
(* and its own stages.                                                     *)
(***************************************************************************)
Unstarted == Steps \ started
Untold    == {s \in Steps : result[s] = "none"}

StagesLeft ==
  CASE stage = "planned"   -> 3
    [] stage = "running"   -> 2
    [] stage = "synthesis" -> 1
    [] OTHER               -> 0

Ahead == Cardinality(Unstarted) + Cardinality(Untold) + StagesLeft

\* The plan goes on: a level starts, the plan is told a result, or its stage changes.
TurnMoves == Unstarted' # Unstarted \/ Untold' # Untold \/ stage' # stage

\* A number that no other step changes, and that every move lowers.
TurnAdvances == Ahead \in Nat /\ (IF TurnMoves THEN Ahead' < Ahead ELSE Ahead' = Ahead)

\* A part of a set of steps is smaller, unless it is the set.
LEMMA FewerSteps ==
  ASSUME NEW S \in SUBSET Steps, NEW T \in SUBSET S
  PROVE  /\ Cardinality(S) \in Nat /\ Cardinality(T) \in Nat
         /\ Cardinality(T) <= Cardinality(S) /\ (T # S => Cardinality(T) < Cardinality(S))
<1>1. IsFiniteSet(Steps)
  BY FS_Interval, PlanAssumption DEF Steps
<1>2. IsFiniteSet(S)
  BY <1>1, FS_Subset
<1>3. /\ IsFiniteSet(T) /\ Cardinality(T) <= Cardinality(S)
      /\ Cardinality(S) = Cardinality(T) => S = T
  BY <1>2, FS_Subset
<1>4. Cardinality(S) \in Nat /\ Cardinality(T) \in Nat
  BY <1>2, <1>3, FS_CardinalityType
<1> QED
  BY <1>3, <1>4

\* Both sets only shrink, and the stage goes forward: then so does the turn.
LEMMA TurnShrinks ==
  ASSUME Unstarted' \subseteq Unstarted, Untold' \subseteq Untold,
         stage' = stage \/ StagesLeft' < StagesLeft
  PROVE  TurnAdvances
<1>1. Unstarted \in SUBSET Steps /\ Untold \in SUBSET Steps
  BY DEF Unstarted, Untold
<1>2. /\ Cardinality(Unstarted) \in Nat /\ Cardinality(Unstarted') \in Nat
      /\ Cardinality(Unstarted') <= Cardinality(Unstarted)
      /\ Unstarted' # Unstarted => Cardinality(Unstarted') < Cardinality(Unstarted)
  BY <1>1, FewerSteps
<1>3. /\ Cardinality(Untold) \in Nat /\ Cardinality(Untold') \in Nat
      /\ Cardinality(Untold') <= Cardinality(Untold)
      /\ Untold' # Untold => Cardinality(Untold') < Cardinality(Untold)
  BY <1>1, FewerSteps
<1>4. StagesLeft \in Nat /\ StagesLeft' \in Nat
  BY DEF StagesLeft
<1>5. stage' = stage => StagesLeft' = StagesLeft
  BY DEF StagesLeft
<1> DEFINE a == Cardinality(Unstarted)  a1 == Cardinality(Unstarted')
           b == Cardinality(Untold)     b1 == Cardinality(Untold')
<1>6. Ahead = a + b + StagesLeft /\ Ahead' = a1 + b1 + StagesLeft'
  BY DEF Ahead
<1>7. StagesLeft' <= StagesLeft /\ (stage' # stage => StagesLeft' < StagesLeft)
  BY <1>4, <1>5
<1>8. Ahead \in Nat
  BY <1>2, <1>3, <1>4, <1>6
<1>9. CASE TurnMoves
  <2>1. a1 < a \/ b1 < b \/ StagesLeft' < StagesLeft
    BY <1>2, <1>3, <1>7, <1>9 DEF TurnMoves
  <2>2. Ahead' < Ahead
    BY <1>2, <1>3, <1>4, <1>6, <1>7, <2>1
  <2> QED
    BY <1>8, <1>9, <2>2 DEF TurnAdvances
<1>10. CASE ~TurnMoves
  <2>1. a1 = a /\ b1 = b /\ StagesLeft' = StagesLeft
    BY <1>5, <1>10 DEF TurnMoves
  <2>2. Ahead' = Ahead
    BY <1>6, <2>1
  <2> QED
    BY <1>8, <1>10, <2>2 DEF TurnAdvances
<1> QED
  BY <1>9, <1>10

LEMMA TurnStep == ASSUME TypeOK, [Next]_vars PROVE TurnAdvances
<1>1. CASE Plan \/ AllLevels \/ Synthesize
  <2>1. Unstarted' = Unstarted /\ Untold' = Untold
    BY <1>1 DEF Plan, AllLevels, Synthesize, Unstarted, Untold
  <2>2. StagesLeft' < StagesLeft
    BY <1>1 DEF Plan, AllLevels, Synthesize, StagesLeft
  <2> QED
    BY <2>1, <2>2, TurnShrinks
<1>2. CASE StartLevel
  <2>1. PICK S \in SUBSET Steps :
          /\ started' = started \cup S
          /\ \A s \in Steps : result[s] # "none" => result'[s] # "none"
    BY <1>2, LevelFacts
  <2>2. Unstarted' \subseteq Unstarted /\ Untold' \subseteq Untold
    BY <2>1 DEF Unstarted, Untold
  <2>3. stage' = stage
    BY <1>2 DEF StartLevel
  <2> QED
    BY <2>2, <2>3, TurnShrinks
<1>3. ASSUME NEW s \in Steps, StepWork(s) \/ SandboxTimeout(s) PROVE TurnAdvances
  <2>1. Unstarted' = Unstarted /\ Untold' \subseteq Untold /\ stage' = stage
    BY <1>3, ResultsStay DEF Unstarted, Untold
  <2> QED
    BY <2>1, TurnShrinks
<1>4. CASE UNCHANGED planVars
  <2>1. Unstarted' = Unstarted /\ Untold' = Untold /\ stage' = stage
    BY <1>4 DEF planVars, Unstarted, Untold
  <2> QED
    BY <2>1, TurnShrinks
<1>5. UNCHANGED vars => UNCHANGED planVars
  BY DEF vars
<1>6. CASE Crash
  <2>1. Unstarted' = Unstarted /\ Untold' = Untold
    BY <1>6 DEF Crash, LosePlan, Unstarted, Untold
  <2>2. stage \in {"planned", "running", "synthesis", "answered", "single", "lost"}
        /\ stage' = IF stage \in {"answered", "single"} THEN stage ELSE "lost"
    BY <1>6, Typed DEF Crash, LosePlan
  <2>3. stage' = stage \/ StagesLeft' < StagesLeft
    BY <2>2 DEF StagesLeft
  <2> QED
    BY <2>1, <2>3, TurnShrinks
<1> QED
  BY <1>1, <1>2, <1>3, <1>4, <1>5, <1>6 DEF Next, PlanNext, PlanWork

(***************************************************************************)
(* The other half of TurnEnds that is not about time: what a turn has      *)
(* ahead of it never grows, and a level that starts, a result that is told *)
(* and a change of stage use it up; late steps, the agent loop, the        *)
(* circuit and the rate limit give none of it back.                        *)
(***************************************************************************)
THEOREM TurnsAdvance == Spec => [][TurnAdvances]_vars
<1>1. IndInv /\ [Next]_vars => [TurnAdvances]_vars
  BY TurnStep DEF IndInv
<1> QED
  BY <1>1, Inductive, PTL DEF Spec
=============================================================================
