------------------------- MODULE MemoryQueueProofs -------------------------
(***************************************************************************)
(* For every number of turns, writers, attempts, stalls and faults: the    *)
(* queue stays within its depth, every write of a turn beyond the first is *)
(* paid for by a fault, a dropped turn is not written, a completed job has *)
(* written its turn, and every move brings a turn nearer to its end.       *)
(***************************************************************************)
EXTENDS MemoryQueueProps, FiniteSetTheorems, TLAPS

(***************************************************************************)
(* A turn has jobs once it is queued, and is not written before it is      *)
(* queued or inline.                                                       *)
(***************************************************************************)
Unqueued  == {"idle", "dropped", "inlined", "lost"} \cup HandingOver
Unwritten == {"idle", "dropped", "lost"} \cup HandingOver

TurnInv ==
  /\ \A t \in Turns, k \in {1, 2} : turn[t] \in Unqueued => job[<<t, k>>].state = "absent"
  /\ \A t \in Turns : turn[t] \in Unwritten => stored[t] = 0

(***************************************************************************)
(* The job of the worker is active, and a job that is not over has an      *)
(* attempt left.                                                           *)
(***************************************************************************)
JobInv ==
  /\ worker.at # "idle" => worker.job \in Jobs /\ job[worker.job].state = "active"
  /\ worker.at = "idle" => worker = Idle
  /\ \A j \in Jobs : /\ job[j].state \notin {"completed", "failed", "off"} => job[j].made < MaxAttempts
                     /\ job[j].state # "failed" => job[j].stalls <= MaxStalls

(***************************************************************************)
(* Every job of a turn stores it once; more takes a fault each time.       *)
(***************************************************************************)
Done(j) == job[j].state = "completed" \/ (worker.job = j /\ worker.at = "stored")
Once(j) == IF Done(j) THEN 1 ELSE 0

StoreInv ==
  \A t \in Turns : IF turn[t] = "inlined" THEN stored[t] <= 1
                   ELSE stored[t] <= faults + Once(<<t, 1>>) + Once(<<t, 2>>)

(***************************************************************************)
(* Why DepthBound holds: the turns that have passed the check count as if  *)
(* they were queued.                                                       *)
(***************************************************************************)
Queued  == {j \in Jobs : job[j].state \in Counted}
Adding  == {t \in Turns : turn[t] = "add"}

DepthInv ==
  /\ Cardinality(Handing) <= Writers
  /\ Cardinality(Queued) + Cardinality(Adding) <= MaxDepth + Writers - 1 + faults

IndInv == TypeOK /\ TurnInv /\ JobInv /\ StoreInv /\ DepthInv
-----------------------------------------------------------------------------
States  == {"absent", "waiting", "delayed", "active", "completed", "failed", "off"}
Record  == [state : States, made : 0 .. MaxAttempts, stalls : 0 .. MaxStalls + 1]
JobType == [Jobs -> Record]
Places  == {"idle"} \cup HandingOver \cup Verdicts
Workers == [job : Jobs \cup {None}, at : {"idle", "write", "stored", "failed", "fatal", "skipped"}]

\* What is typed, by name.
LEMMA Typed ==
  TypeOK => /\ up \in BOOLEAN /\ turn \in [Turns -> Places] /\ job \in JobType
            /\ worker \in Workers /\ faults \in 0 .. MaxFaults /\ faults \in Nat
            /\ stored \in [Turns -> Nat]
BY QueueAssumption DEF TypeOK, Places, JobType, Record, States, Workers

\* The bound on the writes follows from their cause.
LEMMA TypeNext ==
  ASSUME up' \in BOOLEAN, turn' \in [Turns -> Places], job' \in JobType, worker' \in Workers,
         faults' \in 0 .. MaxFaults, stored' \in [Turns -> Nat], StoreInv'
  PROVE  TypeOK'
<1>1. \A t \in Turns : stored'[t] \in 0 .. 2 + MaxFaults
  <2>1. ASSUME NEW t \in Turns PROVE stored'[t] \in 0 .. 2 + MaxFaults
    <3>1. stored'[t] \in Nat /\ faults' \in Nat /\ faults' <= MaxFaults
      BY QueueAssumption
    <3>2. Once(<<t, 1>>)' \in {0, 1} /\ Once(<<t, 2>>)' \in {0, 1}
      BY DEF Once
    <3>3. stored'[t] <= 1 \/ stored'[t] <= faults' + Once(<<t, 1>>)' + Once(<<t, 2>>)'
      BY DEF StoreInv
    <3> QED
      BY <3>1, <3>2, <3>3, QueueAssumption
  <2> QED
    BY <2>1
<1> QED
  BY <1>1 DEF TypeOK, Places, JobType, Record, States, Workers

\* Faults are counted up to their bound.
LEMMA FaultType ==
  TypeOK /\ (Fault \/ faults' = faults) =>
    faults' \in 0 .. MaxFaults /\ faults' \in Nat /\ faults' >= faults
BY QueueAssumption DEF TypeOK, Fault

\* The sets that are counted are finite.
LEMMA Finite ==
  /\ \A S \in SUBSET Turns : IsFiniteSet(S) /\ Cardinality(S) \in Nat
  /\ \A S \in SUBSET Jobs : IsFiniteSet(S) /\ Cardinality(S) \in Nat
<1>1. IsFiniteSet(Turns)
  BY QueueAssumption
<1>2. IsFiniteSet({1, 2})
  <2>1. {1, 2} = {1} \cup {2} /\ IsFiniteSet({1})
    BY FS_Singleton
  <2> QED
    BY <2>1, FS_AddElement
<1>3. IsFiniteSet(Jobs)
  BY <1>1, <1>2, FS_Product DEF Jobs
<1>4. \A S \in SUBSET Turns : IsFiniteSet(S)
  BY <1>1, FS_Subset
<1>5. \A S \in SUBSET Jobs : IsFiniteSet(S)
  BY <1>3, FS_Subset
<1> QED
  BY <1>4, <1>5, FS_CardinalityType

\* Sets that grow by one element, shrink, or lose one.
LEMMA Grow ==
  ASSUME NEW S, IsFiniteSet(S), NEW x, NEW T, T \subseteq S \cup {x}
  PROVE  Cardinality(T) <= Cardinality(S) + 1
<1>1. IsFiniteSet(S \cup {x}) /\ Cardinality(S) \in Nat
  BY FS_AddElement, FS_CardinalityType
<1>2. Cardinality(S \cup {x}) <= Cardinality(S) + 1
  BY <1>1, FS_AddElement
<1>3. Cardinality(T) <= Cardinality(S \cup {x}) /\ IsFiniteSet(T)
  BY <1>1, FS_Subset
<1>4. Cardinality(T) \in Nat /\ Cardinality(S \cup {x}) \in Nat
  BY <1>1, <1>3, FS_CardinalityType
<1> QED
  BY <1>1, <1>2, <1>3, <1>4

LEMMA Shrink ==
  ASSUME NEW S, IsFiniteSet(S), NEW T, T \subseteq S
  PROVE  Cardinality(T) <= Cardinality(S)
BY FS_Subset

LEMMA Lose ==
  ASSUME NEW S, IsFiniteSet(S), NEW x \in S, NEW T, T \subseteq S \ {x}
  PROVE  Cardinality(T) <= Cardinality(S) - 1
<1>1. IsFiniteSet(S \ {x}) /\ Cardinality(S \ {x}) = Cardinality(S) - 1
  BY FS_RemoveElement
<1> QED
  BY <1>1, FS_Subset

\* The counts are numbers.
LEMMA Counts ==
  /\ IsFiniteSet(Handing) /\ IsFiniteSet(Queued) /\ IsFiniteSet(Adding)
  /\ IsFiniteSet(Handing') /\ IsFiniteSet(Queued') /\ IsFiniteSet(Adding')
  /\ Cardinality(Handing) \in Nat /\ Cardinality(Queued) \in Nat /\ Cardinality(Adding) \in Nat
  /\ Cardinality(Handing') \in Nat /\ Cardinality(Queued') \in Nat /\ Cardinality(Adding') \in Nat
<1>1. /\ Handing \in SUBSET Turns /\ Adding \in SUBSET Turns /\ Queued \in SUBSET Jobs
      /\ Handing' \in SUBSET Turns /\ Adding' \in SUBSET Turns /\ Queued' \in SUBSET Jobs
  BY DEF Handing, Adding, Queued
<1> QED
  BY <1>1, Finite

\* A step after which nothing more is counted.
LEMMA DepthFrame ==
  ASSUME TypeOK, DepthInv, Fault \/ faults' = faults,
         Handing' \subseteq Handing, Queued' \subseteq Queued, Adding' \subseteq Adding
  PROVE  DepthInv'
<1>1. /\ Cardinality(Handing') <= Cardinality(Handing)
      /\ Cardinality(Queued') <= Cardinality(Queued)
      /\ Cardinality(Adding') <= Cardinality(Adding)
  BY Counts, Shrink
<1>2. faults \in Nat /\ faults' \in Nat /\ faults' >= faults
  BY Typed, FaultType
<1> QED
  BY <1>1, <1>2, Counts, QueueAssumption DEF DepthInv

\* A step that stores nothing and keeps what was done.
LEMMA StoreFrame ==
  ASSUME TypeOK, StoreInv, Fault \/ faults' = faults, stored' = stored,
         \A t \in Turns : turn'[t] = "inlined" <=> turn[t] = "inlined",
         \A j \in Jobs : Done(j) => Done(j)'
  PROVE  StoreInv'
<1>1. faults \in Nat /\ faults' \in Nat /\ faults' >= faults /\ \A t \in Turns : stored[t] \in Nat
  BY Typed, FaultType
<1>2. ASSUME NEW t \in Turns
      PROVE  IF turn'[t] = "inlined" THEN stored'[t] <= 1
             ELSE stored'[t] <= faults' + Once(<<t, 1>>)' + Once(<<t, 2>>)'
  <2>1. <<t, 1>> \in Jobs /\ <<t, 2>> \in Jobs
    BY DEF Jobs
  <2>2. /\ Once(<<t, 1>>) \in {0, 1} /\ Once(<<t, 1>>)' \in {0, 1} /\ Once(<<t, 1>>) <= Once(<<t, 1>>)'
        /\ Once(<<t, 2>>) \in {0, 1} /\ Once(<<t, 2>>)' \in {0, 1} /\ Once(<<t, 2>>) <= Once(<<t, 2>>)'
    BY <2>1 DEF Once
  <2> QED
    BY <1>1, <2>2 DEF StoreInv
<1> QED
  BY <1>2 DEF StoreInv
-----------------------------------------------------------------------------
(***************************************************************************)
(* The steps of the request.                                               *)
(***************************************************************************)
\* The worker and the queue keep still.
LEMMA JobFrame ==
  ASSUME JobInv, job' = job, worker' = worker
  PROVE  JobInv' /\ \A j \in Jobs : Done(j)' = Done(j)
BY DEF JobInv, Done, Idle

\* A turn that has not been written moves on, and nothing is queued or written.
LEMMA Moves ==
  ASSUME IndInv, NEW t \in Turns, NEW to \in HandingOver \cup {"dropped"},
         turn[t] \in HandingOver \cup {"idle"}, TurnTo(t, to),
         up' = up, job' = job, worker' = worker, stored' = stored, Fault \/ faults' = faults
  PROVE  /\ TypeOK' /\ TurnInv' /\ JobInv' /\ StoreInv'
         /\ turn' = [turn EXCEPT ![t] = to] /\ turn'[t] = to
         /\ \A u \in Turns : u # t => turn'[u] = turn[u]
<1>1. /\ TypeOK /\ JobInv /\ StoreInv /\ turn \in [Turns -> Places]
      /\ faults' \in 0 .. MaxFaults
  BY Typed, FaultType DEF IndInv
<1>2. turn' = [turn EXCEPT ![t] = to]
  BY DEF TurnTo
<1>3. turn'[t] = to /\ \A u \in Turns : u # t => turn'[u] = turn[u]
  BY <1>1, <1>2
<1>4. to \in Places /\ turn' \in [Turns -> Places]
  BY <1>1, <1>2 DEF Places, Verdicts
<1>5. JobInv' /\ \A j \in Jobs : Done(j) => Done(j)'
  BY <1>1, JobFrame
<1>6. turn[t] # "inlined" /\ to # "inlined"
  BY DEF HandingOver
<1>7. \A u \in Turns : turn'[u] = "inlined" <=> turn[u] = "inlined"
  BY <1>3, <1>6
<1>8. StoreInv'
  BY <1>1, <1>5, <1>7, StoreFrame
<1>9. TypeOK'
  BY <1>1, <1>4, <1>8, Typed, TypeNext
<1>10. TurnInv'
  <2>1. turn[t] \in Unqueued /\ turn[t] \in Unwritten
    BY DEF Unqueued, Unwritten
  <2>2. \A u \in Turns : /\ turn'[u] \in Unqueued => turn[u] \in Unqueued
                         /\ turn'[u] \in Unwritten => turn[u] \in Unwritten
    BY <1>3, <2>1
  <2> QED
    BY <2>2 DEF TurnInv, IndInv
<1> QED
  BY <1>2, <1>3, <1>5, <1>8, <1>9, <1>10

LEMMA BeginNext ==
  ASSUME IndInv, NEW t \in Turns, Begin(t)
  PROVE  IndInv'
<1>1. PICK to \in {"status", "dropped"} : TurnTo(t, to)
  BY DEF Begin
<1>2. /\ turn[t] = "idle" /\ Cardinality(Handing) < Writers
      /\ up' = up /\ job' = job /\ worker' = worker /\ faults' = faults /\ stored' = stored
  BY DEF Begin, Handing
<1>3. to \in HandingOver \cup {"dropped"}
  BY DEF HandingOver
<1>4. /\ TypeOK' /\ TurnInv' /\ JobInv' /\ StoreInv'
      /\ turn'[t] = to /\ \A u \in Turns : u # t => turn'[u] = turn[u]
  BY <1>1, <1>2, <1>3, Moves
<1>5. DepthInv'
  <2>1. Handing' \subseteq Handing \cup {t} /\ Queued' = Queued
    BY <1>2, <1>4 DEF Handing, Queued
  <2>2. turn'[t] # "add"
    BY <1>1, <1>4
  <2>3. Adding' \subseteq Adding
    BY <1>4, <2>2 DEF Adding
  <2>4. Cardinality(Handing') <= Cardinality(Handing) + 1
    BY <2>1, Counts, Grow
  <2>5. Cardinality(Adding') <= Cardinality(Adding)
    BY <2>3, Counts, Shrink
  <2>6. faults \in Nat
    BY Typed DEF IndInv
  <2> QED
    BY <1>2, <2>1, <2>4, <2>5, <2>6, Counts, QueueAssumption DEF DepthInv, IndInv
<1> QED
  BY <1>4, <1>5 DEF IndInv

\* A turn that goes on, but not to the add.
LEMMA MovesOn ==
  ASSUME IndInv, NEW t \in Turns, NEW to \in HandingOver \cup {"dropped"}, to # "add",
         turn[t] \in HandingOver, TurnTo(t, to),
         up' = up, job' = job, worker' = worker, stored' = stored, Fault \/ faults' = faults
  PROVE  IndInv'
<1>1. /\ TypeOK' /\ TurnInv' /\ JobInv' /\ StoreInv'
      /\ turn'[t] = to /\ \A u \in Turns : u # t => turn'[u] = turn[u]
  BY Moves
<1>2. Handing' \subseteq Handing /\ Queued' \subseteq Queued /\ Adding' \subseteq Adding
  BY <1>1 DEF Handing, Queued, Adding
<1>3. DepthInv'
  BY <1>2, DepthFrame DEF IndInv
<1> QED
  BY <1>1, <1>3 DEF IndInv

LEMMA StatusNext ==
  ASSUME IndInv, NEW t \in Turns, Status(t)
  PROVE  IndInv'
<1>1. turn[t] \in HandingOver
  BY DEF Status, HandingOver
<1>2. PICK to \in {"depth", "inline"} : TurnTo(t, to)
  BY DEF Status
<1>3. to \in HandingOver \cup {"dropped"} /\ to # "add"
  BY DEF HandingOver
<1>4. up' = up /\ job' = job /\ worker' = worker /\ faults' = faults /\ stored' = stored
  BY DEF Status
<1> QED
  BY <1>1, <1>2, <1>3, <1>4, MovesOn

LEMMA CheckDepthNext ==
  ASSUME IndInv, NEW t \in Turns, CheckDepth(t)
  PROVE  IndInv'
<1>1. /\ turn[t] = "depth" /\ turn[t] \in HandingOver
      /\ up' = up /\ job' = job /\ worker' = worker /\ stored' = stored
  BY DEF CheckDepth, HandingOver
<1>2. \/ TurnTo(t, "dropped") /\ faults' = faults
      \/ TurnTo(t, "add") /\ ~(Depth >= MaxDepth) /\ faults' = faults
      \/ TurnTo(t, "add") /\ Fault
  BY DEF CheckDepth
<1>3. CASE TurnTo(t, "dropped") /\ faults' = faults
  BY <1>1, <1>3, MovesOn
<1>4. ASSUME TurnTo(t, "add"), Fault \/ (faults' = faults /\ ~(Depth >= MaxDepth))
      PROVE  IndInv'
  <2>1. "add" \in HandingOver \cup {"dropped"} /\ (Fault \/ faults' = faults)
    BY <1>4 DEF HandingOver
  <2>2. /\ TypeOK' /\ TurnInv' /\ JobInv' /\ StoreInv'
        /\ turn'[t] = "add" /\ \A u \in Turns : u # t => turn'[u] = turn[u]
    BY <1>1, <1>4, <2>1, Moves
  <2>3. Handing' \subseteq Handing /\ Queued' = Queued
    BY <1>1, <2>2 DEF Handing, Queued
  <2>4. Adding' \subseteq Adding \cup {t} /\ Adding' \subseteq Handing
    BY <1>1, <2>2 DEF Adding, Handing, HandingOver
  <2>5. /\ Cardinality(Handing') <= Cardinality(Handing)
        /\ Cardinality(Adding') <= Cardinality(Adding) + 1
        /\ Cardinality(Adding') <= Cardinality(Handing)
    BY <2>3, <2>4, Counts, Shrink, Grow
  <2>6. faults \in Nat
    BY Typed DEF IndInv
  <2>7. CASE Fault
    <3>1. faults' = faults + 1
      BY <2>7 DEF Fault
    <3> QED
      BY <2>2, <2>3, <2>5, <2>6, <3>1, Counts, QueueAssumption DEF IndInv, DepthInv
  <2>8. CASE faults' = faults /\ ~(Depth >= MaxDepth)
    <3>1. Cardinality(Queued) < MaxDepth
      BY <2>8, Counts, QueueAssumption DEF Depth, Queued
    <3> QED
      BY <2>2, <2>3, <2>5, <2>6, <2>8, <3>1, Counts, QueueAssumption DEF IndInv, DepthInv
  <2> QED
    BY <1>4, <2>7, <2>8
<1> QED
  BY <1>2, <1>3, <1>4
\* The jobs of the turn are queued.
LEMMA EnqueueNext ==
  ASSUME IndInv, NEW t \in Turns, turn[t] = "add", NEW J, <<t, 1>> \in J, J \subseteq {<<t, 1>>, <<t, 2>>},
         Enqueue(J), TurnTo(t, Added),
         up' = up, worker' = worker, stored' = stored,
         \/ J = {<<t, 1>>} /\ faults' = faults
         \/ Fault
  PROVE  IndInv'
<1>1. /\ TypeOK /\ TurnInv /\ JobInv /\ StoreInv /\ DepthInv
      /\ turn \in [Turns -> Places] /\ job \in JobType /\ faults \in Nat
      /\ faults' \in 0 .. MaxFaults /\ (Fault \/ faults' = faults)
  BY Typed, FaultType DEF IndInv
<1>2. /\ turn' = [turn EXCEPT ![t] = "queued"] /\ turn' \in [Turns -> Places]
      /\ turn'[t] = "queued" /\ \A u \in Turns : u # t => turn'[u] = turn[u]
  BY <1>1 DEF TurnTo, Added, Places, Verdicts
<1>3. J \subseteq Jobs /\ \A j \in J : job[j].state = "absent"
  <2>1. \A k \in {1, 2} : <<t, k>> \in Jobs /\ job[<<t, k>>].state = "absent"
    BY <1>1 DEF Jobs, TurnInv, Unqueued, HandingOver
  <2> QED
    BY <2>1
<1>4. /\ \A j \in J : job'[j] = [job[j] EXCEPT !.state = "waiting"]
      /\ \A j \in Jobs : j \notin J => job'[j] = job[j]
  BY <1>3 DEF Enqueue
<1>5. \A j \in Jobs : job[j] \in Record
  BY <1>1 DEF JobType
<1>6. \A j \in J : /\ job'[j] \in Record /\ job'[j].state = "waiting"
                   /\ job'[j].made = job[j].made /\ job'[j].stalls = job[j].stalls
  <2>1. ASSUME NEW j \in J
        PROVE  /\ job'[j] \in Record /\ job'[j].state = "waiting"
               /\ job'[j].made = job[j].made /\ job'[j].stalls = job[j].stalls
    <3>1. job[j] \in Record
      BY <1>3, <1>5
    <3>2. job'[j] = [job[j] EXCEPT !.state = "waiting"]
      BY <1>4
    <3> QED
      BY <3>1, <3>2 DEF Record, States
  <2> QED
    BY <2>1
<1>7. job' \in JobType
  <2>1. job' = [j \in Jobs |-> job'[j]]
    BY DEF Enqueue
  <2>2. \A j \in Jobs : job'[j] \in Record
    BY <1>4, <1>5, <1>6
  <2> QED
    BY <2>1, <2>2 DEF JobType
<1>8. JobInv'
  <2>1. worker.at # "idle" => worker.job \in Jobs /\ worker.job \notin J
    BY <1>1, <1>3 DEF JobInv
  <2>2. \A j \in J : job[j].made < MaxAttempts /\ job[j].stalls <= MaxStalls
    BY <1>1, <1>3 DEF JobInv
  <2>3. \A j \in J : job'[j].made < MaxAttempts /\ job'[j].stalls <= MaxStalls
    BY <1>6, <2>2
  <2>4. \A j \in Jobs : /\ job'[j].state \notin {"completed", "failed", "off"} => job'[j].made < MaxAttempts
                        /\ job'[j].state # "failed" => job'[j].stalls <= MaxStalls
    BY <1>1, <1>4, <2>3 DEF JobInv
  <2>5. worker'.at # "idle" => worker'.job \in Jobs /\ job'[worker'.job].state = "active"
    BY <1>1, <1>4, <2>1 DEF JobInv
  <2>6. worker'.at = "idle" => worker' = Idle
    BY <1>1 DEF JobInv
  <2> QED
    BY <2>4, <2>5, <2>6 DEF JobInv, Idle
<1>9. StoreInv'
  <2>1. \A j \in Jobs : Done(j) => Done(j)'
    BY <1>3, <1>4 DEF Done
  <2>2. \A u \in Turns : turn'[u] = "inlined" <=> turn[u] = "inlined"
    BY <1>1, <1>2
  <2> QED
    BY <1>1, <2>1, <2>2, StoreFrame
<1>10. TurnInv'
  <2>1. "queued" \notin Unqueued /\ "queued" \notin Unwritten
    BY DEF Unqueued, Unwritten, HandingOver
  <2>2. \A u \in Turns, k \in {1, 2} : u # t => <<u, k>> \in Jobs /\ <<u, k>> \notin J
    BY DEF Jobs
  <2>3. \A u \in Turns, k \in {1, 2} : turn'[u] \in Unqueued => job'[<<u, k>>].state = "absent"
    <3>1. \A u \in Turns, k \in {1, 2} : u # t => turn'[u] = turn[u] /\ job'[<<u, k>>] = job[<<u, k>>]
      BY <1>2, <1>4, <2>2
    <3>2. \A u \in Turns, k \in {1, 2} : turn[u] \in Unqueued => job[<<u, k>>].state = "absent"
      BY <1>1 DEF TurnInv
    <3>3. ASSUME NEW u \in Turns, NEW k \in {1, 2}, turn'[u] \in Unqueued
          PROVE  job'[<<u, k>>].state = "absent"
      <4>1. u # t
        BY <1>2, <2>1, <3>3
      <4>2. turn'[u] = turn[u] /\ job'[<<u, k>>] = job[<<u, k>>]
        BY <3>1, <4>1
      <4>3. job[<<u, k>>].state = "absent"
        BY <3>2, <3>3, <4>2
      <4> QED
        BY <4>2, <4>3
    <3> QED
      BY <3>3
  <2>4. \A u \in Turns : turn'[u] \in Unwritten => stored'[u] = 0
    BY <1>1, <1>2, <2>1 DEF TurnInv
  <2> QED
    BY <2>3, <2>4 DEF TurnInv
<1>11. TypeOK'
  BY <1>1, <1>2, <1>7, <1>9, Typed, TypeNext
<1>12. DepthInv'
  <2>1. Handing' \subseteq Handing /\ t \in Adding /\ Adding' \subseteq Adding \ {t}
    BY <1>1, <1>2 DEF Handing, Adding, HandingOver
  <2>2. Queued' \subseteq Queued \cup J
    BY <1>4 DEF Queued
  <2>3. Cardinality(Handing') <= Cardinality(Handing) /\ Cardinality(Adding') <= Cardinality(Adding) - 1
    BY <2>1, Counts, Shrink, Lose
  <2>4. CASE J = {<<t, 1>>} /\ faults' = faults
    <3>1. Cardinality(Queued') <= Cardinality(Queued) + 1
      BY <2>2, <2>4, Counts, Grow
    <3> QED
      BY <1>1, <2>3, <2>4, <3>1, Counts, QueueAssumption DEF DepthInv
  <2>5. CASE Fault
    <3>1. faults' = faults + 1
      BY <2>5 DEF Fault
    <3> DEFINE Q == Queued \cup {<<t, 1>>}
    <3>2. Cardinality(Q) <= Cardinality(Queued) + 1 /\ IsFiniteSet(Q) /\ Cardinality(Q) \in Nat
      BY Counts, Grow, FS_AddElement, FS_CardinalityType
    <3>3. Queued' \subseteq Q \cup {<<t, 2>>}
      BY <2>2
    <3>4. Cardinality(Queued') <= Cardinality(Q) + 1
      BY <3>2, <3>3, Grow
    <3> HIDE DEF Q
    <3>5. Cardinality(Queued') <= Cardinality(Queued) + 2
      BY <3>2, <3>4, Counts
    <3> QED
      BY <1>1, <2>3, <3>1, <3>5, Counts, QueueAssumption DEF DepthInv
  <2> QED
    BY <2>4, <2>5
<1> QED
  BY <1>8, <1>9, <1>10, <1>11, <1>12 DEF IndInv

LEMMA AddNext ==
  ASSUME IndInv, NEW t \in Turns, Add(t)
  PROVE  IndInv'
<1>1. turn[t] = "add" /\ turn[t] \in HandingOver /\ up' = up /\ worker' = worker /\ stored' = stored
  BY DEF Add, HandingOver
<1>2. CASE Enqueue({<<t, 1>>}) /\ TurnTo(t, Added) /\ faults' = faults
  BY <1>1, <1>2, EnqueueNext
<1>3. CASE Enqueue({<<t, 1>>, <<t, 2>>}) /\ TurnTo(t, Added) /\ Fault
  BY <1>1, <1>3, EnqueueNext
<1>4. CASE TurnTo(t, "inline") /\ Fault /\ job' = job
  <2>1. "inline" \in HandingOver \cup {"dropped"}
    BY DEF HandingOver
  <2> QED
    BY <1>1, <1>4, <2>1, MovesOn
<1> QED
  BY <1>2, <1>3, <1>4 DEF Add

LEMMA InlineNext ==
  ASSUME IndInv, NEW t \in Turns, Inline(t)
  PROVE  IndInv'
<1>1. /\ TypeOK /\ TurnInv /\ JobInv /\ StoreInv /\ DepthInv
      /\ turn \in [Turns -> Places] /\ stored \in [Turns -> Nat] /\ faults \in Nat
      /\ turn[t] = "inline"
      /\ up' = up /\ job' = job /\ worker' = worker /\ faults' = faults
  BY Typed DEF IndInv, Inline
<1>2. /\ turn' = [turn EXCEPT ![t] = "inlined"] /\ turn' \in [Turns -> Places]
      /\ turn'[t] = "inlined" /\ \A u \in Turns : u # t => turn'[u] = turn[u]
  BY <1>1 DEF Inline, TurnTo, Places, Verdicts
<1>3. /\ stored' \in [Turns -> Nat] /\ stored'[t] <= stored[t] + 1
      /\ \A u \in Turns : u # t => stored'[u] = stored[u]
  BY <1>1 DEF Inline, Stores
<1>4. stored[t] = 0
  BY <1>1 DEF TurnInv, Unwritten, HandingOver
<1>5. JobInv' /\ \A j \in Jobs : Done(j)' = Done(j)
  BY <1>1, JobFrame
<1>6. StoreInv'
  <2>1. stored'[t] <= 1
    BY <1>3, <1>4
  <2>2. \A u \in Turns : u # t => Once(<<u, 1>>)' = Once(<<u, 1>>) /\ Once(<<u, 2>>)' = Once(<<u, 2>>)
    BY <1>5 DEF Once, Jobs
  <2>3. ASSUME NEW u \in Turns, u # t
        PROVE  IF turn'[u] = "inlined" THEN stored'[u] <= 1
               ELSE stored'[u] <= faults' + Once(<<u, 1>>)' + Once(<<u, 2>>)'
    BY <1>1, <1>2, <1>3, <2>2, <2>3 DEF StoreInv
  <2> QED
    BY <1>2, <2>1, <2>3 DEF StoreInv
<1>7. TurnInv'
  <2>1. "inlined" \notin Unwritten /\ turn[t] \in Unqueued
    BY <1>1 DEF Unqueued, Unwritten, HandingOver
  <2>2. \A u \in Turns : turn'[u] \in Unqueued => turn[u] \in Unqueued
    BY <1>2, <2>1
  <2>3. \A u \in Turns : turn'[u] \in Unwritten => turn[u] \in Unwritten /\ u # t
    BY <1>2, <2>1
  <2> QED
    BY <1>1, <1>3, <2>2, <2>3 DEF TurnInv
<1>8. TypeOK'
  BY <1>1, <1>2, <1>3, <1>5, <1>6, Typed, TypeNext
<1>9. DepthInv'
  <2>1. Handing' \subseteq Handing /\ Queued' \subseteq Queued /\ Adding' \subseteq Adding
    BY <1>1, <1>2 DEF Handing, Queued, Adding, HandingOver
  <2> QED
    BY <1>1, <2>1, DepthFrame
<1> QED
  BY <1>5, <1>6, <1>7, <1>8, <1>9 DEF IndInv
-----------------------------------------------------------------------------
(***************************************************************************)
(* The steps of the queue and its worker.                                  *)
(***************************************************************************)
\* A job that counts changes.
LEMMA JobStep ==
  ASSUME IndInv, NEW j \in Jobs, NEW r \in Record, job' = [job EXCEPT ![j] = r],
         job[j].state \in Counted,
         up' = up, turn' = turn, Fault \/ faults' = faults, worker' \in Workers,
         stored' \in [Turns -> Nat], StoreInv',
         \A t \in Turns : stored'[t] # stored[t] => turn[t] \notin Unwritten,
         r.state \notin {"completed", "failed", "off"} => r.made < MaxAttempts,
         r.state # "failed" => r.stalls <= MaxStalls,
         worker'.at # "idle" => worker'.job \in Jobs /\ job'[worker'.job].state = "active",
         worker'.at = "idle" => worker' = Idle
  PROVE  IndInv'
<1>1. /\ TypeOK /\ TurnInv /\ JobInv /\ DepthInv
      /\ turn \in [Turns -> Places] /\ stored \in [Turns -> Nat] /\ job \in JobType
      /\ up \in BOOLEAN /\ faults' \in 0 .. MaxFaults
  BY Typed, FaultType DEF IndInv
<1>2. job' \in JobType /\ job'[j] = r /\ \A i \in Jobs : i # j => job'[i] = job[i]
  BY <1>1 DEF JobType
<1>4. TypeOK'
  BY <1>1, <1>2, TypeNext
<1>5. JobInv'
  <2>1. \A i \in Jobs : /\ job'[i].state \notin {"completed", "failed", "off"} => job'[i].made < MaxAttempts
                        /\ job'[i].state # "failed" => job'[i].stalls <= MaxStalls
    BY <1>1, <1>2 DEF JobInv
  <2> QED
    BY <2>1 DEF JobInv, Idle
<1>6. TurnInv'
  <2>1. \A i \in Jobs : job[i].state = "absent" => i # j
    BY DEF Counted
  <2>2. \A i \in Jobs : job[i].state = "absent" => job'[i].state = "absent"
    BY <1>2, <2>1
  <2>3. \A t \in Turns, k \in {1, 2} : <<t, k>> \in Jobs
    BY DEF Jobs
  <2> QED
    BY <1>1, <2>2, <2>3 DEF TurnInv
<1>7. DepthInv'
  <2>1. Handing' \subseteq Handing /\ Queued' \subseteq Queued /\ Adding' \subseteq Adding
    BY <1>2 DEF Handing, Queued, Adding
  <2> QED
    BY <1>1, <2>1, DepthFrame
<1> QED
  BY <1>4, <1>5, <1>6, <1>7 DEF IndInv

\* The same, of a step that stores nothing and undoes nothing.
LEMMA QuietJobStep ==
  ASSUME IndInv, NEW j \in Jobs, NEW r \in Record, job' = [job EXCEPT ![j] = r],
         job[j].state \in Counted,
         up' = up, turn' = turn, stored' = stored, faults' = faults, worker' \in Workers,
         r.state \notin {"completed", "failed", "off"} => r.made < MaxAttempts,
         r.state # "failed" => r.stalls <= MaxStalls,
         worker'.at # "idle" => worker'.job \in Jobs /\ job'[worker'.job].state = "active",
         worker'.at = "idle" => worker' = Idle,
         \A i \in Jobs : Done(i) => Done(i)'
  PROVE  IndInv'
<1>1. TypeOK /\ StoreInv /\ stored \in [Turns -> Nat]
  BY Typed DEF IndInv
<1>2. StoreInv'
  BY <1>1, StoreFrame
<1> QED
  BY <1>1, <1>2, JobStep

LEMMA TakeNext ==
  ASSUME IndInv, NEW j \in Jobs, Take(j)
  PROVE  IndInv'
<1> DEFINE r == [job[j] EXCEPT !.state = "active"]
<1>1. /\ worker = Idle /\ job[j].state \in {"waiting", "delayed"} /\ job \in JobType /\ JobInv
      /\ job' = [job EXCEPT ![j] = r] /\ worker' = [job |-> j, at |-> "write"]
      /\ up' = up /\ turn' = turn /\ faults' = faults /\ stored' = stored
  BY Typed DEF IndInv, Take, JobType
<1>2. job[j] \in Record
  BY <1>1 DEF JobType
<1>3. r \in Record /\ r.state = "active" /\ r.made = job[j].made /\ r.stalls = job[j].stalls
  BY <1>2 DEF Record, States
<1>4. r.made < MaxAttempts /\ r.stalls <= MaxStalls
  BY <1>1, <1>3 DEF JobInv
<1> HIDE DEF r
<1>5. job'[j] = r /\ \A i \in Jobs : i # j => job'[i] = job[i]
  BY <1>1 DEF JobType
<1>6. /\ worker'.job = j /\ worker'.at = "write" /\ worker' \in Workers
  BY <1>1 DEF Workers
<1>7. \A i \in Jobs : Done(i) => Done(i)'
  <2>1. worker.at = "idle"
    BY <1>1 DEF Idle
  <2> QED
    BY <1>1, <1>5, <2>1 DEF Done
<1>8. job[j].state \in Counted
  BY <1>1 DEF Counted
<1>9. job'[worker'.job].state = "active"
  BY <1>3, <1>5, <1>6
<1> QED
  BY <1>1, <1>3, <1>4, <1>6, <1>7, <1>8, <1>9, QuietJobStep

\* A failed attempt leaves a job that is over, or one with an attempt left.
LEMMA FailedAgain ==
  ASSUME NEW r \in Record, r.made < MaxAttempts
  PROVE  /\ Failed(r) \in Record /\ Failed(r).stalls = r.stalls
         /\ Failed(r).state = "failed" \/ Failed(r).made < MaxAttempts
<1>1. r.made + 1 \in 0 .. MaxAttempts
  BY QueueAssumption DEF Record
<1> DEFINE to == IF r.made + 1 < MaxAttempts THEN "delayed" ELSE "failed"
<1>2. to \in {"delayed", "failed"} /\ (to = "delayed" => r.made + 1 < MaxAttempts)
  OBVIOUS
<1>3. Failed(r) = [r EXCEPT !.made = r.made + 1, !.state = to]
  BY DEF Failed, Record
<1> HIDE DEF to
<1>4. /\ Failed(r) \in Record /\ Failed(r).stalls = r.stalls
      /\ Failed(r).state = to /\ Failed(r).made = r.made + 1
  BY <1>1, <1>2, <1>3 DEF Record, States
<1> QED
  BY <1>2, <1>4

LEMMA SettleNext ==
  ASSUME IndInv, Settle
  PROVE  IndInv'
<1>1. /\ worker.at \in {"stored", "skipped", "failed", "fatal"} /\ worker' = Idle
      /\ job \in JobType /\ JobInv
      /\ up' = up /\ turn' = turn /\ faults' = faults /\ stored' = stored
  BY Typed DEF IndInv, Settle
<1>2. PICK j : j = worker.job
  OBVIOUS
<1>3. j \in Jobs /\ job[j].state = "active" /\ job[j] \in Record
  BY <1>1, <1>2 DEF JobInv, JobType
<1>4. job[j].made < MaxAttempts /\ job[j].stalls <= MaxStalls
  BY <1>1, <1>3 DEF JobInv
<1>5. PICK r : /\ job' = [job EXCEPT ![j] = r]
               /\ \/ worker.at = "stored" /\ r = [job[j] EXCEPT !.state = "completed"]
                  \/ worker.at = "skipped" /\ r = [job[j] EXCEPT !.state = "off"]
                  \/ worker.at = "failed" /\ r = Failed(job[j])
                  \/ worker.at = "fatal" /\ r = [job[j] EXCEPT !.state = "failed"]
  <2>1. CASE worker.at = "stored"
    <3>1. job' = [job EXCEPT ![j] = [job[j] EXCEPT !.state = "completed"]]
      BY <1>1, <1>2, <1>3, <2>1 DEF Settle, JobType
    <3> QED
      BY <2>1, <3>1
  <2>2. CASE worker.at = "skipped"
    <3>1. job' = [job EXCEPT ![j] = [job[j] EXCEPT !.state = "off"]]
      BY <1>1, <1>2, <1>3, <2>2 DEF Settle, JobType
    <3> QED
      BY <2>2, <3>1
  <2>3. CASE worker.at = "failed"
    <3>1. job' = [job EXCEPT ![j] = Failed(job[j])]
      BY <1>1, <1>2, <1>3, <2>3 DEF Settle, JobType
    <3> QED
      BY <2>3, <3>1
  <2>4. CASE worker.at = "fatal"
    <3>1. job' = [job EXCEPT ![j] = [job[j] EXCEPT !.state = "failed"]]
      BY <1>1, <1>2, <1>3, <2>4 DEF Settle, JobType
    <3> QED
      BY <2>4, <3>1
  <2> QED
    BY <1>1, <2>1, <2>2, <2>3, <2>4
<1>6. /\ r \in Record
      /\ r.state \notin {"completed", "failed", "off"} => r.made < MaxAttempts
      /\ r.stalls <= MaxStalls
      /\ worker.at = "stored" => r.state = "completed"
  <2>1. CASE worker.at = "failed"
    BY <1>3, <1>4, <1>5, <2>1, FailedAgain
  <2>2. CASE worker.at # "failed"
    BY <1>3, <1>4, <1>5, <2>2 DEF Record, States
  <2> QED
    BY <2>1, <2>2
<1>7. job'[j] = r /\ \A i \in Jobs : i # j => job'[i] = job[i]
  BY <1>1, <1>3, <1>5 DEF JobType
<1>8. worker' \in Workers /\ worker'.at = "idle"
  BY <1>1 DEF Workers, Idle
<1>9. ASSUME NEW i \in Jobs, Done(i)
      PROVE  Done(i)'
  <2>1. CASE i = j
    <3>1. worker.at = "stored"
      BY <1>3, <1>9, <2>1 DEF Done
    <3> QED
      BY <1>6, <1>7, <2>1, <3>1 DEF Done
  <2>2. CASE i # j
    BY <1>2, <1>7, <1>9, <2>2 DEF Done
  <2> QED
    BY <2>1, <2>2
<1>10. job[j].state \in Counted
  BY <1>3 DEF Counted
<1> QED
  BY <1>1, <1>3, <1>5, <1>6, <1>8, <1>9, <1>10, QuietJobStep

\* A stall leaves a job that waits again, or one that has failed.
LEMMA StalledAgain ==
  ASSUME TypeOK, JobInv, NEW j \in Jobs, job[j].state = "active", Stalled(j)
  PROVE  \E r \in Record :
           /\ job' = [job EXCEPT ![j] = r]
           /\ r.state \in {"waiting", "failed"} /\ r.made = job[j].made /\ r.stalls = job[j].stalls + 1
           /\ r.made < MaxAttempts /\ (r.state # "failed" => r.stalls <= MaxStalls)
<1>1. job \in JobType
  BY Typed
<1>2. job[j] \in Record /\ job[j].made < MaxAttempts /\ job[j].stalls <= MaxStalls
  BY <1>1 DEF JobInv, JobType
<1> DEFINE to == IF job[j].stalls >= MaxStalls THEN "failed" ELSE "waiting"
           r  == [job[j] EXCEPT !.stalls = job[j].stalls + 1, !.state = to]
<1>3. job' = [job EXCEPT ![j] = r]
  BY <1>1 DEF Stalled, JobType
<1>4. job[j].stalls \in Nat /\ job[j].stalls + 1 \in 0 .. MaxStalls + 1 /\ job[j].made \in 0 .. MaxAttempts
  BY <1>2, QueueAssumption DEF Record
<1>5. to \in {"failed", "waiting"} /\ (to # "failed" => job[j].stalls + 1 <= MaxStalls)
  BY <1>4, QueueAssumption
<1> HIDE DEF to
<1>6. /\ r \in Record /\ r.state = to /\ r.made = job[j].made /\ r.stalls = job[j].stalls + 1
  BY <1>2, <1>4, <1>5 DEF Record, States
<1> HIDE DEF r
<1> QED
  BY <1>2, <1>3, <1>5, <1>6

LEMMA StallNext ==
  ASSUME IndInv, NEW j \in Jobs, Stall(j)
  PROVE  IndInv'
<1>1. /\ job[j].state = "active" /\ worker.job # j /\ job \in JobType /\ JobInv /\ worker \in Workers
      /\ TypeOK /\ Stalled(j)
      /\ up' = up /\ turn' = turn /\ faults' = faults /\ stored' = stored /\ worker' = worker
  BY Typed DEF IndInv, Stall
<1>3. PICK r \in Record :
        /\ job' = [job EXCEPT ![j] = r]
        /\ r.made < MaxAttempts /\ (r.state # "failed" => r.stalls <= MaxStalls)
  BY <1>1, StalledAgain
<1>7. job'[j] = r /\ \A i \in Jobs : i # j => job'[i] = job[i]
  BY <1>1, <1>3 DEF JobType
<1>8. \A i \in Jobs : Done(i) => Done(i)'
  BY <1>1, <1>7 DEF Done
<1>9. job[j].state \in Counted
  BY <1>1 DEF Counted
<1>10. worker'.at # "idle" => worker'.job \in Jobs /\ job'[worker'.job].state = "active"
  BY <1>1, <1>7 DEF JobInv
<1>11. worker'.at = "idle" => worker' = Idle
  BY <1>1 DEF JobInv
<1> QED
  BY <1>1, <1>3, <1>8, <1>9, <1>10, <1>11, QuietJobStep

\* The worker moves and no job does.
LEMMA WorkerStep ==
  ASSUME IndInv, job' = job, turn' = turn, worker' \in Workers, up' \in BOOLEAN,
         Fault \/ faults' = faults, stored' \in [Turns -> Nat], StoreInv',
         worker'.at # "idle" => worker'.job = worker.job /\ worker.at # "idle",
         worker'.at = "idle" => worker' = Idle,
         \A t \in Turns : stored'[t] # stored[t] => turn[t] \notin Unwritten
  PROVE  IndInv'
<1>1. /\ TypeOK /\ TurnInv /\ JobInv /\ DepthInv
      /\ turn \in [Turns -> Places] /\ job \in JobType /\ faults' \in 0 .. MaxFaults
  BY Typed, FaultType DEF IndInv
<1>2. TypeOK'
  BY <1>1, TypeNext
<1>3. JobInv'
  BY <1>1 DEF JobInv, Idle
<1>4. TurnInv'
  BY <1>1 DEF TurnInv
<1>5. DepthInv'
  <2>1. Handing' \subseteq Handing /\ Queued' \subseteq Queued /\ Adding' \subseteq Adding
    BY DEF Handing, Queued, Adding
  <2> QED
    BY <1>1, <2>1, DepthFrame
<1> QED
  BY <1>2, <1>3, <1>4, <1>5 DEF IndInv

LEMMA WriteNext ==
  ASSUME IndInv, Write
  PROVE  IndInv'
<1>1. /\ TypeOK /\ TurnInv /\ JobInv /\ StoreInv
      /\ worker \in Workers /\ job \in JobType /\ turn \in [Turns -> Places]
      /\ stored \in [Turns -> Nat] /\ faults \in Nat
      /\ worker.at = "write" /\ up \in BOOLEAN
      /\ up' = up /\ turn' = turn /\ job' = job
  BY Typed DEF IndInv, Write
<1>2. PICK j \in Jobs : j = worker.job /\ job[j].state = "active"
  BY <1>1 DEF JobInv
<1>3. PICK t \in Turns, k \in {1, 2} : j = <<t, k>>
  BY DEF Jobs
<1>4. turn[t] = "queued"
  <2>1. turn[t] \notin Unqueued
    BY <1>1, <1>2, <1>3 DEF TurnInv
  <2>2. turn[t] \in Places
    BY <1>1
  <2> QED
    BY <2>1, <2>2 DEF Places, Unqueued, Verdicts
<1>5. turn[t] \notin Unwritten /\ turn[t] # "inlined"
  BY <1>4 DEF Unwritten, HandingOver
<1>6. worker.job[1] = t
  BY <1>2, <1>3
<1>7. \/ /\ \E at \in {"fatal", "skipped", "failed"} : worker' = [worker EXCEPT !.at = at]
         /\ faults' = faults /\ stored' = stored
      \/ worker' = [worker EXCEPT !.at = "stored"] /\ Stores(t) /\ faults' = faults
      \/ worker' = [worker EXCEPT !.at = "failed"] /\ Stores(t) /\ Fault
  BY <1>6 DEF Write, Refused
<1>8. PICK at \in {"fatal", "skipped", "failed", "stored"} :
        /\ worker' = [worker EXCEPT !.at = at]
        /\ \/ at # "stored" /\ faults' = faults /\ stored' = stored
           \/ at = "stored" /\ Stores(t) /\ faults' = faults
           \/ at = "failed" /\ Stores(t) /\ Fault
  BY <1>7
<1>9. /\ worker' \in Workers /\ worker'.at = at /\ worker'.job = j
  BY <1>1, <1>2, <1>8 DEF Workers
<1>10. /\ stored' \in [Turns -> Nat]
       /\ \A u \in Turns : u # t => stored'[u] = stored[u]
       /\ \/ stored'[t] = stored[t]
          \/ stored'[t] = stored[t] + 1 /\ (at = "stored" \/ faults' = faults + 1)
  BY <1>1, <1>8 DEF Stores, Fault
<1>11. faults' \in Nat /\ faults' >= faults
  BY <1>1, <1>8 DEF Fault
<1>12. /\ \A i \in Jobs : Once(i) \in {0, 1} /\ Once(i)' \in {0, 1} /\ Once(i) <= Once(i)'
       /\ Once(j) = 0 /\ (at = "stored" => Once(j)' = 1)
  <2>1. ~Done(j) /\ (at = "stored" => Done(j)')
    BY <1>1, <1>2, <1>9 DEF Done
  <2>2. \A i \in Jobs : Done(i) => Done(i)'
    BY <1>1 DEF Done
  <2> QED
    BY <2>1, <2>2 DEF Once
<1>13. ASSUME NEW u \in Turns
       PROVE  IF turn'[u] = "inlined" THEN stored'[u] <= 1
              ELSE stored'[u] <= faults' + Once(<<u, 1>>)' + Once(<<u, 2>>)'
  <2>1. <<u, 1>> \in Jobs /\ <<u, 2>> \in Jobs
    BY DEF Jobs
  <2>2. CASE u # t
    BY <1>1, <1>10, <1>11, <1>12, <2>1, <2>2 DEF StoreInv
  <2>3. CASE u = t
    <3>1. turn'[u] # "inlined" /\ stored[u] <= faults + Once(<<u, 1>>) + Once(<<u, 2>>)
      BY <1>1, <1>5, <2>3 DEF StoreInv
    <3>2. stored[u] \in Nat
      BY <1>1
    <3>3. j = <<u, 1>> \/ j = <<u, 2>>
      BY <1>3, <2>3
    <3>4. /\ Once(<<u, 1>>) \in {0, 1} /\ Once(<<u, 1>>)' \in {0, 1} /\ Once(<<u, 1>>) <= Once(<<u, 1>>)'
          /\ Once(<<u, 2>>) \in {0, 1} /\ Once(<<u, 2>>)' \in {0, 1} /\ Once(<<u, 2>>) <= Once(<<u, 2>>)'
          /\ at = "stored" => \/ Once(<<u, 1>>) = 0 /\ Once(<<u, 1>>)' = 1
                              \/ Once(<<u, 2>>) = 0 /\ Once(<<u, 2>>)' = 1
      BY <1>12, <2>1, <3>3
    <3> QED
      BY <1>1, <1>10, <1>11, <2>3, <3>1, <3>2, <3>4
  <2> QED
    BY <2>2, <2>3
<1>14. StoreInv'
  BY <1>13 DEF StoreInv
<1>15. \A u \in Turns : stored'[u] # stored[u] => turn[u] \notin Unwritten
  BY <1>5, <1>10
<1> QED
  BY <1>1, <1>2, <1>8, <1>9, <1>10, <1>14, <1>15, WorkerStep

\* When the worker goes, what its job has stored is charged to the fault.
LEMMA StoreWithout ==
  ASSUME TypeOK, StoreInv, Fault, stored' = stored,
         \A t \in Turns : turn'[t] = "inlined" <=> turn[t] = "inlined",
         \A j \in Jobs : Done(j) => Done(j)' \/ worker.job = j
  PROVE  StoreInv'
<1>1. stored \in [Turns -> Nat] /\ faults \in Nat /\ faults' = faults + 1
  BY Typed DEF Fault
<1>2. ASSUME NEW t \in Turns
      PROVE  IF turn'[t] = "inlined" THEN stored'[t] <= 1
             ELSE stored'[t] <= faults' + Once(<<t, 1>>)' + Once(<<t, 2>>)'
  <2>1. /\ Once(<<t, 1>>) \in {0, 1} /\ Once(<<t, 1>>)' \in {0, 1}
        /\ Once(<<t, 2>>) \in {0, 1} /\ Once(<<t, 2>>)' \in {0, 1}
        /\ <<t, 1>> \in Jobs /\ <<t, 2>> \in Jobs
    BY DEF Once, Jobs
  <2>2. Once(<<t, 1>>) <= Once(<<t, 1>>)' \/ worker.job = <<t, 1>>
    BY <2>1 DEF Once
  <2>3. Once(<<t, 2>>) <= Once(<<t, 2>>)' \/ worker.job = <<t, 2>>
    BY <2>1 DEF Once
  <2>4. ~(worker.job = <<t, 1>> /\ worker.job = <<t, 2>>)
    OBVIOUS
  <2>5. stored[t] \in Nat
    BY <1>1
  <2> QED
    BY <1>1, <2>1, <2>2, <2>3, <2>4, <2>5 DEF StoreInv
<1> QED
  BY <1>2 DEF StoreInv

LEMMA CrashNext ==
  ASSUME IndInv, Crash
  PROVE  IndInv'
<1>1. /\ TypeOK /\ JobInv /\ TurnInv /\ StoreInv /\ DepthInv
      /\ stored \in [Turns -> Nat] /\ up \in BOOLEAN /\ turn \in [Turns -> Places] /\ job \in JobType
      /\ worker' = Idle /\ Fault /\ faults' \in 0 .. MaxFaults
      /\ up' = up /\ job' = job /\ stored' = stored
  BY Typed, FaultType DEF IndInv, Crash
<1>2. worker' \in Workers /\ worker'.at = "idle"
  BY <1>1 DEF Workers, Idle
<1>3. \A t \in Turns : turn'[t] = IF turn[t] \in HandingOver THEN "lost" ELSE turn[t]
  BY DEF Crash, Handing
<1>4. turn' \in [Turns -> Places]
  BY <1>1 DEF Crash, Places, Verdicts
<1>5. StoreInv'
  <2>1. \A t \in Turns : turn'[t] = "inlined" <=> turn[t] = "inlined"
    BY <1>3 DEF HandingOver
  <2>2. \A j \in Jobs : Done(j) => Done(j)' \/ worker.job = j
    BY <1>1 DEF Done
  <2> QED
    BY <1>1, <2>1, <2>2, StoreWithout
<1>6. TypeOK'
  BY <1>1, <1>2, <1>4, <1>5, TypeNext
<1>7. JobInv'
  BY <1>1, <1>2 DEF JobInv, Idle
<1>8. TurnInv'
  <2>1. \A t \in Turns : /\ turn'[t] \in Unqueued => turn[t] \in Unqueued
                         /\ turn'[t] \in Unwritten => turn[t] \in Unwritten
    BY <1>3 DEF Unqueued, Unwritten
  <2> QED
    BY <1>1, <2>1 DEF TurnInv
<1>9. DepthInv'
  <2>1. Handing' \subseteq Handing /\ Queued' \subseteq Queued /\ Adding' \subseteq Adding
    BY <1>1, <1>3 DEF Handing, Queued, Adding, HandingOver
  <2> QED
    BY <1>1, <2>1, DepthFrame
<1> QED
  BY <1>5, <1>6, <1>7, <1>8, <1>9 DEF IndInv

\* A job that is not unqueued any more has its turn queued.
LEMMA WorkersTurn ==
  ASSUME TypeOK, TurnInv, JobInv, worker.at # "idle"
  PROVE  \E t \in Turns, k \in {1, 2} :
           /\ worker.job = <<t, k>> /\ worker.job \in Jobs /\ job[<<t, k>>].state = "active"
           /\ turn[t] = "queued"
<1>1. worker.job \in Jobs /\ job[worker.job].state = "active" /\ turn \in [Turns -> Places]
  BY Typed DEF JobInv
<1>2. PICK t \in Turns, k \in {1, 2} : worker.job = <<t, k>>
  BY <1>1 DEF Jobs
<1>3. turn[t] \notin Unqueued /\ turn[t] \in Places
  BY <1>1, <1>2 DEF TurnInv
<1> QED
  BY <1>1, <1>2, <1>3 DEF Places, Unqueued, Verdicts

LEMMA LosesLockNext ==
  ASSUME IndInv, LosesLock
  PROVE  IndInv'
<1>1. /\ TypeOK /\ TurnInv /\ JobInv /\ StoreInv
      /\ stored \in [Turns -> Nat] /\ faults \in Nat /\ job \in JobType /\ worker.at # "idle"
      /\ worker' = Idle /\ Fault /\ faults' = faults + 1 /\ up' = up /\ turn' = turn
  BY Typed DEF IndInv, LosesLock, JobInv, Fault
<1>2. PICK t \in Turns, k \in {1, 2} :
        /\ worker.job = <<t, k>> /\ worker.job \in Jobs /\ job[<<t, k>>].state = "active"
        /\ turn[t] = "queued"
  BY <1>1, WorkersTurn
<1>3. PICK j \in Jobs : j = worker.job /\ j = <<t, k>>
  BY <1>2
<1>4. job[j].state = "active" /\ job[j].state \in Counted /\ Stalled(j)
  BY <1>2, <1>3 DEF Counted, LosesLock
<1>5. PICK r \in Record :
        /\ job' = [job EXCEPT ![j] = r] /\ r.state \in {"waiting", "failed"}
        /\ r.made < MaxAttempts /\ (r.state # "failed" => r.stalls <= MaxStalls)
  BY <1>1, <1>4, StalledAgain
<1>6. worker' \in Workers /\ worker'.at = "idle"
  BY <1>1 DEF Workers, Idle
<1>7. /\ stored' \in [Turns -> Nat]
      /\ \A u \in Turns : u # t => stored'[u] = stored[u]
      /\ stored'[t] = stored[t] \/ (worker.at = "write" /\ stored'[t] = stored[t] + 1)
  <2>1. worker.job[1] = t
    BY <1>2
  <2>2. stored' = stored \/ (worker.at = "write" /\ Stores(t))
    BY <2>1 DEF LosesLock
  <2> QED
    BY <1>1, <2>2 DEF Stores
<1>8. /\ \A i \in Jobs : Once(i) \in {0, 1} /\ Once(i)' \in {0, 1} /\ (i # j => Once(i)' = Once(i))
      /\ worker.at = "write" => Once(j) = 0
  <2>1. \A i \in Jobs : i # j => job'[i] = job[i]
    BY <1>5
  <2>2. \A i \in Jobs : i # j => (Done(i)' <=> Done(i))
    BY <1>1, <1>3, <1>6, <2>1 DEF Done
  <2>3. worker.at = "write" => ~Done(j)
    BY <1>4 DEF Done
  <2> QED
    BY <2>2, <2>3 DEF Once
<1>9. ASSUME NEW u \in Turns
      PROVE  IF turn'[u] = "inlined" THEN stored'[u] <= 1
             ELSE stored'[u] <= faults' + Once(<<u, 1>>)' + Once(<<u, 2>>)'
  <2>1. <<u, 1>> \in Jobs /\ <<u, 2>> \in Jobs
    BY DEF Jobs
  <2>2. CASE u # t
    <3>1. <<u, 1>> # j /\ <<u, 2>> # j /\ stored'[u] = stored[u] /\ stored[u] \in Nat
      BY <1>1, <1>3, <1>7, <2>2
    <3> QED
      BY <1>1, <1>8, <2>1, <3>1 DEF StoreInv
  <2>3. CASE u = t
    <3>1. turn'[u] # "inlined" /\ stored[u] <= faults + Once(<<u, 1>>) + Once(<<u, 2>>)
      BY <1>1, <1>2, <2>3 DEF StoreInv
    <3>2. /\ stored[u] \in Nat
          /\ stored'[u] = stored[u] \/ (worker.at = "write" /\ stored'[u] = stored[u] + 1)
      BY <1>1, <1>7, <2>3
    <3>3. (j = <<u, 1>> /\ j # <<u, 2>>) \/ (j = <<u, 2>> /\ j # <<u, 1>>)
      BY <1>3, <2>3
    <3>4. /\ Once(<<u, 1>>) \in {0, 1} /\ Once(<<u, 1>>)' \in {0, 1}
          /\ Once(<<u, 2>>) \in {0, 1} /\ Once(<<u, 2>>)' \in {0, 1}
          /\ \/ Once(<<u, 2>>)' = Once(<<u, 2>>) /\ (worker.at = "write" => Once(<<u, 1>>) = 0)
             \/ Once(<<u, 1>>)' = Once(<<u, 1>>) /\ (worker.at = "write" => Once(<<u, 2>>) = 0)
      BY <1>8, <2>1, <3>3
    <3> QED
      BY <1>1, <3>1, <3>2, <3>4
  <2> QED
    BY <2>2, <2>3
<1>10. StoreInv'
  BY <1>9 DEF StoreInv
<1>11. \A u \in Turns : stored'[u] # stored[u] => turn[u] \notin Unwritten
  BY <1>2, <1>7 DEF Unwritten, HandingOver
<1> QED
  BY <1>1, <1>4, <1>5, <1>6, <1>7, <1>10, <1>11, JobStep

\* The connection goes and comes, or nothing happens.
LEMMA LinkNext ==
  ASSUME IndInv, GoesDown \/ ComesUp \/ UNCHANGED vars
  PROVE  IndInv'
<1>1. /\ TypeOK /\ JobInv /\ StoreInv /\ stored \in [Turns -> Nat] /\ worker \in Workers /\ up \in BOOLEAN
  BY Typed DEF IndInv
<1>2. /\ turn' = turn /\ job' = job /\ worker' = worker /\ stored' = stored
      /\ Fault \/ faults' = faults
  BY DEF GoesDown, ComesUp, vars
<1>3. up' \in BOOLEAN
  BY <1>1 DEF GoesDown, ComesUp, vars
<1>4. \A j \in Jobs : Done(j) => Done(j)'
  BY <1>2 DEF Done
<1>5. StoreInv'
  BY <1>1, <1>2, <1>4, StoreFrame
<1>6. worker'.at = "idle" => worker' = Idle
  BY <1>1, <1>2 DEF JobInv
<1> QED
  BY <1>1, <1>2, <1>3, <1>5, <1>6, WorkerStep

-----------------------------------------------------------------------------
(***************************************************************************)
(* The invariant and what follows from it.                                 *)
(***************************************************************************)
LEMMA IndInit ==
  Init => IndInv
<1> SUFFICES ASSUME Init PROVE IndInv
  OBVIOUS
<1>1. /\ turn = [t \in Turns |-> "idle"] /\ stored = [t \in Turns |-> 0]
      /\ job = [j \in Jobs |-> [state |-> "absent", made |-> 0, stalls |-> 0]]
      /\ worker = Idle /\ faults = 0 /\ up = TRUE
  BY DEF Init
<1>2. TypeOK
  <2>1. turn \in [Turns -> {"idle"} \cup HandingOver \cup Verdicts] /\ worker \in Workers
    BY <1>1 DEF Idle, Workers
  <2>2. 0 \in 0 .. MaxAttempts /\ 0 \in 0 .. MaxStalls + 1 /\ 0 \in 0 .. MaxFaults /\ 0 \in 0 .. 2 + MaxFaults
    BY QueueAssumption
  <2>3. [state |-> "absent", made |-> 0, stalls |-> 0] \in Record
    BY <2>2 DEF Record, States
  <2> QED
    BY <1>1, <2>1, <2>2, <2>3 DEF TypeOK, Record, States, Workers
<1>3. TurnInv /\ JobInv
  BY <1>1, QueueAssumption DEF TurnInv, JobInv, Jobs, Idle
<1>4. StoreInv
  <2>1. \A j \in Jobs : ~Done(j)
    BY <1>1 DEF Done, Idle
  <2>2. \A t \in Turns : Once(<<t, 1>>) = 0 /\ Once(<<t, 2>>) = 0
    BY <2>1 DEF Once, Jobs
  <2>3. \A t \in Turns : stored[t] = 0 /\ turn[t] = "idle" /\ faults = 0
    BY <1>1
  <2>4. 0 <= 0 + 0 + 0
    OBVIOUS
  <2>5. \A t \in Turns : stored[t] <= faults + Once(<<t, 1>>) + Once(<<t, 2>>)
    BY <2>2, <2>3, <2>4
  <2> QED
    BY <2>3, <2>5 DEF StoreInv
<1>5. DepthInv
  <2>1. Handing = {} /\ Adding = {} /\ Queued = {}
    BY <1>1 DEF Handing, Adding, Queued, HandingOver, Counted
  <2>2. Cardinality({}) = 0
    BY FS_EmptySet
  <2> QED
    BY <1>1, <2>1, <2>2, QueueAssumption DEF DepthInv
<1> QED
  BY <1>2, <1>3, <1>4, <1>5 DEF IndInv

LEMMA IndStep ==
  IndInv /\ [Next]_vars => IndInv'
<1> SUFFICES ASSUME IndInv, [Next]_vars PROVE IndInv'
  OBVIOUS
<1>1. CASE ComesUp \/ GoesDown \/ UNCHANGED vars
  BY <1>1, LinkNext
<1>2. CASE Crash \/ LosesLock
  BY <1>2, CrashNext, LosesLockNext
<1>3. CASE Work
  BY <1>3, WriteNext, SettleNext, TakeNext, StallNext DEF Work
<1>4. ASSUME NEW t \in Turns, HandOver(t)
      PROVE  IndInv'
  BY <1>4, BeginNext, StatusNext, CheckDepthNext, AddNext, InlineNext DEF HandOver
<1> QED
  BY <1>1, <1>2, <1>3, <1>4 DEF Next

\* IndInv holds in every state: the turns, their jobs and the worker agree.
THEOREM Inductive == Spec => []IndInv
<1> QED
  BY IndInit, IndStep, PTL DEF Spec

\* Type correctness of the queue and the requests.
THEOREM QueueTypes == Spec => []TypeOK
<1>1. IndInv => TypeOK
  BY DEF IndInv
<1> QED
  BY <1>1, Inductive, PTL

\* However many requests read the depth before any of them adds, the queue exceeds
\* MEMORY_QUEUE_MAX_DEPTH by less than their number, and by one for each fault.
THEOREM DepthIsBounded == Spec => []DepthBound
<1>1. IndInv => DepthBound
  <2> SUFFICES ASSUME IndInv PROVE DepthBound
    OBVIOUS
  <2>1. {j \in Jobs : job[j].state \in {"waiting", "delayed", "active"}} = Queued
    BY DEF Queued, Counted
  <2>2. Pending = Cardinality(Queued)
    BY <2>1 DEF Pending
  <2>3. faults \in Nat /\ Cardinality(Queued) + Cardinality(Adding) <= MaxDepth + Writers - 1 + faults
    BY Typed DEF IndInv, DepthInv
  <2> QED
    BY <2>2, <2>3, Counts, QueueAssumption DEF DepthBound
<1> QED
  BY <1>1, Inductive, PTL

-----------------------------------------------------------------------------
(***************************************************************************)
(* Why ExtraWritesArePaid holds.  StoreInv bounds the writes of each turn  *)
(* by all the faults; that all turns share one budget needs an account     *)
(* that no step can raise for nothing.  A turn holds a token for each of   *)
(* its writes and for each job that may still write: a job spends its      *)
(* token on its write, and every token beyond the first of a turn was      *)
(* bought with a fault.                                                    *)
(***************************************************************************)
Open(j)   == IF job[j].state = "absent" \/ Done(j) THEN 0 ELSE 1
Tokens(t) == stored[t] + Open(<<t, 1>>) + Open(<<t, 2>>)
Bought    == {w \in Turns \X (2 .. 4 + MaxFaults) : w[2] <= Tokens(w[1])}

PaidInv == Cardinality(Bought) <= faults

\* A job that is over, or about to be, has written its turn.
WrittenInv == \A t \in Turns, k \in {1, 2} : Done(<<t, k>>) => stored[t] > 0

LEMMA OpenType ==
  \A j : Open(j) \in {0, 1} /\ Open(j)' \in {0, 1}
BY DEF Open

LEMMA BoughtFinite == IsFiniteSet(Bought) /\ Cardinality(Bought) \in Nat
<1>1. IsFiniteSet(2 .. 4 + MaxFaults)
  BY FS_Interval, QueueAssumption
<1>2. IsFiniteSet(Turns \X (2 .. 4 + MaxFaults))
  BY <1>1, FS_Product, QueueAssumption
<1>3. Bought \subseteq Turns \X (2 .. 4 + MaxFaults)
  BY DEF Bought
<1>4. IsFiniteSet(Bought)
  BY <1>2, <1>3, FS_Subset
<1> QED
  BY <1>4, FS_CardinalityType

\* A turn with one token at most, or with no more than it had, has bought nothing.
Free(t) == Tokens(t)' <= 1 \/ Tokens(t)' <= Tokens(t)

LEMMA NothingBought ==
  ASSUME TypeOK, TypeOK', PaidInv, Fault \/ faults' = faults, \A t \in Turns : Free(t)
  PROVE  PaidInv'
<1>1. Bought' \subseteq Bought
  <2> SUFFICES ASSUME NEW w \in Turns \X (2 .. 4 + MaxFaults), w[2] <= Tokens(w[1])'
               PROVE  w[2] <= Tokens(w[1])
    BY DEF Bought
  <2>1. PICK t \in Turns, n \in 2 .. 4 + MaxFaults : w = <<t, n>>
    OBVIOUS
  <2>2. stored[t] \in Nat /\ stored'[t] \in Nat
    BY QueueAssumption DEF TypeOK
  <2>3. Tokens(t) \in Nat /\ Tokens(t)' \in Nat
    <3>1. /\ Open(<<t, 1>>) \in {0, 1} /\ Open(<<t, 2>>) \in {0, 1}
          /\ Open(<<t, 1>>)' \in {0, 1} /\ Open(<<t, 2>>)' \in {0, 1}
      BY OpenType
    <3> QED
      BY <2>2, <3>1 DEF Tokens
  <2>4. n <= Tokens(t)' /\ (Tokens(t)' <= 1 \/ Tokens(t)' <= Tokens(t))
    BY <2>1 DEF Free
  <2>5. n \in Nat /\ 2 <= n
    BY QueueAssumption
  <2>6. n <= Tokens(t)
    BY <2>3, <2>4, <2>5
  <2> QED
    BY <2>1, <2>6
<1>2. faults \in Nat /\ faults' \in Nat /\ faults <= faults'
  BY FaultType, Typed
<1>3. Cardinality(Bought') <= Cardinality(Bought)
  BY <1>1, BoughtFinite, FS_Subset
<1>4. Cardinality(Bought') \in Nat
  BY <1>1, BoughtFinite, FS_Subset, FS_CardinalityType
<1> QED
  BY <1>2, <1>3, <1>4, BoughtFinite DEF PaidInv

\* A fault buys one turn one token: its second, or one more.
LEMMA OneBought ==
  ASSUME TypeOK, TypeOK', PaidInv, Fault, NEW t \in Turns,
         Tokens(t)' <= 2 \/ Tokens(t)' <= Tokens(t) + 1,
         \A u \in Turns \ {t} : Free(u)
  PROVE  PaidInv'
<1>1. PICK x : x = <<t, IF Tokens(t) = 0 THEN 2 ELSE Tokens(t) + 1>>
  OBVIOUS
<1>2. Bought' \subseteq Bought \cup {x}
  <2> SUFFICES ASSUME NEW w \in Turns \X (2 .. 4 + MaxFaults), w[2] <= Tokens(w[1])',
                      ~ (w[2] <= Tokens(w[1]))
               PROVE  w = x
    BY DEF Bought
  <2>1. PICK u \in Turns, n \in 2 .. 4 + MaxFaults : w = <<u, n>>
    OBVIOUS
  <2>2. stored[u] \in Nat /\ stored'[u] \in Nat
    BY QueueAssumption DEF TypeOK
  <2>3. Tokens(u) \in Nat /\ Tokens(u)' \in Nat
    <3>1. /\ Open(<<u, 1>>) \in {0, 1} /\ Open(<<u, 2>>) \in {0, 1}
          /\ Open(<<u, 1>>)' \in {0, 1} /\ Open(<<u, 2>>)' \in {0, 1}
      BY OpenType
    <3> QED
      BY <2>2, <3>1 DEF Tokens
  <2>4. n <= Tokens(u)' /\ ~ (n <= Tokens(u)) /\ n \in Nat /\ 2 <= n
    BY <2>1, QueueAssumption
  <2>5. u = t
    <3>1. ~ (Tokens(u)' <= 1 \/ Tokens(u)' <= Tokens(u))
      BY <2>3, <2>4
    <3> QED
      BY <3>1 DEF Free
  <2>6. n = IF Tokens(t) = 0 THEN 2 ELSE Tokens(t) + 1
    BY <2>3, <2>4, <2>5
  <2> QED
    BY <1>1, <2>1, <2>5, <2>6
<1>3. faults \in Nat /\ faults' = faults + 1
  BY Typed DEF Fault
<1>4. Cardinality(Bought') <= Cardinality(Bought) + 1
  BY <1>2, BoughtFinite, Grow
<1>5. Cardinality(Bought') \in Nat
  <2>1. IsFiniteSet(Bought \cup {x})
    BY BoughtFinite, FS_AddElement
  <2> QED
    BY <1>2, <2>1, FS_Subset, FS_CardinalityType
<1> QED
  BY <1>3, <1>4, <1>5, BoughtFinite DEF PaidInv

(***************************************************************************)
(* The account of a step, action by action.                                *)
(***************************************************************************)
\* A turn that is not written, and of which no job may write more than before.
LEMMA KeepsTokens ==
  ASSUME TypeOK, NEW t \in Turns, stored'[t] = stored[t],
         \A k \in {1, 2} : Open(<<t, k>>)' <= Open(<<t, k>>)
  PROVE  Free(t)
<1>1. /\ Open(<<t, 1>>)' <= Open(<<t, 1>>) /\ Open(<<t, 2>>)' <= Open(<<t, 2>>)
      /\ Open(<<t, 1>>) \in {0, 1} /\ Open(<<t, 2>>) \in {0, 1}
      /\ Open(<<t, 1>>)' \in {0, 1} /\ Open(<<t, 2>>)' \in {0, 1}
  BY OpenType
<1>2. stored[t] \in Nat /\ Tokens(t)' = stored[t] + Open(<<t, 1>>)' + Open(<<t, 2>>)'
  BY Typed DEF Tokens
<1> QED
  BY <1>1, <1>2 DEF Free, Tokens

\* A step that touches neither job, worker nor the sidecar.
LEMMA StillPaid ==
  ASSUME IndInv, TypeOK', PaidInv, WrittenInv,
         Fault \/ faults' = faults, job' = job, worker' = worker, stored' = stored
  PROVE  PaidInv' /\ WrittenInv'
<1>1. \A j : Open(j)' = Open(j) /\ Done(j)' = Done(j)
  BY DEF Open, Done
<1>2. \A t \in Turns : Free(t)
  <2> TAKE t \in Turns
  <2>1. \A k \in {1, 2} : Open(<<t, k>>)' <= Open(<<t, k>>)
    <3> TAKE k \in {1, 2}
    <3>1. Open(<<t, k>>)' = Open(<<t, k>>) /\ Open(<<t, k>>) \in {0, 1}
      BY <1>1, OpenType
    <3> QED
      BY <3>1
  <2> QED
    BY <2>1, KeepsTokens DEF IndInv
<1>3. PaidInv'
  BY <1>2, NothingBought DEF IndInv
<1> QED
  BY <1>1, <1>3 DEF WrittenInv

\* A turn that is being added or written inline has no token yet.
LEMMA NoToken ==
  ASSUME IndInv, NEW t \in Turns, turn[t] \in {"add", "inline"}
  PROVE  /\ stored[t] = 0 /\ job[<<t, 1>>].state = "absent" /\ job[<<t, 2>>].state = "absent"
         /\ worker.at # "idle" => worker.job # <<t, 1>> /\ worker.job # <<t, 2>>
<1>1. turn[t] \in Unqueued /\ turn[t] \in Unwritten
  BY DEF Unqueued, Unwritten, HandingOver
<1>2. stored[t] = 0 /\ job[<<t, 1>>].state = "absent" /\ job[<<t, 2>>].state = "absent"
  BY <1>1 DEF IndInv, TurnInv
<1>3. worker.at # "idle" => job[worker.job].state = "active"
  BY DEF IndInv, JobInv
<1> QED
  BY <1>2, <1>3

\* The first add gives a turn its first token; a second one is a fault.
LEMMA AddPaid ==
  ASSUME IndInv, TypeOK', PaidInv, WrittenInv, NEW t \in Turns, Add(t)
  PROVE  PaidInv' /\ WrittenInv'
<1>1. /\ turn[t] = "add" /\ worker' = worker /\ stored' = stored
      /\ TypeOK /\ job \in JobType
  BY Typed DEF Add, IndInv
<1>2. stored[t] = 0 /\ job[<<t, 1>>].state = "absent" /\ job[<<t, 2>>].state = "absent"
  BY <1>1, NoToken
<1>3. ASSUME NEW J \in SUBSET {<<t, 1>>, <<t, 2>>}, Enqueue(J)
      PROVE  /\ \A j \in Jobs : j \notin J => job'[j] = job[j]
             /\ \A j \in J : job'[j].state = "waiting"
  <2>1. J \subseteq Jobs
    BY DEF Jobs
  <2>2. \A j \in J : job[j] \in Record
    BY <1>1, <2>1 DEF JobType
  <2> QED
    BY <1>3, <2>1, <2>2 DEF Enqueue, Record
<1>4. ASSUME NEW J \in SUBSET {<<t, 1>>, <<t, 2>>}, Enqueue(J)
      PROVE  /\ \A u \in Turns \ {t} : Free(u)
             /\ WrittenInv'
             /\ \A k \in {1, 2} : <<t, k>> \notin J => Open(<<t, k>>)' = 0
  <2>1. \A u \in Turns \ {t}, k \in {1, 2} : job'[<<u, k>>] = job[<<u, k>>]
    BY <1>3, <1>4 DEF Jobs
  <2>2. \A u \in Turns \ {t}, k \in {1, 2} :
          Done(<<u, k>>)' = Done(<<u, k>>) /\ Open(<<u, k>>)' = Open(<<u, k>>)
    BY <1>1, <2>1 DEF Done, Open
  <2>3. \A u \in Turns \ {t} : Free(u)
    <3> TAKE u \in Turns \ {t}
    <3>1. \A k \in {1, 2} : Open(<<u, k>>)' <= Open(<<u, k>>)
      <4> TAKE k \in {1, 2}
      <4>1. Open(<<u, k>>)' = Open(<<u, k>>) /\ Open(<<u, k>>) \in {0, 1}
        BY <2>2, OpenType
      <4> QED
        BY <4>1
    <3> QED
      BY <1>1, <3>1, KeepsTokens
  <2>4. \A k \in {1, 2} : ~Done(<<t, k>>)'
    <3> TAKE k \in {1, 2}
    <3>1. job'[<<t, k>>].state \in {"waiting", "absent"}
      BY <1>2, <1>3, <1>4 DEF Jobs
    <3>2. ~ (worker.job = <<t, k>> /\ worker.at = "stored")
      BY <1>1, NoToken
    <3> QED
      BY <1>1, <3>1, <3>2 DEF Done
  <2>5. \A k \in {1, 2} : <<t, k>> \notin J => Open(<<t, k>>)' = 0
    BY <1>2, <1>3, <1>4 DEF Jobs, Open
  <2>6. WrittenInv'
    BY <1>1, <2>2, <2>4 DEF WrittenInv
  <2> QED
    BY <2>3, <2>5, <2>6
<1>5. /\ Open(<<t, 1>>)' \in {0, 1} /\ Open(<<t, 2>>)' \in {0, 1}
      /\ Tokens(t)' = 0 + Open(<<t, 1>>)' + Open(<<t, 2>>)'
  BY <1>1, <1>2, OpenType DEF Tokens
<1>6. CASE Enqueue({<<t, 1>>}) /\ UNCHANGED faults
  <2>1. <<t, 2>> \notin {<<t, 1>>}
    OBVIOUS
  <2>2. (\A u \in Turns \ {t} : Free(u)) /\ WrittenInv' /\ Open(<<t, 2>>)' = 0
    BY <1>4, <1>6, <2>1
  <2>3. Tokens(t)' <= 1
    BY <1>5, <2>2
  <2>4. \A u \in Turns : Free(u)
    BY <2>2, <2>3 DEF Free
  <2> QED
    BY <1>1, <1>6, <2>2, <2>4, NothingBought
<1>7. CASE Enqueue({<<t, 1>>, <<t, 2>>}) /\ Fault
  <2>1. (\A u \in Turns \ {t} : Free(u)) /\ WrittenInv'
    BY <1>4, <1>7
  <2>2. Tokens(t)' <= 2
    BY <1>5
  <2> QED
    BY <1>1, <1>7, <2>1, <2>2, OneBought
<1>8. CASE Fault /\ UNCHANGED job
  BY <1>1, <1>8, StillPaid
<1> QED
  BY <1>6, <1>7, <1>8 DEF Add

\* An inline write is the first of its turn.
LEMMA InlinePaid ==
  ASSUME IndInv, TypeOK', PaidInv, WrittenInv, NEW t \in Turns, Inline(t)
  PROVE  PaidInv' /\ WrittenInv'
<1>1. /\ turn[t] = "inline" /\ job' = job /\ worker' = worker /\ faults' = faults
      /\ stored' = stored \/ stored' = [stored EXCEPT ![t] = @ + 1]
      /\ TypeOK /\ stored \in [Turns -> Nat]
  BY Typed DEF Inline, Stores, IndInv
<1>2. stored[t] = 0 /\ job[<<t, 1>>].state = "absent" /\ job[<<t, 2>>].state = "absent"
  BY <1>1, NoToken
<1>3. \A j : Open(j)' = Open(j) /\ Done(j)' = Done(j)
  BY <1>1 DEF Open, Done
<1>4. stored'[t] \in {0, 1} /\ \A u \in Turns \ {t} : stored'[u] = stored[u]
  BY <1>1, <1>2
<1>5. Open(<<t, 1>>)' = 0 /\ Open(<<t, 2>>)' = 0
  BY <1>1, <1>2 DEF Open
<1>6. Tokens(t)' <= 1
  BY <1>4, <1>5 DEF Tokens
<1>7. \A u \in Turns \ {t} : Free(u)
  <2> TAKE u \in Turns \ {t}
  <2>1. \A k \in {1, 2} : Open(<<u, k>>)' <= Open(<<u, k>>)
    <3> TAKE k \in {1, 2}
    <3>1. Open(<<u, k>>)' = Open(<<u, k>>) /\ Open(<<u, k>>) \in {0, 1}
      BY <1>3, OpenType
    <3> QED
      BY <3>1
  <2> QED
    BY <1>1, <1>4, <2>1, KeepsTokens
<1>8. \A u \in Turns : Free(u)
  BY <1>6, <1>7 DEF Free
<1>9. WrittenInv'
  <2> SUFFICES ASSUME NEW u \in Turns, NEW k \in {1, 2}, Done(<<u, k>>) PROVE stored'[u] > 0
    BY <1>3 DEF WrittenInv
  <2>1. stored[u] > 0
    BY DEF WrittenInv
  <2> QED
    BY <1>2, <1>4, <2>1
<1> QED
  BY <1>1, <1>8, <1>9, NothingBought

\* A step of the worker or the queue that writes nothing: jobs that are open stay
\* open or end, and none is done that was not.
LEMMA NoJobOpens ==
  ASSUME IndInv, TypeOK', PaidInv, WrittenInv, Fault \/ faults' = faults, stored' = stored,
         \A j \in Jobs : Open(j) = 1 \/ Open(j)' = 0 \/ (Open(j)' = Open(j)),
         \A j \in Jobs : Done(j)' => Done(j)
  PROVE  PaidInv' /\ WrittenInv'
<1>1. \A t \in Turns : Free(t)
  <2> TAKE t \in Turns
  <2>1. \A k \in {1, 2} : Open(<<t, k>>)' <= Open(<<t, k>>)
    <3> TAKE k \in {1, 2}
    <3>1. Open(<<t, k>>) = 1 \/ Open(<<t, k>>)' = 0 \/ (Open(<<t, k>>)' = Open(<<t, k>>))
      BY DEF Jobs
    <3>2. Open(<<t, k>>) \in {0, 1} /\ Open(<<t, k>>)' \in {0, 1}
      BY OpenType
    <3> QED
      BY <3>1, <3>2
  <2> QED
    BY <2>1, KeepsTokens DEF IndInv
<1>2. PaidInv'
  BY <1>1, NothingBought DEF IndInv
<1>3. \A t \in Turns, k \in {1, 2} : Done(<<t, k>>)' => Done(<<t, k>>)
  BY DEF Jobs
<1> QED
  BY <1>2, <1>3 DEF WrittenInv

LEMMA TakePaid ==
  ASSUME IndInv, TypeOK', PaidInv, WrittenInv, NEW j \in Jobs, Take(j)
  PROVE  PaidInv' /\ WrittenInv'
<1>1. /\ worker = Idle /\ worker' = [job |-> j, at |-> "write"]
      /\ job[j].state \in {"waiting", "delayed"} /\ job' = [job EXCEPT ![j].state = "active"]
      /\ faults' = faults /\ stored' = stored /\ job \in JobType
  BY Typed DEF Take, IndInv
<1>2. \A i \in Jobs \ {j} : job'[i] = job[i]
  BY <1>1
<1>3. job'[j].state = "active"
  BY <1>1 DEF JobType, Record
<1>4. \A i \in Jobs : Done(i)' => Done(i)
  BY <1>1, <1>2, <1>3 DEF Done
<1>5. Open(j) = 1
  BY <1>1 DEF Open, Done, Idle
<1>6. \A i \in Jobs \ {j} : Open(i)' = Open(i)
  BY <1>1, <1>2 DEF Open, Done, Idle
<1> QED
  BY <1>1, <1>4, <1>5, <1>6, NoJobOpens

LEMMA StallPaid ==
  ASSUME IndInv, TypeOK', PaidInv, WrittenInv, NEW j \in Jobs, Stall(j)
  PROVE  PaidInv' /\ WrittenInv'
<1>1. /\ worker' = worker /\ worker.job # j /\ job[j].state = "active" /\ Stalled(j)
      /\ faults' = faults /\ stored' = stored /\ job \in JobType /\ TypeOK /\ JobInv
  BY Typed DEF Stall, IndInv
<1>2. PICK r \in Record : job' = [job EXCEPT ![j] = r] /\ r.state \in {"waiting", "failed"}
  BY <1>1, StalledAgain
<1>3. job'[j].state \in {"waiting", "failed"} /\ \A i \in Jobs \ {j} : job'[i] = job[i]
  BY <1>1, <1>2 DEF JobType
<1>4. \A i \in Jobs : Done(i)' => Done(i)
  BY <1>1, <1>3 DEF Done
<1>5. Open(j) = 1
  BY <1>1 DEF Open, Done
<1>6. \A i \in Jobs \ {j} : Open(i)' = Open(i)
  BY <1>1, <1>3 DEF Open, Done
<1> QED
  BY <1>1, <1>4, <1>5, <1>6, NoJobOpens

LEMMA SettlePaid ==
  ASSUME IndInv, TypeOK', PaidInv, WrittenInv, Settle
  PROVE  PaidInv' /\ WrittenInv'
<1>1. /\ worker.at \in {"stored", "skipped", "failed", "fatal"} /\ worker' = Idle
      /\ faults' = faults /\ stored' = stored /\ job \in JobType /\ JobInv
  BY Typed DEF Settle, IndInv
<1>2. PICK j : j = worker.job
  OBVIOUS
<1>3. j \in Jobs /\ job[j].state = "active" /\ job[j] \in Record
  BY <1>1, <1>2 DEF JobInv, JobType
<1>4. PICK r : job' = [job EXCEPT ![j] = r]
  BY <1>2 DEF Settle
<1>5. \A i \in Jobs \ {j} : job'[i] = job[i]
  BY <1>1, <1>4
<1>6. CASE worker.at = "stored"
  <2>1. job' = [job EXCEPT ![j] = [job[j] EXCEPT !.state = "completed"]]
    BY <1>1, <1>2, <1>3, <1>6 DEF Settle, JobType
  <2>2. job'[j].state = "completed"
    BY <1>1, <1>3, <2>1 DEF JobType, Record
  <2>3. Done(j) /\ Done(j)'
    BY <1>2, <1>6, <2>2 DEF Done
  <2>4. \A i \in Jobs \ {j} : Done(i)' = Done(i)
    BY <1>1, <1>2, <1>5 DEF Done, Idle
  <2>5. Open(j)' = 0 /\ \A i \in Jobs \ {j} : Open(i)' = Open(i)
    BY <1>5, <2>3, <2>4 DEF Open
  <2> QED
    BY <1>1, <2>3, <2>4, <2>5, NoJobOpens
<1>7. CASE worker.at # "stored"
  <2>1. job'[j].state # "completed"
    <3>1. CASE worker.at = "skipped"
      <4>1. job' = [job EXCEPT ![j] = [job[j] EXCEPT !.state = "off"]]
        BY <1>1, <1>2, <1>3, <3>1 DEF Settle, JobType
      <4> QED
        BY <1>1, <1>3, <4>1 DEF JobType, Record
    <3>2. CASE worker.at = "failed"
      <4>1. job' = [job EXCEPT ![j] = Failed(job[j])]
        BY <1>1, <1>2, <1>3, <3>2 DEF Settle, JobType
      <4>2. job'[j] = Failed(job[j])
        BY <1>1, <1>3, <4>1 DEF JobType
      <4>3. Failed(job[j]).state \in {"delayed", "failed"}
        BY <1>3 DEF Failed, Record
      <4> QED
        BY <4>2, <4>3
    <3>3. CASE worker.at = "fatal"
      <4>1. job' = [job EXCEPT ![j] = [job[j] EXCEPT !.state = "failed"]]
        BY <1>1, <1>2, <1>3, <3>3 DEF Settle, JobType
      <4> QED
        BY <1>1, <1>3, <4>1 DEF JobType, Record
    <3> QED
      BY <1>1, <1>7, <3>1, <3>2, <3>3
  <2>2. \A i \in Jobs : Done(i)' => Done(i)
    BY <1>1, <1>5, <2>1 DEF Done, Idle
  <2>3. Open(j) = 1
    BY <1>3, <1>7 DEF Open, Done
  <2>4. \A i \in Jobs \ {j} : Open(i)' = Open(i)
    BY <1>1, <1>2, <1>5 DEF Open, Done, Idle
  <2> QED
    BY <1>1, <2>2, <2>3, <2>4, NoJobOpens
<1> QED
  BY <1>6, <1>7

\* A write spends the token of its job; one whose answer is lost is a fault.
LEMMA WritePaid ==
  ASSUME IndInv, TypeOK', PaidInv, WrittenInv, Write
  PROVE  PaidInv' /\ WrittenInv'
<1>1. /\ worker.at = "write" /\ job' = job /\ job \in JobType /\ JobInv
      /\ worker \in Workers /\ stored \in [Turns -> Nat] /\ TypeOK
  BY Typed DEF Write, IndInv
<1>2. PICK j \in Jobs : j = worker.job /\ job[j].state = "active"
  BY <1>1 DEF JobInv
<1>3. PICK t \in Turns, m \in {1, 2} : j = <<t, m>>
  BY DEF Jobs
<1>4. worker.job[1] = t
  BY <1>2, <1>3
<1>5. Open(j) = 1 /\ ~Done(j)
  BY <1>1, <1>2 DEF Open, Done
<1>6. ASSUME NEW at, worker' = [worker EXCEPT !.at = at]
      PROVE  /\ \A i \in Jobs \ {j} : Done(i)' = Done(i) /\ Open(i)' = Open(i)
             /\ at = "stored" => Done(j)' /\ Open(j)' = 0
             /\ at # "stored" => ~Done(j)' /\ Open(j)' = 1
  <2>1. worker'.job = j /\ worker'.at = at
    BY <1>1, <1>2, <1>6 DEF Workers
  <2> QED
    BY <1>1, <1>2, <2>1 DEF Done, Open
<1>7. ASSUME NEW at \in {"fatal", "skipped", Refused},
             worker' = [worker EXCEPT !.at = at], UNCHANGED <<faults, stored>>
      PROVE  PaidInv' /\ WrittenInv'
  <2>1. at # "stored"
    BY DEF Refused
  <2>2. /\ \A i \in Jobs \ {j} : Done(i)' = Done(i) /\ Open(i)' = Open(i)
        /\ ~Done(j)' /\ Open(j)' = 1
    BY <1>6, <1>7, <2>1
  <2> QED
    BY <1>5, <1>7, <2>2, NoJobOpens
<1>8. ASSUME Stores(t)
      PROVE  stored'[t] = stored[t] + 1 /\ \A u \in Turns \ {t} : stored'[u] = stored[u]
  BY <1>1, <1>8 DEF Stores
<1>9. ASSUME NEW at, worker' = [worker EXCEPT !.at = at], Stores(t)
      PROVE  (\A u \in Turns \ {t} : Free(u)) /\ WrittenInv'
  <2>1. \A u \in Turns \ {t}, k \in {1, 2} :
          <<u, k>> # j /\ <<u, k>> \in Jobs
    BY <1>3 DEF Jobs
  <2>2. \A u \in Turns \ {t}, k \in {1, 2} :
          Done(<<u, k>>)' = Done(<<u, k>>) /\ Open(<<u, k>>)' = Open(<<u, k>>)
    BY <1>6, <1>9, <2>1
  <2>3. \A u \in Turns \ {t} : Free(u)
    <3> TAKE u \in Turns \ {t}
    <3>1. \A k \in {1, 2} : Open(<<u, k>>)' <= Open(<<u, k>>)
      <4> TAKE k \in {1, 2}
      <4>1. Open(<<u, k>>)' = Open(<<u, k>>) /\ Open(<<u, k>>) \in {0, 1}
        BY <2>2, OpenType
      <4> QED
        BY <4>1
    <3> QED
      BY <1>1, <1>8, <1>9, <3>1, KeepsTokens
  <2>4. ASSUME NEW u \in Turns, NEW k \in {1, 2}, Done(<<u, k>>)' PROVE stored'[u] > 0
    <3>1. CASE u = t
      BY <1>1, <1>8, <1>9, <3>1
    <3>2. CASE u # t
      BY <1>8, <1>9, <2>2, <2>4, <3>2 DEF WrittenInv
    <3> QED
      BY <3>1, <3>2
  <2> QED
    BY <2>3, <2>4 DEF WrittenInv
<1>10. PICK o \in {1, 2} : o # m /\ {o, m} = {1, 2} /\ <<t, o>> \in Jobs \ {j}
  <2>1. CASE m = 1
    <3> WITNESS 2 \in {1, 2}
    <3> QED
      BY <1>3, <2>1 DEF Jobs
  <2>2. CASE m = 2
    <3> WITNESS 1 \in {1, 2}
    <3> QED
      BY <1>3, <2>2 DEF Jobs
  <2> QED
    BY <2>1, <2>2
<1>11. /\ Tokens(t) = stored[t] + Open(<<t, o>>) + Open(j)
       /\ Tokens(t)' = stored'[t] + Open(<<t, o>>)' + Open(j)'
  <2>1. stored[t] \in Nat /\ stored'[t] \in Nat
    <3>1. stored'[t] \in 0 .. 2 + MaxFaults
      BY DEF TypeOK
    <3> QED
      BY <1>1, <3>1, QueueAssumption
  <2>2. /\ Open(<<t, 1>>) \in {0, 1} /\ Open(<<t, 2>>) \in {0, 1}
        /\ Open(<<t, 1>>)' \in {0, 1} /\ Open(<<t, 2>>)' \in {0, 1}
    BY OpenType
  <2>3. (m = 1 /\ o = 2) \/ (m = 2 /\ o = 1)
    BY <1>10
  <2> QED
    BY <1>3, <2>1, <2>2, <2>3 DEF Tokens
<1>12. Open(<<t, o>>) \in {0, 1} /\ stored[t] \in Nat
  BY <1>1, OpenType
<1>13. CASE worker' = [worker EXCEPT !.at = "stored"] /\ Stores(t) /\ UNCHANGED faults
  <2>1. Open(<<t, o>>)' = Open(<<t, o>>) /\ Open(j)' = 0 /\ stored'[t] = stored[t] + 1
    BY <1>6, <1>8, <1>10, <1>13
  <2>2. Tokens(t)' <= Tokens(t)
    BY <1>5, <1>11, <1>12, <2>1
  <2>3. \A u \in Turns : Free(u)
    BY <1>9, <1>13, <2>2 DEF Free
  <2>4. WrittenInv'
    BY <1>9, <1>13
  <2> QED
    BY <1>1, <1>13, <2>3, <2>4, NothingBought
<1>14. CASE worker' = [worker EXCEPT !.at = "failed"] /\ Stores(t) /\ Fault
  <2>1. Open(<<t, o>>)' = Open(<<t, o>>) /\ Open(j)' = 1 /\ stored'[t] = stored[t] + 1
    BY <1>6, <1>8, <1>10, <1>14
  <2>2. Tokens(t)' <= Tokens(t) + 1
    BY <1>5, <1>11, <1>12, <2>1
  <2>3. (\A u \in Turns \ {t} : Free(u)) /\ WrittenInv'
    BY <1>9, <1>14
  <2> QED
    BY <1>1, <1>14, <2>2, <2>3, OneBought
<1>15. \/ \E at \in {"fatal", "skipped", Refused} :
             worker' = [worker EXCEPT !.at = at] /\ UNCHANGED <<faults, stored>>
       \/ worker' = [worker EXCEPT !.at = "stored"] /\ Stores(t) /\ UNCHANGED faults
       \/ worker' = [worker EXCEPT !.at = "failed"] /\ Stores(t) /\ Fault
  BY <1>4 DEF Write
<1> QED
  BY <1>7, <1>13, <1>14, <1>15

\* The worker is rid of a job that it may have written: the job is written again.
LEMMA DropsPaid ==
  ASSUME IndInv, TypeOK', PaidInv, WrittenInv, Fault,
         NEW t \in Turns, NEW m \in {1, 2}, worker.job = <<t, m>>, worker' = Idle,
         \A i \in Jobs \ {<<t, m>>} : job'[i] = job[i],
         job[<<t, m>>].state = "active", job'[<<t, m>>].state \in {"active", "waiting", "failed"},
         \A u \in Turns \ {t} : stored'[u] = stored[u],
         stored'[t] = stored[t] \/ (worker.at = "write" /\ stored'[t] = stored[t] + 1)
  PROVE  PaidInv' /\ WrittenInv'
<1>1. TypeOK /\ JobInv /\ stored \in [Turns -> Nat] /\ None \notin Jobs
  BY Typed, QueueAssumption DEF IndInv
<1>2. PICK j \in Jobs : j = <<t, m>>
  BY DEF Jobs
<1>4. \A i \in Jobs \ {j} : Done(i)' = Done(i) /\ Open(i)' = Open(i)
  BY <1>1, <1>2 DEF Done, Open, Idle
<1>5. ~Done(j)' /\ Open(j)' = 1 /\ (worker.at = "write" => Open(j) = 1)
  BY <1>1, <1>2 DEF Done, Open, Idle
<1>6. Tokens(t)' <= Tokens(t) + 1
  <2>1. /\ stored[t] \in Nat
        /\ stored'[t] = stored[t] \/ (worker.at = "write" /\ stored'[t] = stored[t] + 1)
    BY <1>1
  <2>2. /\ Open(<<t, 1>>) \in {0, 1} /\ Open(<<t, 2>>) \in {0, 1}
        /\ Open(<<t, 1>>)' \in {0, 1} /\ Open(<<t, 2>>)' \in {0, 1}
    BY OpenType
  <2>3. \/ Open(<<t, 1>>)' = Open(<<t, 1>>) /\ (worker.at = "write" => Open(<<t, 2>>) = 1)
        \/ Open(<<t, 2>>)' = Open(<<t, 2>>) /\ (worker.at = "write" => Open(<<t, 1>>) = 1)
    BY <1>2, <1>4, <1>5 DEF Jobs
  <2> QED
    BY <2>1, <2>2, <2>3 DEF Tokens
<1>7. \A u \in Turns \ {t} : Free(u)
  <2> TAKE u \in Turns \ {t}
  <2>1. \A k \in {1, 2} : Open(<<u, k>>)' <= Open(<<u, k>>)
    <3> TAKE k \in {1, 2}
    <3>1. <<u, k>> \in Jobs \ {j}
      BY <1>2 DEF Jobs
    <3>2. Open(<<u, k>>)' = Open(<<u, k>>) /\ Open(<<u, k>>) \in {0, 1}
      BY <1>4, <3>1, OpenType
    <3> QED
      BY <3>2
  <2> QED
    BY <1>1, <2>1, KeepsTokens
<1>8. WrittenInv'
  <2>1. \A i \in Jobs : Done(i)' => Done(i)
    BY <1>4, <1>5
  <2>2. \A u \in Turns, k \in {1, 2} : Done(<<u, k>>)' => Done(<<u, k>>)
    BY <2>1 DEF Jobs
  <2>3. \A u \in Turns : stored'[u] = stored[u] \/ stored'[u] = stored[u] + 1
    OBVIOUS
  <2>4. \A u \in Turns : stored[u] > 0 => stored'[u] > 0
    BY <1>1, <2>3
  <2> QED
    BY <2>2, <2>4 DEF WrittenInv
<1> QED
  BY <1>1, <1>6, <1>7, <1>8, OneBought

\* A crash after the write and before its job is settled, or one that only loses turns.
LEMMA CrashPaid ==
  ASSUME IndInv, TypeOK', PaidInv, WrittenInv, Crash
  PROVE  PaidInv' /\ WrittenInv'
<1>1. /\ worker' = Idle /\ Fault /\ job' = job /\ stored' = stored
      /\ TypeOK /\ JobInv /\ TurnInv /\ stored \in [Turns -> Nat]
  BY Typed DEF Crash, IndInv
<1>2. CASE worker.at = "idle"
  <2>1. worker' = worker
    BY <1>1, <1>2 DEF JobInv
  <2> QED
    BY <1>1, <2>1, StillPaid
<1>3. CASE worker.at # "idle"
  <2>1. PICK t \in Turns, m \in {1, 2} : worker.job = <<t, m>> /\ job[<<t, m>>].state = "active"
    BY <1>1, <1>3, WorkersTurn
  <2> QED
    BY <1>1, <2>1, DropsPaid
<1> QED
  BY <1>2, <1>3

\* A lock that is lost while the write goes on, or before the write is settled.
LEMMA LosesLockPaid ==
  ASSUME IndInv, TypeOK', PaidInv, WrittenInv, LosesLock
  PROVE  PaidInv' /\ WrittenInv'
<1>1. /\ TypeOK /\ TurnInv /\ JobInv /\ stored \in [Turns -> Nat] /\ job \in JobType
      /\ worker.at # "idle" /\ worker' = Idle /\ Fault
  BY Typed DEF IndInv, LosesLock, JobInv
<1>2. PICK t \in Turns, m \in {1, 2} :
        worker.job = <<t, m>> /\ worker.job \in Jobs /\ job[<<t, m>>].state = "active"
  BY <1>1, WorkersTurn
<1>3. worker.job[1] = t /\ Stalled(<<t, m>>) /\ <<t, m>> \in Jobs
  BY <1>2 DEF LosesLock
<1>4. PICK r \in Record : job' = [job EXCEPT ![<<t, m>>] = r] /\ r.state \in {"waiting", "failed"}
  BY <1>1, <1>2, <1>3, StalledAgain
<1>5. /\ \A i \in Jobs \ {<<t, m>>} : job'[i] = job[i]
      /\ job'[<<t, m>>].state \in {"waiting", "failed"}
  BY <1>1, <1>3, <1>4 DEF JobType
<1>6. stored' = stored \/ (worker.at = "write" /\ Stores(t))
  BY <1>3 DEF LosesLock
<1>7. /\ \A u \in Turns \ {t} : stored'[u] = stored[u]
      /\ stored'[t] = stored[t] \/ (worker.at = "write" /\ stored'[t] = stored[t] + 1)
  BY <1>1, <1>6 DEF Stores
<1> QED
  BY <1>1, <1>2, <1>5, <1>7, DropsPaid

LEMMA PaidInit == Init => PaidInv /\ WrittenInv
<1> SUFFICES ASSUME Init PROVE PaidInv /\ WrittenInv
  OBVIOUS
<1>1. \A j \in Jobs : ~Done(j) /\ Open(j) = 0
  BY QueueAssumption DEF Init, Done, Open, Idle
<1>2. \A t \in Turns : Tokens(t) = 0
  BY <1>1 DEF Init, Tokens, Jobs
<1>3. Bought = {}
  <2> SUFFICES ASSUME NEW t \in Turns, NEW n \in 2 .. 4 + MaxFaults, n <= Tokens(t) PROVE FALSE
    BY DEF Bought
  <2> QED
    BY <1>2, QueueAssumption
<1>4. PaidInv
  BY <1>3, FS_EmptySet DEF Init, PaidInv
<1>5. WrittenInv
  BY <1>1 DEF WrittenInv, Jobs
<1> QED
  BY <1>4, <1>5

LEMMA PaidStep == IndInv /\ IndInv' /\ PaidInv /\ WrittenInv /\ [Next]_vars => PaidInv' /\ WrittenInv'
<1> SUFFICES ASSUME IndInv, IndInv', PaidInv, WrittenInv, [Next]_vars PROVE PaidInv' /\ WrittenInv'
  OBVIOUS
<1>0. TypeOK'
  BY DEF IndInv
<1>1. CASE ComesUp \/ GoesDown \/ UNCHANGED vars
  <2>1. /\ Fault \/ faults' = faults
        /\ job' = job /\ worker' = worker /\ stored' = stored
    BY <1>1 DEF ComesUp, GoesDown, vars
  <2> QED
    BY <1>0, <2>1, StillPaid
<1>2. CASE Crash \/ LosesLock
  BY <1>0, <1>2, CrashPaid, LosesLockPaid
<1>3. CASE Work
  BY <1>0, <1>3, WritePaid, SettlePaid, TakePaid, StallPaid DEF Work
<1>4. ASSUME NEW t \in Turns, HandOver(t) PROVE PaidInv' /\ WrittenInv'
  <2>1. CASE Begin(t) \/ Status(t) \/ CheckDepth(t)
    <3>1. /\ Fault \/ faults' = faults
          /\ job' = job /\ worker' = worker /\ stored' = stored
      BY <2>1 DEF Begin, Status, CheckDepth
    <3> QED
      BY <1>0, <3>1, StillPaid
  <2>2. CASE Add(t)
    BY <1>0, <2>2, AddPaid
  <2>3. CASE Inline(t)
    BY <1>0, <2>3, InlinePaid
  <2> QED
    BY <1>4, <2>1, <2>2, <2>3 DEF HandOver
<1> QED
  BY <1>1, <1>2, <1>3, <1>4 DEF Next

LEMMA AllPaid == Spec => [](PaidInv /\ WrittenInv)
BY PaidInit, PaidStep, Inductive, PTL DEF Spec

(***************************************************************************)
(* However many turns are handed over, their second, third, ... writes are *)
(* no more than the faults (lost answers and locks, crashes, doubled adds) *)
(* there were: all turns share one budget.  A turn that was dropped or     *)
(* lost is not written.                                                    *)
(***************************************************************************)
THEOREM ExtraWritesPaid == Spec => []ExtraWritesArePaid
<1>1. ASSUME IndInv, PaidInv PROVE ExtraWritesArePaid
  <2>1. ExtraWrites \subseteq Bought
    <3> SUFFICES ASSUME NEW t \in Turns, NEW n \in 2 .. 2 + MaxFaults, n <= stored[t]
                 PROVE  n \in 2 .. 4 + MaxFaults /\ n <= Tokens(t)
      BY DEF ExtraWrites, Bought
    <3>1. stored[t] \in Nat
      BY <1>1, Typed DEF IndInv
    <3>2. Open(<<t, 1>>) \in {0, 1} /\ Open(<<t, 2>>) \in {0, 1}
      BY OpenType
    <3> QED
      BY <3>1, <3>2, QueueAssumption DEF Tokens
  <2>2. Cardinality(ExtraWrites) <= Cardinality(Bought)
    BY <2>1, BoughtFinite, FS_Subset
  <2>3. Cardinality(ExtraWrites) \in Nat
    BY <2>1, BoughtFinite, FS_Subset, FS_CardinalityType
  <2>4. faults \in Nat /\ Cardinality(Bought) <= faults
    BY <1>1, Typed DEF IndInv, PaidInv
  <2>5. Cardinality(ExtraWrites) <= faults
    BY <2>2, <2>3, <2>4, BoughtFinite
  <2>6. \A t \in Turns : turn[t] \in {"dropped", "lost"} => stored[t] = 0
    BY <1>1 DEF IndInv, TurnInv, Unwritten
  <2> QED
    BY <2>5, <2>6 DEF ExtraWritesArePaid
<1> QED
  BY <1>1, AllPaid, Inductive, PTL

(***************************************************************************)
(* A completed job has written its turn: no answer that stored nothing     *)
(* passes for a success, whatever crashed, stalled or was sent twice.      *)
(***************************************************************************)
THEOREM CompletedIsWritten ==
  Spec => [](\A j \in Jobs : job[j].state = "completed" => stored[j[1]] > 0)
<1>1. WrittenInv => \A j \in Jobs : job[j].state = "completed" => stored[j[1]] > 0
  <2> SUFFICES ASSUME WrittenInv, NEW j \in Jobs, job[j].state = "completed" PROVE stored[j[1]] > 0
    OBVIOUS
  <2>1. PICK t \in Turns, k \in {1, 2} : j = <<t, k>>
    BY DEF Jobs
  <2>2. Done(<<t, k>>)
    BY <2>1 DEF Done
  <2> QED
    BY <2>1, <2>2 DEF WrittenInv
<1> QED
  BY <1>1, AllPaid, PTL

-----------------------------------------------------------------------------
(***************************************************************************)
(* The safety half of TurnsSettle: what a turn and its jobs still have     *)
(* ahead of them.  Each delivery of a job spends an attempt or a stall.    *)
(***************************************************************************)
Deliveries(j) == (MaxAttempts - job[j].made) + (MaxStalls + 1 - job[j].stalls)

StepsLeft(j) ==
  CASE job[j].state = "absent"               -> 4
    [] job[j].state \in {"waiting", "delayed"} -> 3
    [] OTHER -> IF worker.job # j THEN 0 ELSE IF worker.at = "write" THEN 2 ELSE 1

Over(j) == job[j].state \in {"completed", "failed", "off"}

Ahead(j) == IF Over(j) THEN 0 ELSE 4 * Deliveries(j) + StepsLeft(j)

Stage(t) ==
  CASE turn[t] = "idle"   -> 5
    [] turn[t] = "status" -> 4
    [] turn[t] = "depth"  -> 3
    [] turn[t] = "add"    -> 2
    [] turn[t] = "inline" -> 1
    [] OTHER              -> 0

\* The job moves, or the worker that has it.
JobMoves(j) == job'[j] # job[j] \/ (worker.job = j /\ worker' # worker)

\* A number that no other step changes, and that every move lowers.
JobAdvances(j) == IF JobMoves(j) THEN Ahead(j)' < Ahead(j) ELSE Ahead(j)' = Ahead(j)

TurnAdvances(t) == turn'[t] # turn[t] => Stage(t)' < Stage(t)

Advances ==
  /\ \A j \in Jobs : Ahead(j) \in Nat /\ JobAdvances(j)
  /\ \A t \in Turns : TurnAdvances(t)

QueuedInv == \A t \in Turns : turn[t] = "queued" => job[<<t, 1>>].state # "absent"

\* Numbers, all of them; something is ahead of a job that is not over.
LEMMA AheadType ==
  ASSUME TypeOK, JobInv, NEW j \in Jobs
  PROVE  /\ StepsLeft(j) \in 0 .. 4 /\ Deliveries(j) \in Nat /\ Ahead(j) \in Nat
         /\ ~Over(j) => Deliveries(j) >= 2 /\ Ahead(j) = 4 * Deliveries(j) + StepsLeft(j)
<1>1. job[j].made \in 0 .. MaxAttempts /\ job[j].stalls \in 0 .. MaxStalls + 1
  BY DEF TypeOK
<1>2. Deliveries(j) \in Nat
  BY <1>1, QueueAssumption DEF Deliveries
<1>3. ~Over(j) => job[j].made < MaxAttempts /\ job[j].stalls <= MaxStalls
  BY DEF JobInv, Over
<1>4. ~Over(j) => Deliveries(j) >= 2
  BY <1>1, <1>3, QueueAssumption DEF Deliveries
<1>5. StepsLeft(j) \in 0 .. 4
  BY DEF StepsLeft
<1> QED
  BY <1>2, <1>4, <1>5 DEF Ahead

\* A job that keeps its record, and its worker if it has one, keeps what is ahead of it.
LEMMA JobRests ==
  ASSUME NEW j \in Jobs, job'[j] = job[j],
         worker' = worker \/ (worker.job # j /\ worker'.job # j)
  PROVE  JobAdvances(j)
<1>1. Deliveries(j)' = Deliveries(j)
  BY DEF Deliveries
<1>2. StepsLeft(j)' = StepsLeft(j)
  BY DEF StepsLeft
<1>3. Over(j)' = Over(j) /\ ~JobMoves(j)
  BY DEF Over, JobMoves
<1> QED
  BY <1>1, <1>2, <1>3 DEF JobAdvances, Ahead

\* The worker goes on with its job, whose record stays, or drops it.
LEMMA WorkerMoves ==
  ASSUME TypeOK, JobInv, NEW j \in Jobs, job' = job, worker.at # "idle", worker.job = j,
         \/ worker.at = "write" /\ worker'.job = j /\ worker'.at # "write"
         \/ worker' = Idle
  PROVE  JobAdvances(j)
<1>1. job[j].state = "active" /\ ~Over(j) /\ ~Over(j)'
  BY DEF JobInv, Over
<1>2. worker' # worker /\ None \notin Jobs
  BY QueueAssumption DEF Idle
<1>3. StepsLeft(j)' < StepsLeft(j)
  BY <1>1, <1>2 DEF StepsLeft, Idle
<1>4. Deliveries(j)' = Deliveries(j)
  BY DEF Deliveries
<1>5. StepsLeft(j)' \in Nat
  BY DEF StepsLeft
<1>6. Ahead(j)' = 4 * Deliveries(j) + StepsLeft(j)'
  BY <1>1, <1>4 DEF Ahead
<1>7. JobMoves(j)
  BY <1>2 DEF JobMoves
<1> QED
  BY <1>1, <1>3, <1>5, <1>6, <1>7, AheadType DEF JobAdvances

\* A job ends, or waits again with an attempt or a stall less.
LEMMA DeliveryEnds ==
  ASSUME TypeOK, JobInv, TypeOK', JobInv', NEW j \in Jobs,
         ~Over(j), job'[j].state # "absent", job'[j] # job[j],
         \/ Over(j)'
         \/ /\ job'[j].state \in {"waiting", "delayed"}
            /\ \/ job'[j].made = job[j].made + 1 /\ job'[j].stalls = job[j].stalls
               \/ job'[j].made = job[j].made /\ job'[j].stalls = job[j].stalls + 1
  PROVE  JobAdvances(j)
<1>1. JobMoves(j)
  BY DEF JobMoves
<1>2. CASE Over(j)'
  BY <1>1, <1>2, AheadType DEF JobAdvances, Ahead
<1>3. CASE ~Over(j)'
  <2>1. job[j].made \in Nat /\ job[j].stalls \in Nat
    BY DEF TypeOK
  <2>2. Deliveries(j)' = Deliveries(j) - 1
    BY <1>3, <2>1, QueueAssumption DEF Deliveries
  <2>3. StepsLeft(j)' = 3
    BY <1>3 DEF StepsLeft
  <2>4. Ahead(j)' = 4 * Deliveries(j)' + 3
    BY <1>3, <2>3 DEF Ahead
  <2> QED
    BY <1>1, <2>2, <2>4, AheadType DEF JobAdvances
<1> QED
  BY <1>2, <1>3

\* The queue or the worker takes a job one stage further.
LEMMA DeliveryGoesOn ==
  ASSUME TypeOK, JobInv, NEW j \in Jobs, ~Over(j), ~Over(j)', job'[j] # job[j],
         job'[j].made = job[j].made, job'[j].stalls = job[j].stalls,
         StepsLeft(j)' < StepsLeft(j)
  PROVE  JobAdvances(j)
<1>1. Deliveries(j)' = Deliveries(j) /\ JobMoves(j)
  BY DEF Deliveries, JobMoves
<1>2. StepsLeft(j)' \in Nat
  BY DEF StepsLeft
<1>3. Ahead(j)' = 4 * Deliveries(j) + StepsLeft(j)'
  BY <1>1 DEF Ahead
<1> QED
  BY <1>1, <1>2, <1>3, AheadType DEF JobAdvances

LEMMA TakeAdvances ==
  ASSUME TypeOK, JobInv, NEW i \in Jobs, Take(i), NEW j \in Jobs
  PROVE  JobAdvances(j)
<1>1. /\ worker = Idle /\ None \notin Jobs /\ worker' = [job |-> i, at |-> "write"]
      /\ job' = [job EXCEPT ![i].state = "active"] /\ job \in JobType
  BY Typed, QueueAssumption DEF Take
<1>2. CASE j # i
  <2>1. job'[j] = job[j] /\ worker.job # j /\ worker'.job # j
    BY <1>1, <1>2 DEF Idle, JobType
  <2> QED
    BY <2>1, JobRests
<1>3. CASE j = i
  <2>1. job'[j] = [job[j] EXCEPT !.state = "active"] /\ job[j] \in Record
    BY <1>1, <1>3 DEF JobType
  <2>2. job[j].state \in {"waiting", "delayed"}
    BY <1>3 DEF Take
  <2>3. /\ job'[j].state = "active" /\ job'[j].made = job[j].made
        /\ job'[j].stalls = job[j].stalls
    BY <2>1 DEF Record
  <2>4. StepsLeft(j)' = 2 /\ StepsLeft(j) = 3
    BY <1>1, <1>3, <2>2, <2>3 DEF StepsLeft
  <2> QED
    BY <2>2, <2>3, <2>4, DeliveryGoesOn DEF Over
<1> QED
  BY <1>2, <1>3

LEMMA EnqueueAdvances ==
  ASSUME IndInv, NEW t \in Turns, turn[t] = "add", NEW J \in SUBSET {<<t, 1>>, <<t, 2>>},
         Enqueue(J), worker' = worker, NEW j \in Jobs
  PROVE  JobAdvances(j)
<1>1. job \in JobType /\ TypeOK /\ JobInv
  BY Typed DEF IndInv
<1>2. CASE j \notin J
  <2>1. job'[j] = job[j]
    BY <1>2 DEF Enqueue
  <2> QED
    BY <2>1, JobRests
<1>3. CASE j \in J
  <2>1. job[j].state = "absent"
    BY <1>3 DEF IndInv, TurnInv, Unqueued, HandingOver
  <2>2. job'[j] = [job[j] EXCEPT !.state = "waiting"] /\ job[j] \in Record
    BY <1>1, <1>3 DEF Enqueue, JobType
  <2>3. /\ job'[j].state = "waiting" /\ job'[j].made = job[j].made
        /\ job'[j].stalls = job[j].stalls
    BY <2>2 DEF Record
  <2>4. StepsLeft(j)' = 3 /\ StepsLeft(j) = 4
    BY <2>1, <2>3 DEF StepsLeft
  <2> QED
    BY <1>1, <2>1, <2>3, <2>4, DeliveryGoesOn DEF Over
<1> QED
  BY <1>2, <1>3

LEMMA SettleAdvances ==
  ASSUME TypeOK, JobInv, TypeOK', JobInv', Settle, NEW j \in Jobs
  PROVE  JobAdvances(j)
<1>1. /\ worker.at \in {"stored", "skipped", "failed", "fatal"} /\ worker' = Idle
      /\ worker.job \in Jobs /\ job[worker.job].state = "active" /\ None \notin Jobs
      /\ job \in JobType
  BY Typed, QueueAssumption DEF Settle, JobInv
<1>2. CASE j # worker.job
  <2>1. job'[j] = job[j] /\ worker'.job # j
    BY <1>1, <1>2 DEF Settle, Idle, JobType
  <2> QED
    BY <1>2, <2>1, JobRests
<1>3. CASE j = worker.job
  <2>1. job'[j] = CASE worker.at = "stored"  -> [job[j] EXCEPT !.state = "completed"]
                    [] worker.at = "skipped" -> [job[j] EXCEPT !.state = "off"]
                    [] worker.at = "failed"  -> Failed(job[j])
                    [] worker.at = "fatal"   -> [job[j] EXCEPT !.state = "failed"]
    BY <1>1, <1>3 DEF Settle, JobType
  <2>2. job[j] \in Record /\ ~Over(j)
    BY <1>1, <1>3 DEF JobType, Over
  <2>3. CASE worker.at # "failed"
    <3>1. job'[j].state \in {"completed", "failed", "off"}
      BY <1>1, <2>1, <2>2, <2>3 DEF Record
    <3>2. Over(j)' /\ job'[j] # job[j] /\ job'[j].state # "absent"
      BY <1>1, <1>3, <3>1 DEF Over
    <3> QED
      BY <2>2, <3>2, DeliveryEnds
  <2>4. CASE worker.at = "failed"
    <3>1. job'[j] = Failed(job[j])
      BY <2>1, <2>4
    <3>2. /\ job'[j].made = job[j].made + 1 /\ job'[j].stalls = job[j].stalls
          /\ job'[j].state \in {"delayed", "failed"}
      BY <2>2, <3>1 DEF Failed, Record
    <3>3. job'[j] # job[j] /\ job'[j].state # "absent" /\ (Over(j)' \/ job'[j].state = "delayed")
      BY <1>1, <1>3, <3>2 DEF Over
    <3> QED
      BY <2>2, <3>2, <3>3, DeliveryEnds
  <2> QED
    BY <2>3, <2>4
<1> QED
  BY <1>2, <1>3

LEMMA StallAdvances ==
  ASSUME TypeOK, JobInv, TypeOK', JobInv', NEW i \in Jobs, Stalled(i), job[i].state = "active",
         worker' = worker \/ (worker.job = i /\ worker' = Idle), NEW j \in Jobs
  PROVE  JobAdvances(j)
<1>1. job \in JobType /\ None \notin Jobs
  BY Typed, QueueAssumption
<1>2. PICK r \in Record :
        /\ job' = [job EXCEPT ![i] = r] /\ r.state \in {"waiting", "failed"}
        /\ r.made = job[i].made /\ r.stalls = job[i].stalls + 1
  BY StalledAgain
<1>3. CASE j # i
  <2>1. job'[j] = job[j]
    BY <1>1, <1>2, <1>3 DEF JobType
  <2>2. worker' = worker \/ (worker.job # j /\ worker'.job # j)
    BY <1>1, <1>3 DEF Idle
  <2> QED
    BY <2>1, <2>2, JobRests
<1>4. CASE j = i
  <2>1. job[j] \in Record /\ ~Over(j)
    BY <1>1, <1>4 DEF JobType, Over
  <2>2. /\ job'[j].made = job[j].made /\ job'[j].stalls = job[j].stalls + 1
        /\ job'[j].state \in {"waiting", "failed"}
    BY <1>1, <1>2, <1>4 DEF JobType
  <2>3. job'[j] # job[j] /\ job'[j].state # "absent" /\ (Over(j)' \/ job'[j].state = "waiting")
    BY <1>4, <2>2 DEF Over
  <2> QED
    BY <2>1, <2>2, <2>3, DeliveryEnds
<1> QED
  BY <1>3, <1>4

\* Every step of the queue or of the worker, for every job.
LEMMA JobsAdvance ==
  ASSUME IndInv, IndInv', [Next]_vars, NEW j \in Jobs
  PROVE  JobAdvances(j)
<1> USE DEF IndInv
<1>1. ASSUME NEW t \in Turns, Begin(t) \/ Status(t) \/ CheckDepth(t) \/ Inline(t)
      PROVE  JobAdvances(j)
  BY <1>1, JobRests DEF Begin, Status, CheckDepth, Inline
<1>2. ASSUME NEW t \in Turns, Add(t) PROVE JobAdvances(j)
  <2>1. CASE job' = job
    BY <1>2, <2>1, JobRests DEF Add
  <2>2. CASE Enqueue({<<t, 1>>}) \/ Enqueue({<<t, 1>>, <<t, 2>>})
    BY <1>2, <2>2, EnqueueAdvances DEF Add
  <2> QED
    BY <1>2, <2>1, <2>2 DEF Add
<1>3. ASSUME NEW i \in Jobs, Take(i) \/ Stall(i) PROVE JobAdvances(j)
  BY <1>3, TakeAdvances, StallAdvances DEF Stall
<1>4. CASE Settle
  BY <1>4, SettleAdvances
<1>5. CASE Write
  <2>1. /\ worker.at = "write" /\ worker'.job = worker.job /\ worker'.at # "write" /\ job' = job
    BY <1>5, Typed DEF Write, Refused, Workers
  <2> QED
    BY <2>1, WorkerMoves, JobRests
<1>6. CASE Crash
  <2>1. worker' = Idle /\ job' = job /\ None \notin Jobs /\ (worker.at = "idle" => worker' = worker)
    BY <1>6, QueueAssumption DEF Crash, JobInv
  <2>2. worker'.job # j
    BY <2>1 DEF Idle
  <2> QED
    BY <2>1, <2>2, WorkerMoves, JobRests
<1>8. CASE LosesLock
  <2>1. /\ worker.job \in Jobs /\ job[worker.job].state = "active" /\ Stalled(worker.job)
        /\ worker' = Idle
    BY <1>8 DEF LosesLock, JobInv
  <2> QED
    BY <2>1, StallAdvances
<1>7. CASE ComesUp \/ GoesDown \/ UNCHANGED vars
  BY <1>7, JobRests DEF ComesUp, GoesDown, vars
<1> QED
  BY <1>1, <1>2, <1>3, <1>4, <1>5, <1>6, <1>7, <1>8 DEF Next, Work, HandOver

\* The request goes through its stages in one direction.
LEMMA TurnsAdvance ==
  ASSUME TypeOK, [Next]_vars, NEW t \in Turns
  PROVE  TurnAdvances(t)
<1>1. turn \in [Turns -> Places]
  BY Typed
<1>2. ASSUME NEW u \in Turns, HandOver(u) PROVE TurnAdvances(t)
  <2>1. PICK to : turn' = [turn EXCEPT ![u] = to]
    BY <1>2 DEF HandOver, Begin, Status, CheckDepth, Add, Inline, TurnTo, Added
  <2>2. CASE u # t
    BY <1>1, <2>1, <2>2 DEF TurnAdvances
  <2>3. CASE u = t
    BY <1>1, <1>2, <2>3 DEF HandOver, Begin, Status, CheckDepth, Add, Inline, TurnTo, Added,
                            TurnAdvances, Stage
  <2> QED
    BY <2>2, <2>3
<1>3. CASE Crash
  BY <1>3 DEF Crash, Handing, HandingOver, TurnAdvances, Stage
<1>4. turn' = turn \/ Crash \/ \E u \in Turns : HandOver(u)
  BY DEF Next, Work, vars, ComesUp, GoesDown, LosesLock, Write, Settle, Take, Stall
<1> QED
  BY <1>2, <1>3, <1>4 DEF TurnAdvances

(***************************************************************************)
(* The safety half of TurnsSettle: every move of the hand-over, of a job   *)
(* or of the worker that has it uses up something finite, and nothing else *)
(* (another turn, a crash elsewhere, a doubled add, the connection) gives  *)
(* it back.                                                                *)
(***************************************************************************)
THEOREM TurnsAdvancing == Spec => [][Advances]_vars
<1>1. IndInv /\ IndInv' /\ [Next]_vars => [Advances]_vars
  BY AheadType, JobsAdvance, TurnsAdvance DEF IndInv, Advances
<1> QED
  BY <1>1, Inductive, PTL DEF Spec

\* A queued turn has its job.
LEMMA QueuedStep == IndInv /\ QueuedInv /\ [Next]_vars => QueuedInv'
<1> SUFFICES ASSUME IndInv, QueuedInv, [Next]_vars, NEW t \in Turns, turn'[t] = "queued"
             PROVE  job'[<<t, 1>>].state # "absent"
  BY DEF QueuedInv
<1>1. turn \in [Turns -> Places] /\ job \in JobType /\ worker \in Workers /\ JobInv
  BY Typed DEF IndInv
<1>2. <<t, 1>> \in Jobs
  BY DEF Jobs
<1>3. CASE turn[t] = "queued"
  <2>1. job[<<t, 1>>].state # "absent"
    BY <1>3 DEF QueuedInv
  <2>2. \A j \in Jobs : job'[j].state = "absent" => job[j].state = "absent"
    <3>1. ASSUME NEW u \in Turns, HandOver(u), NEW j \in Jobs, job'[j].state = "absent"
          PROVE  job[j].state = "absent"
      BY <1>1, <3>1 DEF HandOver, Begin, Status, CheckDepth, Add, Inline, Enqueue, JobType, Record
    <3>2. ASSUME NEW i \in Jobs, Take(i) \/ Stall(i) \/ (LosesLock /\ i = worker.job),
                 NEW j \in Jobs, job'[j].state = "absent"
          PROVE  job[j].state = "absent"
      <4>1. CASE Take(i)
        BY <1>1, <3>2, <4>1 DEF Take, JobType, Record
      <4>2. CASE ~Take(i)
        BY <1>1, <3>2, <4>2 DEF Stall, LosesLock, Stalled, JobType, Record
      <4> QED
        BY <4>1, <4>2
    <3>3. ASSUME Settle, NEW j \in Jobs, job'[j].state = "absent" PROVE job[j].state = "absent"
      BY <1>1, <3>3 DEF Settle, Failed, JobType, Record, JobInv
    <3>4. \/ job' = job \/ Settle \/ (\E u \in Turns : HandOver(u))
          \/ (\E i \in Jobs : Take(i) \/ Stall(i) \/ (LosesLock /\ i = worker.job))
      <4>1. LosesLock => worker.job \in Jobs
        BY <1>1, QueueAssumption DEF LosesLock, JobInv
      <4> QED
        BY <4>1 DEF Next, Work, vars, ComesUp, GoesDown, Crash, Write
    <3> QED
      BY <3>1, <3>2, <3>3, <3>4
  <2> QED
    BY <1>2, <2>1, <2>2
<1>4. CASE turn[t] # "queued"
  <2>1. PICK u \in Turns : HandOver(u)
    <3>1. ~Crash
      BY <1>1, <1>4 DEF Crash
    <3> QED
      BY <1>4, <3>1 DEF Next, Work, vars, ComesUp, GoesDown, LosesLock, Write, Settle, Take, Stall
  <2>2. u = t /\ Add(t)
    BY <1>1, <1>4, <2>1 DEF HandOver, Begin, Status, CheckDepth, Add, Inline, TurnTo
  <2>3. Enqueue({<<t, 1>>}) \/ Enqueue({<<t, 1>>, <<t, 2>>})
    BY <1>1, <2>2 DEF Add, TurnTo
  <2>4. job'[<<t, 1>>] = [job[<<t, 1>>] EXCEPT !.state = "waiting"]
    BY <1>2, <2>3 DEF Enqueue
  <2> QED
    BY <1>1, <1>2, <2>4 DEF JobType, Record
<1> QED
  BY <1>3, <1>4

(***************************************************************************)
(* And a turn that is not settled has somebody to move it: its request, or *)
(* the queue, which has its job and hands it out, waits for the worker, or *)
(* finds it stalled.                                                       *)
(***************************************************************************)
InHand(t) == \/ turn[t] \in {"idle"} \cup HandingOver
             \/ turn[t] = "queued" /\ job[<<t, 1>>].state \in Counted

THEOREM TurnIsNotStuck == Spec => [](\A t \in Turns : Remembered(t) \/ InHand(t))
<1>1. Init => QueuedInv
  BY DEF Init, QueuedInv
<1>2. Spec => []QueuedInv
  BY <1>1, QueuedStep, Inductive, PTL DEF Spec
<1>3. IndInv /\ (PaidInv /\ WrittenInv) /\ QueuedInv =>
        \A t \in Turns : Remembered(t) \/ InHand(t)
  <2> SUFFICES ASSUME IndInv, WrittenInv, QueuedInv, NEW t \in Turns
               PROVE  Remembered(t) \/ InHand(t)
    OBVIOUS
  <2>1. turn[t] \in Places /\ <<t, 1>> \in Jobs /\ job[<<t, 1>>] \in Record
    BY Typed DEF IndInv, Jobs, JobType
  <2>2. job[<<t, 1>>].state = "completed" => stored[t] > 0
    BY DEF WrittenInv, Done
  <2> QED
    BY <2>1, <2>2 DEF Remembered, InHand, Places, Verdicts, QueuedInv, Record, States, Counted
<1> QED
  BY <1>2, <1>3, AllPaid, Inductive, PTL
=============================================================================
