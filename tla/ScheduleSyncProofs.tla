------------------------- MODULE ScheduleSyncProofs -------------------------
(***************************************************************************)
(* For every number of requests, patterns, payloads and faults: writers    *)
(* that neither overlap nor fail leave Redis in line with the row.         *)
(***************************************************************************)
EXTENDS ScheduleSyncProps, TLAPS

(***************************************************************************)
(* Why UndisturbedInSync holds.  An undisturbed writer works from the row  *)
(* as it is, and there is one trigger at most: the search by name cannot   *)
(* find the wrong one, and after the removal nothing is stored.            *)
(***************************************************************************)
AtWork(w) ==
  /\ writer[w].at \in {"update", "delete", "list", "prune"} =>
       writer[w].run = row /\ trigger = Wanted(row)
  /\ writer[w].at = "prune" => row.state # "active"
  /\ writer[w].at \in {"find", "remove", "add"} =>
       IF writer[w].op = "sync" THEN writer[w].run = row ELSE row.state # "active"
  /\ writer[w].at = "find"   => \A c, d \in Stored : c = d
  /\ writer[w].at = "remove" => \A c \in Stored : c = writer[w].cron
  /\ writer[w].at = "add"    => Stored = {} /\ writer[w].op = "sync" /\ row.state = "active"

OneAtWork == \A v, w \in Writers : ~Resting(v) /\ ~Resting(w) => v = w

SyncInv ==
  ~disturbed =>
    /\ OneAtWork
    /\ (\A w \in Writers : Resting(w)) => trigger = Wanted(row)
    /\ \A w \in Writers : AtWork(w)

IndInv == TypeOK /\ SyncInv

-----------------------------------------------------------------------------
\* The rows and the writers are well typed.
Standing ==
  /\ writer \in [Writers -> WriterStates]
  /\ \A w \in Writers : writer[w].at = "remove" => writer[w].cron # None

\* The row nobody created is a row.
LEMMA NoRowType == NoRow \in Rows /\ [NoRow EXCEPT !.state = "deleted"] \in Rows
<1>1. (CHOOSE c \in Crons : TRUE) \in Crons /\ (CHOOSE p \in Payloads : TRUE) \in Payloads
  BY ScheduleAssumption
<1> QED
  BY <1>1 DEF NoRow, Rows

\* A writer that moves to a well-typed place leaves all writers well typed.
LEMMA PlaceType ==
  ASSUME TypeOK, NEW w \in Writers, NEW place \in WriterStates,
         place.at = "remove" => place.cron # None,
         writer' = [writer EXCEPT ![w] = place]
  PROVE  Standing' /\ writer'[w] = place
                   /\ \A v \in Writers \ {w} : writer'[v] = writer[v]
BY DEF TypeOK, Standing

\* The places of a writer that rests, reads, or searches.
LEMMA PlaceTypes ==
  ASSUME NEW run \in Rows, NEW stage \in Stages, NEW op \in {"sync", "remove"},
         NEW cron \in Crons \cup {None}
  PROVE  /\ [at |-> stage, op |-> op, run |-> run, cron |-> cron] \in WriterStates
         /\ Idle \in WriterStates
         /\ [Idle EXCEPT !.at = stage] \in WriterStates
         /\ [Idle EXCEPT !.at = stage, !.run = run] \in WriterStates
BY NoRowType DEF WriterStates, Idle, Stages

\* A writer that ends.
LEMMA EndPlace ==
  ASSUME TypeOK, NEW w \in Writers, End(w)
  PROVE  /\ Standing' /\ writer'[w].at \in {"new", "done"}
         /\ \A v \in Writers \ {w} : writer'[v] = writer[v]
<1>1. Ended(w) \in WriterStates /\ Ended(w).at \in {"new", "done"}
  BY NoRowType DEF Ended, Idle, WriterStates, Stages
<1> QED
  BY <1>1, PlaceType DEF End

\* A writer that begins to search.
LEMMA SearchPlace ==
  ASSUME TypeOK, NEW w \in Writers, NEW op \in {"sync", "remove"}, NEW run \in Rows,
         NEW cron \in Crons \cup {None}, Search(w, op, run, cron)
  PROVE  /\ Standing'
         /\ writer'[w] = [at |-> "find", op |-> op, run |-> run, cron |-> cron]
         /\ \A v \in Writers \ {w} : writer'[v] = writer[v]
<1> DEFINE place == [at |-> "find", op |-> op, run |-> run, cron |-> cron]
<1>1. place \in WriterStates /\ place.at # "remove"
  BY DEF WriterStates, Stages
<1>2. writer' = [writer EXCEPT ![w] = place]
  BY DEF Search
<1> QED
  BY <1>1, <1>2, PlaceType

\* A writer that moves on without a new row.
LEMMA StagePlace ==
  ASSUME TypeOK, NEW w \in Writers, NEW stage \in Stages, NEW cron \in Crons \cup {None},
         stage = "remove" => cron # None,
         writer' = [writer EXCEPT ![w].at = stage, ![w].cron = cron]
  PROVE  /\ Standing' /\ writer'[w].at = stage /\ writer'[w].cron = cron
         /\ writer'[w].op = writer[w].op /\ writer'[w].run = writer[w].run
         /\ \A v \in Writers \ {w} : writer'[v] = writer[v]
<1> DEFINE place == [writer[w] EXCEPT !.at = stage, !.cron = cron]
<1>1. writer[w] \in WriterStates
  BY DEF TypeOK
<1>2. place \in WriterStates /\ place.at = stage /\ place.cron = cron
      /\ place.op = writer[w].op /\ place.run = writer[w].run
  BY <1>1 DEF WriterStates
<1>3. writer' = [writer EXCEPT ![w] = place]
  BY DEF TypeOK
<1> HIDE DEF place
<1> QED
  BY <1>2, <1>3, PlaceType

\* A writer after its removal.
LEMMA RemovedPlace ==
  ASSUME TypeOK, NEW w \in Writers, Removed(w)
  PROVE  /\ Standing'
         /\ \A v \in Writers \ {w} : writer'[v] = writer[v]
         /\ \/ /\ writer[w].op = "sync" /\ writer[w].run.state = "active"
               /\ writer'[w].at = "add" /\ writer'[w].op = "sync"
               /\ writer'[w].run = writer[w].run
            \/ /\ ~(writer[w].op = "sync" /\ writer[w].run.state = "active")
               /\ writer'[w].at \in {"new", "done"}
<1>1. CASE writer[w].op = "sync" /\ writer[w].run.state = "active"
  <2>1. writer' = [writer EXCEPT ![w].at = "add", ![w].cron = None] /\ "add" \in Stages
    BY <1>1 DEF Removed, Stages
  <2>2. None \in Crons \cup {None} /\ "add" # "remove"
    OBVIOUS
  <2>3. /\ Standing' /\ writer'[w].at = "add"
        /\ writer'[w].op = writer[w].op /\ writer'[w].run = writer[w].run
        /\ \A v \in Writers \ {w} : writer'[v] = writer[v]
    BY <2>1, <2>2, StagePlace
  <2> QED
    BY <1>1, <2>3
<1>2. CASE ~(writer[w].op = "sync" /\ writer[w].run.state = "active")
  BY <1>2, EndPlace DEF Removed
<1> QED
  BY <1>1, <1>2

\* Faults are counted up to their bound, and are disturbances.
LEMMA FaultType == TypeOK /\ Fault => faults' \in 0 .. MaxFaults /\ disturbed' = TRUE
BY ScheduleAssumption DEF TypeOK, Fault

\* What is found is a cron.
LEMMA FoundType ==
  ASSUME NEW c \in Crons \cup {None}, Found(c)
  PROVE  IF Stored = {} THEN c = None ELSE c \in Stored /\ c \in Crons
BY DEF Found, Stored

\* The state stays well typed.
LEMMA TypeStep == TypeOK /\ [Next]_vars => TypeOK'
<1> SUFFICES ASSUME TypeOK, [Next]_vars PROVE TypeOK'
  OBVIOUS
<1> USE ScheduleAssumption
<1>0. /\ row \in Rows /\ \A w \in Writers : writer[w] \in WriterStates /\ writer[w].run \in Rows
      /\ \A w \in Writers : writer[w].cron \in Crons \cup {None}
      /\ Sweep \in Writers /\ Requests \subseteq Writers
      /\ {"update", "delete", "find", "remove", "add", "list", "prune"} \subseteq Stages
  BY DEF TypeOK, WriterStates, Writers, Stages
<1>1. ASSUME NEW q \in Requests, Create(q) PROVE TypeOK'
  <2>1. PICK new \in [state : {"inactive", "active"}, cron : Crons, payload : Payloads] :
          row' = new /\ Search(q, "sync", new, new.cron)
    BY <1>1 DEF Create
  <2>2. new \in Rows /\ new.cron \in Crons \cup {None}
    BY DEF Rows
  <2>3. Standing'
    BY <1>0, <2>1, <2>2, SearchPlace
  <2>4. disturbed' \in BOOLEAN
    BY <1>1 DEF Create, Starts
  <2> QED
    BY <1>1, <2>1, <2>2, <2>3, <2>4 DEF Create, TypeOK, Standing
<1>2. ASSUME NEW q \in Requests, PatchRead(q) \/ DeleteRead(q) PROVE TypeOK'
  <2>1. PICK next \in {"update", "delete"} : Read(q, next)
    BY <1>2 DEF PatchRead, DeleteRead
  <2> DEFINE place == [Idle EXCEPT !.at = next, !.run = row]
  <2>2. place \in WriterStates /\ place.at # "remove"
    BY <1>0, PlaceTypes DEF Idle
  <2>3. Standing'
    BY <1>0, <2>1, <2>2, PlaceType DEF Read
  <2>4. disturbed' \in BOOLEAN
    BY <2>1 DEF Read, Starts
  <2> QED
    BY <2>1, <2>3, <2>4 DEF Read, TypeOK, Standing
<1>3. ASSUME NEW q \in Requests, Update(q) PROVE TypeOK'
  <2>1. CASE End(q) /\ row' = row
    BY <1>0, <1>3, <2>1, EndPlace DEF Update, TypeOK, Standing
  <2>2. CASE \E new \in Edited(row) :
               row' = new /\ \/ Search(q, "sync", new, new.cron)
                             \/ Search(q, "remove", new, writer[q].run.cron)
    <3>1. PICK new \in Edited(row) :
               row' = new /\ \/ Search(q, "sync", new, new.cron)
                             \/ Search(q, "remove", new, writer[q].run.cron)
      BY <2>2
    <3>2. new \in Rows /\ new.cron \in Crons \cup {None}
      BY DEF Edited, Rows
    <3>3. writer[q].run.cron \in Crons \cup {None}
      BY <1>0 DEF Rows
    <3>4. Standing'
      BY <1>0, <3>1, <3>2, <3>3, SearchPlace
    <3> QED
      BY <1>3, <3>1, <3>2, <3>4 DEF Update, TypeOK, Standing
  <2> QED
    BY <1>3, <2>1, <2>2 DEF Update
<1>4. ASSUME NEW q \in Requests, Delete(q) PROVE TypeOK'
  <2>1. CASE End(q) /\ row' = row
    BY <1>0, <1>4, <2>1, EndPlace DEF Delete, TypeOK, Standing
  <2>2. CASE row' = [NoRow EXCEPT !.state = "deleted"] /\ Search(q, "remove", NoRow, None)
    <3>1. Standing'
      BY <1>0, <2>2, NoRowType, SearchPlace
    <3> QED
      BY <1>4, <2>2, <3>1, NoRowType DEF Delete, TypeOK, Standing
  <2> QED
    BY <1>4, <2>1, <2>2 DEF Delete
<1>5. ASSUME NEW w \in Writers, Find(w) PROVE TypeOK'
  <2>1. Standing'
    <3>1. CASE Removed(w)
      BY <3>1, RemovedPlace
    <3>2. CASE \E cron \in Crons : writer' = [writer EXCEPT ![w].at = "remove", ![w].cron = cron]
      BY <1>0, <3>2, StagePlace
    <3> QED
      BY <1>0, <1>5, <3>1, <3>2 DEF Find
  <2>2. faults' \in 0 .. MaxFaults /\ disturbed' \in BOOLEAN
    BY <1>5, FaultType DEF Find, TypeOK
  <2> QED
    BY <1>5, <2>1, <2>2 DEF Find, TypeOK, Standing
<1>6. ASSUME NEW w \in Writers, Remove(w) PROVE TypeOK'
  <2>1. Standing'
    BY <1>6, RemovedPlace DEF Remove
  <2>2. faults' \in 0 .. MaxFaults /\ disturbed' \in BOOLEAN
    BY <1>6, FaultType DEF Remove, TypeOK
  <2>3. trigger' \in [Crons -> Payloads \cup {None}]
    BY <1>6 DEF Remove, TypeOK
  <2> QED
    BY <1>6, <2>1, <2>2, <2>3 DEF Remove, TypeOK, Standing
<1>7. ASSUME NEW w \in Writers, Add(w) PROVE TypeOK'
  <2>1. Standing'
    BY <1>7, EndPlace DEF Add
  <2>2. faults' \in 0 .. MaxFaults /\ disturbed' \in BOOLEAN
    BY <1>7, FaultType DEF Add, TypeOK
  <2>3. writer[w].run.cron \in Crons /\ writer[w].run.payload \in Payloads
    BY <1>0 DEF Rows
  <2>4. trigger' \in [Crons -> Payloads \cup {None}]
    BY <1>7, <2>3 DEF Add, TypeOK
  <2> QED
    BY <1>7, <2>1, <2>2, <2>4 DEF Add, TypeOK, Standing
<1>8. ASSUME SweepRows PROVE TypeOK'
  <2> DEFINE place == [Idle EXCEPT !.at = "list", !.run = row]
  <2>1. place \in WriterStates /\ place.at # "remove"
    BY <1>0, PlaceTypes DEF Idle
  <2>2. Standing'
    BY <1>0, <1>8, <2>1, PlaceType DEF SweepRows
  <2>3. disturbed' \in BOOLEAN
    BY <1>8 DEF SweepRows, Starts
  <2> QED
    BY <1>8, <2>2, <2>3 DEF SweepRows, TypeOK, Standing
<1>9. ASSUME SweepList PROVE TypeOK'
  <2>1. writer[Sweep].run.cron \in Crons \cup {None}
    BY <1>0 DEF Rows
  <2>2. \/ End(Sweep)
        \/ Search(Sweep, "sync", writer[Sweep].run, writer[Sweep].run.cron)
        \/ writer' = [writer EXCEPT ![Sweep].at = "prune"]
    BY <1>9 DEF SweepList
  <2>3. ASSUME writer' = [writer EXCEPT ![Sweep].at = "prune"] PROVE Standing'
    <3> DEFINE place == [writer[Sweep] EXCEPT !.at = "prune"]
    <3>1. place \in WriterStates /\ place.at # "remove"
      BY <1>0 DEF WriterStates
    <3>2. writer' = [writer EXCEPT ![Sweep] = place]
      BY <2>3 DEF TypeOK
    <3>3. Sweep \in Writers
      BY <1>0
    <3> HIDE DEF place
    <3> QED
      BY <3>1, <3>2, <3>3, PlaceType
  <2>4. ASSUME Search(Sweep, "sync", writer[Sweep].run, writer[Sweep].run.cron) PROVE Standing'
    BY <1>0, <2>1, <2>4, SearchPlace
  <2>5. End(Sweep) => Standing'
    BY <1>0, EndPlace
  <2>6. Standing'
    BY <2>2, <2>3, <2>4, <2>5
  <2>7. listed' \subseteq Crons
    BY <1>9 DEF SweepList, TypeOK, Stored
  <2> QED
    BY <1>9, <2>6, <2>7 DEF SweepList, TypeOK, Standing
<1>10. ASSUME Prune PROVE TypeOK'
  <2>1. Standing'
    BY <1>0, <1>10, EndPlace DEF Prune, TypeOK, Standing
  <2>2. faults' \in 0 .. MaxFaults /\ disturbed' \in BOOLEAN
    BY <1>10, FaultType DEF Prune, TypeOK
  <2>3. trigger' \in [Crons -> Payloads \cup {None}] /\ listed' \subseteq Crons
    BY <1>10 DEF Prune, TypeOK
  <2> QED
    BY <1>10, <2>1, <2>2, <2>3 DEF Prune, TypeOK, Standing
<1>11. ASSUME NEW q \in Requests, Lost(q) PROVE TypeOK'
  BY <1>0, <1>11, EndPlace, FaultType DEF Lost, TypeOK, Standing
<1>12. ASSUME SweepLost PROVE TypeOK'
  BY <1>0, <1>12, EndPlace, FaultType DEF SweepLost, TypeOK, Standing
<1>13. ASSUME RedisRestarts PROVE TypeOK'
  BY <1>13, FaultType DEF RedisRestarts, TypeOK
<1>14. ASSUME UNCHANGED vars PROVE TypeOK'
  BY <1>14 DEF vars, TypeOK
<1>15. ASSUME NEW w \in Writers, Align(w) PROVE TypeOK'
  BY <1>5, <1>6, <1>7, <1>15 DEF Align
<1> QED
  BY <1>0, <1>1, <1>2, <1>3, <1>4, <1>8, <1>9, <1>10, <1>11, <1>12, <1>13, <1>14, <1>15
  DEF Next, Begin, Handle, SweepStep

-----------------------------------------------------------------------------
\* A disturbed step has nothing to keep.
LEMMA Disturbed == disturbed' = TRUE => SyncInv'
BY DEF SyncInv

\* Disturbances are not forgotten, so an undisturbed step starts undisturbed.
LEMMA StaysDisturbed == TypeOK /\ [Next]_vars /\ disturbed => disturbed'
<1> SUFFICES ASSUME TypeOK, [Next]_vars, disturbed PROVE disturbed'
  OBVIOUS
<1>1. ASSUME NEW w \in Writers, Starts(w) PROVE disturbed'
  BY <1>1 DEF Starts
<1>2. Fault => disturbed'
  BY DEF Fault
<1>3. ASSUME NEW q \in Requests, Begin(q) PROVE disturbed'
  BY <1>1, <1>3 DEF Begin, Create, PatchRead, DeleteRead, Read, Writers
<1>4. ASSUME NEW w \in Writers, Align(w) PROVE disturbed'
  BY <1>2, <1>4 DEF Align, Find, Remove, Add
<1>5. ASSUME NEW q \in Requests, Update(q) \/ Delete(q) \/ Lost(q) PROVE disturbed'
  BY <1>2, <1>5 DEF Update, Delete, Lost
<1>6. SweepRows => disturbed'
  BY <1>1 DEF SweepRows, Writers
<1>7. SweepList \/ Prune \/ SweepLost \/ RedisRestarts \/ UNCHANGED vars => disturbed'
  BY <1>2 DEF SweepList, Prune, SweepLost, RedisRestarts, vars
<1> QED
  BY <1>3, <1>4, <1>5, <1>6, <1>7 DEF Next, Handle, SweepStep, Writers

\* A step of the one writer at work: it ends in line, or goes on as it should.
LEMMA OneStep ==
  ASSUME TypeOK, SyncInv, ~disturbed, NEW w \in Writers,
         \/ ~Resting(w)
         \/ \A v \in Writers : Resting(v),
         \A v \in Writers \ {w} : writer'[v] = writer[v],
         IF writer'[w].at \in {"new", "done"} THEN trigger' = Wanted(row)' ELSE AtWork(w)'
  PROVE  SyncInv'
<1>1. \A v \in Writers \ {w} : Resting(v) /\ Resting(v)'
  BY DEF SyncInv, OneAtWork, Resting
<1>2. OneAtWork'
  BY <1>1 DEF OneAtWork
<1>3. (\A v \in Writers : Resting(v))' => trigger' = Wanted(row)'
  BY DEF Resting
<1>4. \A v \in Writers \ {w} : AtWork(v)'
  BY <1>1 DEF AtWork, Resting
<1>5. AtWork(w)'
  BY DEF AtWork
<1> QED
  BY <1>2, <1>3, <1>4, <1>5 DEF SyncInv

\* The triggers a row asks for are stored at its own cron, if it is active.
LEMMA WantedStored ==
  ASSUME TypeOK, trigger = Wanted(row)
  PROVE  /\ \A c \in Stored : c = row.cron
         /\ row.state # "active" => Stored = {}
BY DEF Wanted, Stored, TypeOK

\* A row that is not active asks for nothing.
LEMMA EmptyWanted ==
  ASSUME NEW t \in [Crons -> Payloads \cup {None}], \A c \in Crons : t[c] = None,
         NEW r \in Rows, r.state # "active"
  PROVE  t = Wanted(r)
BY DEF Wanted

\* The removal is over, and nothing is stored: go on to the add, or be in line.
LEMMA RemovedStep ==
  ASSUME TypeOK, TypeOK', SyncInv, ~disturbed, NEW w \in Writers,
         writer[w].at \in {"find", "remove"}, Removed(w), row' = row,
         \A c \in Crons : trigger'[c] = None
  PROVE  SyncInv'
<1>1. AtWork(w)
  BY DEF SyncInv
<1>2. ~Resting(w)
  BY DEF Resting
<1>3. \A v \in Writers \ {w} : writer'[v] = writer[v]
  BY RemovedPlace
<1>4. CASE writer[w].op = "sync" /\ writer[w].run.state = "active"
  <2>1. writer'[w].at = "add" /\ writer'[w].op = "sync" /\ writer'[w].run = writer[w].run
    BY <1>4, RemovedPlace
  <2>2. writer[w].run = row
    BY <1>1, <1>4 DEF AtWork
  <2>3. AtWork(w)'
    BY <1>4, <2>1, <2>2 DEF AtWork, Stored
  <2> QED
    BY <1>2, <1>3, <2>1, <2>3, OneStep
<1>5. CASE ~(writer[w].op = "sync" /\ writer[w].run.state = "active")
  <2>1. writer'[w].at \in {"new", "done"}
    BY <1>5, RemovedPlace
  <2>2. row.state # "active"
    BY <1>1, <1>5 DEF AtWork
  <2>3. trigger' = Wanted(row')
    BY <2>2, EmptyWanted DEF TypeOK
  <2>4. trigger' = Wanted(row)'
    BY <2>3 DEF Wanted
  <2> QED
    BY <1>2, <1>3, <2>1, <2>4, OneStep
<1> QED
  BY <1>4, <1>5

\* Undisturbed writers stay undisturbed and in line.
LEMMA SyncStep == TypeOK /\ SyncInv /\ [Next]_vars => SyncInv'
<1> SUFFICES ASSUME TypeOK, TypeOK', SyncInv, [Next]_vars, ~disturbed, ~disturbed'
             PROVE  SyncInv'
  BY TypeStep, StaysDisturbed DEF SyncInv
<1> USE ScheduleAssumption
<1>0. /\ OneAtWork /\ \A w \in Writers : AtWork(w)
      /\ (\A w \in Writers : Resting(w)) => trigger = Wanted(row)
      /\ Sweep \in Writers /\ Requests \subseteq Writers /\ row \in Rows
      /\ \A w \in Writers : writer[w].run \in Rows
      /\ \A w \in Writers : writer[w].cron \in Crons \cup {None}
  BY DEF SyncInv, Writers, TypeOK, WriterStates
<1>a. ~Fault
  BY DEF Fault
<1>b. ASSUME NEW w \in Writers, Starts(w), writer[w].at = "new"
      PROVE  (\A v \in Writers : Resting(v)) /\ trigger = Wanted(row)
  BY <1>0, <1>b DEF Starts, Resting
<1>c. /\ \A c, d \in Stored : trigger = Wanted(row) => c = d
      /\ trigger = Wanted(row) /\ row.state # "active" => Stored = {}
  BY WantedStored
<1>1. ASSUME NEW q \in Requests, Create(q) PROVE SyncInv'
  <2>1. PICK new \in [state : {"inactive", "active"}, cron : Crons, payload : Payloads] :
          row' = new /\ Search(q, "sync", new, new.cron)
    BY <1>1 DEF Create
  <2>2. new \in Rows /\ new.cron \in Crons \cup {None}
    BY DEF Rows
  <2>3. /\ writer'[q] = [at |-> "find", op |-> "sync", run |-> new, cron |-> new.cron]
        /\ \A v \in Writers \ {q} : writer'[v] = writer[v]
    BY <1>0, <2>1, <2>2, SearchPlace
  <2>4. (\A v \in Writers : Resting(v)) /\ Stored = {} /\ trigger' = trigger
    BY <1>0, <1>1, <1>b, <1>c DEF Create
  <2>5. AtWork(q)'
    BY <2>1, <2>3, <2>4 DEF AtWork, Stored
  <2> QED
    BY <1>0, <2>3, <2>4, <2>5, OneStep
<1>2. ASSUME NEW q \in Requests, PatchRead(q) \/ DeleteRead(q) PROVE SyncInv'
  <2>1. PICK next \in {"update", "delete"} : Read(q, next)
    BY <1>2 DEF PatchRead, DeleteRead
  <2>2. /\ writer'[q].at = next /\ writer'[q].run = row
        /\ \A v \in Writers \ {q} : writer'[v] = writer[v]
    BY <1>0, <2>1 DEF Read, Idle, TypeOK
  <2>3. /\ \A v \in Writers : Resting(v)
        /\ trigger = Wanted(row) /\ trigger' = trigger /\ row' = row
    BY <1>0, <1>b, <2>1 DEF Read
  <2>4. AtWork(q)'
    BY <2>2, <2>3 DEF AtWork, Wanted
  <2> QED
    BY <1>0, <2>2, <2>3, <2>4, OneStep
<1>3. ASSUME NEW q \in Requests, Update(q) \/ Delete(q) PROVE SyncInv'
  <2>0. /\ trigger' = trigger /\ trigger = Wanted(row) /\ ~Resting(q)
        /\ q \in Writers
    BY <1>0, <1>3 DEF Update, Delete, AtWork, Resting
  <2>1. CASE End(q) /\ row' = row
    <3>1. writer'[q].at \in {"new", "done"} /\ \A v \in Writers \ {q} : writer'[v] = writer[v]
      BY <1>0, <2>1, EndPlace
    <3>2. trigger' = Wanted(row)'
      BY <2>0, <2>1 DEF Wanted
    <3> QED
      BY <2>0, <3>1, <3>2, OneStep
  <2>2. ASSUME NEW op \in {"sync", "remove"}, NEW run \in Rows, NEW cron \in Crons \cup {None},
               Search(q, op, run, cron), IF op = "sync" THEN row' = run ELSE row'.state # "active"
        PROVE  SyncInv'
    <3>1. /\ writer'[q] = [at |-> "find", op |-> op, run |-> run, cron |-> cron]
          /\ \A v \in Writers \ {q} : writer'[v] = writer[v]
      BY <2>0, <2>2, SearchPlace
    <3>2. AtWork(q)'
      BY <1>c, <2>0, <2>2, <3>1 DEF AtWork, Stored
    <3> QED
      BY <2>0, <3>1, <3>2, OneStep
  <2>3. CASE Update(q)
    <3>1. CASE Exists
      <4>1. PICK new \in Edited(row) :
               /\ row' = new
               /\ IF new.state = "active" THEN Search(q, "sync", new, new.cron)
                  ELSE Search(q, "remove", new, writer[q].run.cron)
        BY <2>3, <3>1 DEF Update
      <4>2. new \in Rows /\ new.cron \in Crons \cup {None} /\ writer[q].run.cron \in Crons \cup {None}
        BY <1>0 DEF Edited, Rows
      <4> QED
        BY <2>2, <4>1, <4>2
    <3> QED
      BY <2>1, <2>3, <3>1 DEF Update
  <2>4. CASE Delete(q)
    <3>1. CASE Exists
      <4>1. row'.state # "active" /\ Search(q, "remove", NoRow, None)
        BY <2>4, <3>1 DEF Delete, NoRow
      <4> QED
        BY <2>2, <4>1, NoRowType
    <3> QED
      BY <2>1, <2>4, <3>1 DEF Delete
  <2> QED
    BY <1>3, <2>3, <2>4
<1>4. ASSUME NEW w \in Writers, Find(w) PROVE SyncInv'
  <2>1. /\ row' = row /\ trigger' = trigger /\ ~Resting(w) /\ writer[w].at = "find"
    BY <1>4 DEF Find, Resting
  <2>2. PICK c \in Crons \cup {None} :
          /\ Found(c)
          /\ LET cron == IF c = None THEN writer[w].cron ELSE c
             IN  IF cron = None THEN Removed(w)
                 ELSE writer' = [writer EXCEPT ![w].at = "remove", ![w].cron = cron]
    BY <1>4, <1>a DEF Find
  <2> DEFINE cron == IF c = None THEN writer[w].cron ELSE c
  <2>3. CASE cron = None
    <3>1. Stored = {} /\ Removed(w)
      BY <2>2, <2>3, FoundType
    <3>2. \A d \in Crons : trigger'[d] = None
      BY <2>1, <3>1 DEF Stored
    <3> QED
      BY <2>1, <3>1, <3>2, RemovedStep
  <2>4. CASE cron # None
    <3>1. writer' = [writer EXCEPT ![w].at = "remove", ![w].cron = cron]
      BY <2>2, <2>4
    <3>2. cron \in Crons \cup {None} /\ "remove" \in Stages
      BY <1>0 DEF Stages
    <3> HIDE DEF cron
    <3>3. /\ writer'[w].at = "remove" /\ writer'[w].cron = cron
          /\ writer'[w].op = writer[w].op /\ writer'[w].run = writer[w].run
          /\ \A v \in Writers \ {w} : writer'[v] = writer[v]
      BY <3>1 DEF TypeOK, WriterStates
    <3>4. \A d \in Stored : d = cron
      BY <1>0, <2>1, <2>2, FoundType DEF AtWork, cron
    <3>5. AtWork(w)'
      BY <1>0, <2>1, <3>3, <3>4 DEF AtWork, Stored
    <3> QED
      BY <2>1, <3>3, <3>5, OneStep
  <2> QED
    BY <2>3, <2>4
<1>5. ASSUME NEW w \in Writers, Remove(w) PROVE SyncInv'
  <2>1. /\ row' = row /\ writer[w].at = "remove" /\ Removed(w)
        /\ trigger' = [trigger EXCEPT ![writer[w].cron] = None]
    BY <1>5, <1>a DEF Remove
  <2>2. \A c \in Crons : trigger'[c] = None
    BY <1>0, <2>1 DEF AtWork, Stored, TypeOK
  <2> QED
    BY <2>1, <2>2, RemovedStep
<1>6. ASSUME NEW w \in Writers, Add(w) PROVE SyncInv'
  <2>1. /\ row' = row /\ writer[w].at = "add" /\ ~Resting(w) /\ End(w)
    BY <1>6 DEF Add, Resting
  <2>2. Stored = {} /\ writer[w].run = row /\ row.state = "active"
    BY <1>0, <2>1 DEF AtWork
  <2>3. row.cron \in Crons /\ row.payload \in Payloads /\ trigger[row.cron] = None
    BY <1>0, <2>2 DEF Rows, Stored
  <2>4. trigger' = [trigger EXCEPT ![row.cron] = row.payload]
    BY <1>6, <1>a, <2>2, <2>3 DEF Add
  <2>5. trigger' = Wanted(row)'
    BY <2>1, <2>2, <2>3, <2>4 DEF Wanted, Stored, TypeOK
  <2> QED
    BY <2>1, <2>5, EndPlace, OneStep
<1>7. ASSUME SweepRows PROVE SyncInv'
  <2>1. /\ writer'[Sweep].at = "list" /\ writer'[Sweep].run = row
        /\ \A v \in Writers \ {Sweep} : writer'[v] = writer[v]
    BY <1>0, <1>7 DEF SweepRows, Idle, TypeOK
  <2>2. /\ \A v \in Writers : Resting(v)
        /\ trigger = Wanted(row) /\ trigger' = trigger /\ row' = row
    BY <1>0, <1>7, <1>b DEF SweepRows
  <2>3. AtWork(Sweep)'
    BY <2>1, <2>2 DEF AtWork, Wanted
  <2> QED
    BY <1>0, <2>1, <2>2, <2>3, OneStep
<1>8. ASSUME SweepList PROVE SyncInv'
  <2>0. /\ trigger' = trigger /\ row' = row /\ writer[Sweep].at = "list" /\ ~Resting(Sweep)
        /\ writer[Sweep].run = row /\ trigger = Wanted(row)
    BY <1>0, <1>8 DEF SweepList, Resting, AtWork
  <2>1. CASE End(Sweep)
    <3>1. trigger' = Wanted(row)'
      BY <2>0 DEF Wanted
    <3> QED
      BY <1>0, <2>0, <2>1, <3>1, EndPlace, OneStep
  <2>2. CASE Search(Sweep, "sync", row, row.cron)
    <3>1. row.cron \in Crons \cup {None}
      BY <1>0 DEF Rows
    <3>2. /\ writer'[Sweep] = [at |-> "find", op |-> "sync", run |-> row, cron |-> row.cron]
          /\ \A v \in Writers \ {Sweep} : writer'[v] = writer[v]
      BY <1>0, <2>2, <3>1, SearchPlace
    <3>3. AtWork(Sweep)'
      BY <1>c, <2>0, <3>2 DEF AtWork, Stored
    <3> QED
      BY <1>0, <2>0, <3>2, <3>3, OneStep
  <2>3. CASE writer' = [writer EXCEPT ![Sweep].at = "prune"] /\ row.state # "active"
    <3>1. /\ writer'[Sweep].at = "prune" /\ writer'[Sweep].run = row
          /\ \A v \in Writers \ {Sweep} : writer'[v] = writer[v]
      BY <1>0, <2>0, <2>3 DEF TypeOK, WriterStates
    <3>2. AtWork(Sweep)'
      BY <2>0, <2>3, <3>1 DEF AtWork, Wanted
    <3> QED
      BY <1>0, <2>0, <3>1, <3>2, OneStep
  <2> QED
    BY <1>8, <2>0, <2>1, <2>2, <2>3 DEF SweepList
<1>9. ASSUME Prune PROVE SyncInv'
  <2>0. /\ row' = row /\ writer[Sweep].at = "prune" /\ ~Resting(Sweep)
        /\ writer[Sweep].run = row /\ trigger = Wanted(row) /\ row.state # "active"
    BY <1>0, <1>9 DEF Prune, Resting, AtWork
  <2>1. trigger' = trigger
    <3>1. \A c \in Crons : trigger[c] = None
      BY <1>c, <2>0 DEF Stored
    <3>2. \/ UNCHANGED trigger
          \/ \E c \in listed : trigger' = [trigger EXCEPT ![c] = None]
      BY <1>9 DEF Prune
    <3> QED
      BY <3>1, <3>2 DEF TypeOK
  <2>2. trigger' = Wanted(row)'
    BY <2>0, <2>1 DEF Wanted
  <2>3. CASE End(Sweep)
    BY <1>0, <2>0, <2>2, <2>3, EndPlace, OneStep
  <2>4. CASE writer' = writer
    BY <1>0, <2>0, <2>1, <2>4 DEF SyncInv, AtWork, OneAtWork, Resting, Wanted, Stored
  <2> QED
    BY <1>9, <2>3, <2>4 DEF Prune
<1>10. ASSUME UNCHANGED vars PROVE SyncInv'
  BY <1>10 DEF vars, SyncInv, AtWork, OneAtWork, Resting, Wanted, Stored
<1>11. ASSUME NEW w \in Writers, Align(w) PROVE SyncInv'
  BY <1>4, <1>5, <1>6, <1>11 DEF Align
<1>12. /\ \A q \in Requests : ~Lost(q)
       /\ ~SweepLost /\ ~RedisRestarts
  BY <1>a DEF Lost, SweepLost, RedisRestarts
<1> QED
  BY <1>0, <1>1, <1>2, <1>3, <1>7, <1>8, <1>9, <1>10, <1>11, <1>12
  DEF Next, Begin, Handle, SweepStep

-----------------------------------------------------------------------------
\* At first nobody is at work and Redis is in line.
LEMMA IndInit == Init => IndInv
<1> SUFFICES ASSUME Init PROVE IndInv
  OBVIOUS
<1> USE ScheduleAssumption
<1>1. row \in Rows
  BY NoRowType DEF Init, Rows
<1>2. Idle \in WriterStates /\ Idle.at = "new"
  BY NoRowType DEF Idle, WriterStates, Stages
<1>3. \A w \in Writers : writer[w] = Idle
  BY DEF Init
<1>4. trigger \in [Crons -> Payloads \cup {None}]
  BY <1>1 DEF Init, Wanted, Rows
<1>5. TypeOK
  <2>1. writer \in [Writers -> WriterStates]
    BY <1>2 DEF Init
  <2>2. faults \in 0 .. MaxFaults /\ listed \subseteq Crons
    BY DEF Init
  <2>3. disturbed \in BOOLEAN
    BY DEF Init
  <2> QED
    BY <1>1, <1>2, <1>3, <1>4, <2>1, <2>2, <2>3 DEF TypeOK
<1>6. SyncInv
  BY <1>2, <1>3 DEF SyncInv, OneAtWork, AtWork, Resting, Init
<1> QED
  BY <1>5, <1>6 DEF IndInv

\* The invariant holds of every reachable state.
THEOREM Inductive == Spec => []IndInv
<1>1. IndInv /\ [Next]_vars => IndInv'
  BY TypeStep, SyncStep DEF IndInv
<1> QED
  BY <1>1, IndInit, PTL DEF Spec

(***************************************************************************)
(* The state of a schedule and its writers is well typed; a removal has a  *)
(* pattern to remove.                                                      *)
(***************************************************************************)
THEOREM ScheduleTypes == Spec => []TypeOK
BY Inductive, PTL DEF IndInv

(***************************************************************************)
(* Writers that do not overlap and whose calls succeed leave exactly the   *)
(* trigger the row asks for.                                               *)
(***************************************************************************)
THEOREM UndisturbedAgree == Spec => []UndisturbedInSync
<1>1. IndInv => UndisturbedInSync
  BY DEF IndInv, SyncInv, UndisturbedInSync
<1> QED
  BY <1>1, Inductive, PTL
=============================================================================
