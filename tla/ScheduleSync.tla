---------------------------- MODULE ScheduleSync ----------------------------
(***************************************************************************)
(* One schedule: its row in the database and the repeatable jobs of its    *)
(* name in Redis, which are what actually fires.  The requests of the user *)
(* interface write the row first and then bring Redis into line, one call  *)
(* at a time; syncAllSchedules of the scheduler service compares the two   *)
(* at its start and every ten minutes.                                     *)
(*                                                                         *)
(* A repeatable job is addressed by its pattern and time zone, here one    *)
(* value of Crons, and carries a copy of the prompt and the notification   *)
(* channel, here one value of Payloads.  getRepeatableJobs lists the jobs  *)
(* by their next firing, so which one of several a search by name finds    *)
(* first depends on the time.  Every job is taken to be stored with its    *)
(* time zone: for one that was not (scheduler-queue.ts:105 calls it        *)
(* legacy), the removal fills in the caller's zone and misses it.          *)
(***************************************************************************)
EXTENDS Naturals

CONSTANTS
  Requests,    \* bound: requests of users
  Crons,       \* pattern and time zone
  Payloads,    \* what a firing executes
  MaxFaults,   \* bound: failed calls, lost requests and Redis restarts
  Sweep,       \* the re-sync of the scheduler service
  None         \* nothing stored, nothing found

ASSUME ScheduleAssumption ==
  /\ Sweep \notin Requests
  /\ None \notin Crons /\ None \notin Payloads
  /\ Crons # {} /\ Payloads # {}
  /\ MaxFaults \in Nat

Writers == Requests \cup {Sweep}

VARIABLES
  row,        \* the ScheduledRun row
  trigger,    \* cron -> payload of the repeatable job stored for it, or None
  writer,     \* request or sweep -> where it stands
  listed,     \* crons of the list a sweep has read and not yet pruned
  faults,     \* faults so far
  disturbed   \* history: a call failed, or two writers were at work at once

vars == <<row, trigger, writer, listed, faults, disturbed>>

Rows == [state : {"absent", "inactive", "active", "deleted"}, cron : Crons, payload : Payloads]

Stages == {"new", "update", "delete", "find", "remove", "add", "list", "prune", "done"}

\* "run" is the row the writer works from; "cron" the one it is to remove.
WriterStates == [at : Stages, op : {"sync", "remove"}, run : Rows, cron : Crons \cup {None}]

TypeOK ==
  /\ row \in Rows
  /\ trigger \in [Crons -> Payloads \cup {None}]
  /\ writer \in [Writers -> WriterStates]
  /\ \A w \in Writers : writer[w].at = "remove" => writer[w].cron # None
  /\ listed \subseteq Crons
  /\ faults \in 0 .. MaxFaults
  /\ disturbed \in BOOLEAN

NoRow == [state |-> "absent", cron |-> CHOOSE c \in Crons : TRUE,
          payload |-> CHOOSE p \in Payloads : TRUE]

Idle == [at |-> "new", op |-> "sync", run |-> NoRow, cron |-> None]

\* The triggers a row asks for.
Wanted(r) == [c \in Crons |-> IF r.state = "active" /\ c = r.cron THEN r.payload ELSE None]

\* No schedule yet, or one in use.
Init ==
  /\ row \in {NoRow} \cup [state : {"active"}, cron : Crons, payload : Payloads]
  /\ trigger = Wanted(row)
  /\ writer = [w \in Writers |-> Idle]
  /\ listed = {}
  /\ faults = 0
  /\ disturbed = FALSE

Exists == row.state \in {"inactive", "active"}

Resting(w) == writer[w].at \in {"new", "done"}

\* The first call of a writer notices the others at work.
Starts(w) == disturbed' = (disturbed \/ \E v \in Writers \ {w} : ~Resting(v))

Fault == faults < MaxFaults /\ faults' = faults + 1 /\ disturbed' = TRUE

\* A request is over; the sweep goes to rest until its timer fires again.
Ended(w) == IF w = Sweep THEN Idle ELSE [Idle EXCEPT !.at = "done"]
End(w)   == writer' = [writer EXCEPT ![w] = Ended(w)]

\* syncSchedule and removeSchedule both begin with findRepeatableJob.
Search(w, op, run, fallback) ==
  writer' = [writer EXCEPT ![w] = [at |-> "find", op |-> op, run |-> run, cron |-> fallback]]

-----------------------------------------------------------------------------
(***************************************************************************)
(* The requests: POST, PATCH and DELETE of /api/schedules.                 *)
(***************************************************************************)
Create(q) ==
  /\ writer[q].at = "new" /\ row.state = "absent"
  /\ \E new \in [state : {"inactive", "active"}, cron : Crons, payload : Payloads] :
       /\ row' = new
       /\ Search(q, "sync", new, new.cron)
  /\ Starts(q)
  /\ UNCHANGED <<trigger, listed, faults>>

\* PATCH reads the row for its old cron, DELETE for its existence.
Read(q, next) ==
  /\ writer[q].at = "new" /\ Exists
  /\ writer' = [writer EXCEPT ![q] = [Idle EXCEPT !.at = next, !.run = row]]
  /\ Starts(q)
  /\ UNCHANGED <<row, trigger, listed, faults>>

PatchRead(q)  == Read(q, "update")
DeleteRead(q) == Read(q, "delete")

\* What the update can make of a row: any of the fields it names changes.
Edited(old) == [state : {"inactive", "active"}, cron : Crons, payload : Payloads] \ {old}

Update(q) ==
  /\ writer[q].at = "update"
  /\ IF ~Exists
     THEN End(q) /\ row' = row
     ELSE \E new \in Edited(row) :
            /\ row' = new
            /\ IF new.state = "active"
               THEN Search(q, "sync", new, new.cron)
               ELSE Search(q, "remove", new, writer[q].run.cron)
  /\ UNCHANGED <<trigger, listed, faults, disturbed>>

Delete(q) ==
  /\ writer[q].at = "delete"
  /\ IF ~Exists
     THEN End(q) /\ row' = row
     ELSE /\ row' = [NoRow EXCEPT !.state = "deleted"]
          /\ Search(q, "remove", NoRow, None)
  /\ UNCHANGED <<trigger, listed, faults, disturbed>>

\* The web process dies with the request under way.
Lost(q) ==
  /\ ~Resting(q) /\ Fault
  /\ End(q)
  /\ UNCHANGED <<row, trigger, listed>>

-----------------------------------------------------------------------------
(***************************************************************************)
(* removeRepeatableFor, and the add of syncSchedule.  A call that fails in *)
(* the removal is swallowed; one that fails in the add ends the writer.    *)
(***************************************************************************)
Stored == {c \in Crons : trigger[c] # None}

\* What a search by name finds first.
Found(c) == IF Stored = {} THEN c = None ELSE c \in Stored

\* After the removal; syncSchedule returns here for an inactive schedule.
Removed(w) ==
  IF writer[w].op = "sync" /\ writer[w].run.state = "active"
  THEN writer' = [writer EXCEPT ![w].at = "add", ![w].cron = None]
  ELSE End(w)

\* A slip: the job is addressed by the cron of the caller.
FindUnstored(w) ==
  /\ writer[w].at = "find"
  /\ \/ /\ IF writer[w].cron = None THEN Removed(w)
           ELSE writer' = [writer EXCEPT ![w].at = "remove"]
        /\ UNCHANGED <<faults, disturbed>>
     \/ Removed(w) /\ Fault
  /\ UNCHANGED <<row, trigger, listed>>

\* A slip: the early return without a cron is missing.
FindUnguarded(w) ==
  /\ writer[w].at = "find"
  /\ \/ /\ \E c \in Crons \cup {None} :
             /\ Found(c)
             /\ LET cron == IF c = None THEN writer[w].cron ELSE c
                IN  writer' = [writer EXCEPT ![w].at = "remove", ![w].cron = cron]
        /\ UNCHANGED <<faults, disturbed>>
     \/ Removed(w) /\ Fault
  /\ UNCHANGED <<row, trigger, listed>>

Find(w) ==
  /\ writer[w].at = "find"
  /\ \/ /\ \E c \in Crons \cup {None} :
             /\ Found(c)
             /\ LET cron == IF c = None THEN writer[w].cron ELSE c
                IN  IF cron = None THEN Removed(w)
                    ELSE writer' = [writer EXCEPT ![w].at = "remove", ![w].cron = cron]
        /\ UNCHANGED <<faults, disturbed>>
     \/ Removed(w) /\ Fault
  /\ UNCHANGED <<row, trigger, listed>>

Remove(w) ==
  /\ writer[w].at = "remove"
  /\ Removed(w)
  /\ \/ trigger' = [trigger EXCEPT ![writer[w].cron] = None] /\ UNCHANGED <<faults, disturbed>>
     \/ UNCHANGED trigger /\ Fault
  /\ UNCHANGED <<row, listed>>

\* Adding to a key that exists may keep the job waiting there.
Add(w) ==
  /\ writer[w].at = "add"
  /\ End(w)
  /\ LET run == writer[w].run
     IN  \/ /\ \E p \in {run.payload, trigger[run.cron]} \ {None} :
                 trigger' = [trigger EXCEPT ![run.cron] = p]
            /\ UNCHANGED <<faults, disturbed>>
         \/ UNCHANGED trigger /\ Fault
  /\ UNCHANGED <<row, listed>>

-----------------------------------------------------------------------------
(***************************************************************************)
(* syncAllSchedules: the active rows, then the stored jobs, each read      *)
(* once; prune what no active row stands for, re-sync a row whose first    *)
(* job is missing or has another cron.  The payload is not compared.       *)
(***************************************************************************)
SweepRows ==
  /\ writer[Sweep].at = "new"
  /\ writer' = [writer EXCEPT ![Sweep] = [Idle EXCEPT !.at = "list", !.run = row]]
  /\ Starts(Sweep)
  /\ UNCHANGED <<row, trigger, listed, faults>>

\* A slip: a schedule with any stored job is taken for synchronised.
NeedsSyncMissing(run, cron) == cron = None

NeedsSync(run, cron) == cron = None \/ cron # run.cron

SweepList ==
  /\ writer[Sweep].at = "list"
  /\ LET run == writer[Sweep].run
     IN  \/ /\ run.state = "active"
            /\ \E c \in Crons \cup {None} :
                 /\ Found(c)
                 /\ IF NeedsSync(run, c) THEN Search(Sweep, "sync", run, run.cron)
                    ELSE End(Sweep)
            /\ UNCHANGED listed
         \/ /\ run.state # "active"
            /\ writer' = [writer EXCEPT ![Sweep].at = "prune"]
            /\ listed' = Stored
  /\ UNCHANGED <<row, trigger, faults, disturbed>>

Prune ==
  /\ writer[Sweep].at = "prune"
  /\ IF listed = {}
     THEN End(Sweep) /\ UNCHANGED <<trigger, listed, faults, disturbed>>
     ELSE \E c \in listed :
            /\ listed' = listed \ {c}
            /\ \/ trigger' = [trigger EXCEPT ![c] = None] /\ UNCHANGED <<faults, disturbed>>
               \/ UNCHANGED trigger /\ Fault
            /\ UNCHANGED writer
  /\ UNCHANGED row

\* The scheduler service dies, or its reads fail.
SweepLost ==
  /\ ~Resting(Sweep) /\ Fault
  /\ End(Sweep)
  /\ listed' = {}
  /\ UNCHANGED <<row, trigger>>

\* Redis restarts without its data.
RedisRestarts ==
  /\ Stored # {} /\ Fault
  /\ trigger' = [c \in Crons |-> None]
  /\ UNCHANGED <<row, writer, listed>>

-----------------------------------------------------------------------------
Align(w) == Find(w) \/ Remove(w) \/ Add(w)

Begin(q) == Create(q) \/ PatchRead(q) \/ DeleteRead(q)

Handle(q) == Update(q) \/ Delete(q) \/ Align(q)

SweepStep == SweepRows \/ SweepList \/ Prune \/ Align(Sweep)

Next ==
  \/ \E q \in Requests : Begin(q) \/ Handle(q) \/ Lost(q)
  \/ SweepStep \/ SweepLost
  \/ RedisRestarts

Spec == Init /\ [][Next]_vars

(***************************************************************************)
(* A request that was begun runs on; the timer of the sweep keeps firing   *)
(* and its calls return.  Users and faults are not fair.                   *)
(***************************************************************************)
Fairness == /\ \A q \in Requests : WF_vars(Handle(q))
            /\ WF_vars(SweepStep)

FairSpec == Spec /\ Fairness
=============================================================================
