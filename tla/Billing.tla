------------------------------ MODULE Billing ------------------------------
(***************************************************************************)
(* From a paid QRIS order to a licence on the organisation.                *)
(*                                                                         *)
(*   POST /api/billing/orders      CreateOrder                             *)
(*   POST /api/billing/webhook     Deliver, Apply*                         *)
(*   issueLicenseForOrder()        ReadOrder, Generate*, PersistOrder*,    *)
(*                                 PersistOrg*, Validate*, Write*          *)
(*   'license-issue' queue job     EnqueueRetry, StartJob                  *)
(*   'order-reconcile' sweep       StartSweep, SweepOrder                  *)
(*                                                                         *)
(* issueLicenseForOrder is reached along three paths, which run            *)
(* concurrently in one process (the worker's concurrency is 3): "inline",  *)
(* fired and forgotten by the webhook; "job", the bounded retry; "sweep",  *)
(* the hourly reconciliation.  Every await of it is a separate action.     *)
(* Midtrans, the License-Validator, Redis and the database are the         *)
(* environment; their failures and process crashes are drawn from          *)
(* FaultKinds and bounded by MaxFaults.                                    *)
(***************************************************************************)
EXTENDS LicenseRules

CONSTANTS
  Orders,        \* payment orders
  Orgs,          \* organisations
  OrgOf,         \* order -> the organisation that placed it
  Hooks,         \* notification handlers that can be in flight at once
  MaxAttempts,   \* LICENSE_ISSUE_MAX_ATTEMPTS
  FaultKinds,    \* the faults this instance exercises
  MaxFaults      \* bound: how many faults in one behaviour

Faults == {"crash", "hook_write", "order_read", "refused", "lost_answer",
           "order_write", "org_write", "enqueue"}

ASSUME BillingAssumption ==
  /\ OrgOf \in [Orders -> Orgs]
  /\ Null \notin Orgs
  /\ MaxAttempts \in Nat \ {0}
  /\ MaxFaults \in Nat
  /\ FaultKinds \subseteq Faults

VARIABLES
  status,     \* order -> Order.status, "absent" before the row exists
  issuedKey,  \* order -> Order.licenseKeyIssued
  aged,       \* orders settled for longer than ORDER_RECONCILE_MIN_AGE_MS
  license,    \* organisation -> its licence columns
  hook,       \* handler -> the notification it is working on, or Idle
  run,        \* <<order, path>> -> progress of one issueLicenseForOrder call
  job,        \* order -> its 'license-issue' job
  batch,      \* orders the running sweep has yet to try
  paid,       \* order -> what the customer paid: "nothing", "exact", "other"
  credits,    \* order -> licence terms the validator granted for it
  term,       \* organisation -> months on the validator's licence
  faults      \* faults so far

dbVars  == <<status, issuedKey, aged, license>>
envVars == <<paid, credits, term>>
vars    == <<dbVars, hook, run, job, batch, envVars, faults>>

Paths  == {"inline", "job", "sweep"}
Kinds  == {"settlement", "mismatch", "failure", "other"}
Idle   == [kind |-> "none"]
Unpaid == [key |-> Null, status |-> "unpaid", plan |-> Null,
           validatedAt |-> Null, expiresAt |-> Null]

\* One call of issueLicenseForOrder: the await it is at, the expiry that
\* generate returned, and the validation answer it holds.
Steps == {"idle", "read", "generate", "persist_order", "persist_org",
          "validate", "write"}
Call(at, expiry, answer) == [at |-> at, expiry |-> expiry, answer |-> answer]
NoCall == Call("idle", Null, UnsignedAnswer)
Calls  == [at : Steps, expiry : Nat \cup {Null}, answer : Answers]

JobStates == {"none", "parked", "waiting", "active", "completed", "failed"}
NoJob == [state |-> "none", attempts |-> 0, stalls |-> 0]
Jobs  == [state : JobStates, attempts : Nat, stalls : Nat]

TypeOK ==
  /\ status \in [Orders -> {"absent", "pending", "failed", "settlement"}]
  /\ issuedKey \in [Orders -> Orgs \cup {Null}]
  /\ aged \in SUBSET Orders
  /\ license \in [Orgs -> License(Orgs)]
  /\ hook \in [Hooks -> {Idle} \cup [kind : Kinds, order : Orders]]
  /\ run \in [Orders \X Paths -> Calls]
  /\ job \in [Orders -> Jobs]
  /\ batch \in SUBSET Orders
  /\ paid \in [Orders -> {"nothing", "exact", "other"}]
  /\ credits \in [Orders -> Nat]
  /\ term \in [Orgs -> Nat]
  /\ faults \in Nat

Init ==
  /\ status = [o \in Orders |-> "absent"]
  /\ issuedKey = [o \in Orders |-> Null]
  /\ aged = {}
  /\ license = [g \in Orgs |-> Unpaid]
  /\ hook = [h \in Hooks |-> Idle]
  /\ run = [c \in Orders \X Paths |-> NoCall]
  /\ job = [o \in Orders |-> NoJob]
  /\ batch = {}
  /\ paid = [o \in Orders |-> "nothing"]
  /\ credits = [o \in Orders |-> 0]
  /\ term = [g \in Orgs |-> 0]
  /\ faults = 0

Fault(kind) ==
  /\ kind \in FaultKinds
  /\ faults < MaxFaults
  /\ faults' = faults + 1

At(o, p, step) == run[<<o, p>>].at = step

\* The call <<o, p>> moves on to step, keeping what it holds.
Goto(o, p, step) == run' = [run EXCEPT ![<<o, p>>].at = step]

-----------------------------------------------------------------------------
(***************************************************************************)
(* Checkout and the payment notifications.                                 *)
(***************************************************************************)

\* getActiveUser({ allowUnlicensed: true }) lets licensed and unpaid
\* organisations through, and no other.
CreateOrder(o) ==
  /\ status[o] = "absent"
  /\ LockdownReason(license[OrgOf[o]], 0) \in {Null, "unpaid"}
  /\ status' = [status EXCEPT ![o] = "pending"]
  /\ UNCHANGED <<issuedKey, aged, license, hook, run, job, batch, envVars, faults>>

\* The customer pays, or a notification for another amount gets signed.
Pay(o, amount) ==
  /\ status[o] # "absent"
  /\ paid[o] = "nothing"
  /\ paid' = [paid EXCEPT ![o] = amount]
  /\ UNCHANGED <<dbVars, hook, run, job, batch, credits, term, faults>>

\* Midtrans signs a settlement only for money it holds; every kind may be
\* repeated, reordered and delivered late.
Notifiable(o, kind) ==
  CASE kind = "settlement" -> paid[o] = "exact"
    [] kind = "mismatch"   -> paid[o] = "other"
    [] OTHER               -> TRUE

\* The signature holds and findUnique finds the order.
Deliver(h, o, kind) ==
  /\ hook[h] = Idle
  /\ status[o] # "absent"
  /\ Notifiable(o, kind)
  /\ hook' = [hook EXCEPT ![h] = [kind |-> kind, order |-> o]]
  /\ UNCHANGED <<dbVars, run, job, batch, envVars, faults>>

Handling(h, kind, o) == hook[h] = [kind |-> kind, order |-> o]

Respond(h) == hook' = [hook EXCEPT ![h] = Idle]

\* The handler's write throws: 500, and Midtrans may notify again.
HookThrows(h) ==
  /\ hook[h] # Idle
  /\ Fault("hook_write")
  /\ Respond(h)
  /\ UNCHANGED <<dbVars, run, job, batch, envVars>>

\* A slip: an unconditional update, so that every replay issues again.
ApplySettlementUnclaimed(h, o) ==
  /\ Handling(h, "settlement", o)
  /\ status' = [status EXCEPT ![o] = "settlement"]
  /\ run' = [run EXCEPT ![<<o, "inline">>] = Call("read", Null, UnsignedAnswer)]
  /\ Respond(h)
  /\ UNCHANGED <<issuedKey, aged, license, job, batch, envVars, faults>>

\* The conditional updateMany claimed the row: issue, fire and forget.
ApplySettlement(h, o) ==
  /\ Handling(h, "settlement", o)
  /\ status[o] # "settlement"
  /\ status' = [status EXCEPT ![o] = "settlement"]
  /\ run' = [run EXCEPT ![<<o, "inline">>] = Call("read", Null, UnsignedAnswer)]
  /\ Respond(h)
  /\ UNCHANGED <<issuedKey, aged, license, job, batch, envVars, faults>>

\* claimed.count === 0: a replay, or the loser of a race.
ApplyReplay(h, o) ==
  /\ Handling(h, "settlement", o)
  /\ status[o] = "settlement"
  /\ Respond(h)
  /\ UNCHANGED <<dbVars, run, job, batch, envVars, faults>>

\* A slip: a late failure notification overwrites the settlement.
ApplyFailureUnguarded(h, o) ==
  /\ Handling(h, "failure", o)
  /\ status' = [status EXCEPT ![o] = "failed"]
  /\ Respond(h)
  /\ UNCHANGED <<issuedKey, aged, license, run, job, batch, envVars, faults>>

ApplyFailure(h, o) ==
  /\ Handling(h, "failure", o)
  /\ status' = [status EXCEPT ![o] = IF @ = "settlement" THEN @ ELSE "failed"]
  /\ Respond(h)
  /\ UNCHANGED <<issuedKey, aged, license, run, job, batch, envVars, faults>>

\* A slip: the amount is not compared, and a mismatch settles.
ApplyRecordSettling(h, o) ==
  /\ Handling(h, "mismatch", o)
  /\ status' = [status EXCEPT ![o] = "settlement"]
  /\ run' = [run EXCEPT ![<<o, "inline">>] = Call("read", Null, UnsignedAnswer)]
  /\ Respond(h)
  /\ UNCHANGED <<issuedKey, aged, license, job, batch, envVars, faults>>

\* Only the raw payload is recorded.
ApplyRecord(h, o) ==
  /\ Handling(h, "mismatch", o) \/ Handling(h, "other", o)
  /\ Respond(h)
  /\ UNCHANGED <<dbVars, run, job, batch, envVars, faults>>

-----------------------------------------------------------------------------
(***************************************************************************)
(* How a call of issueLicenseForOrder ends: { ok: true } or { ok: false }. *)
(***************************************************************************)
Finished(o, p) == run' = [run EXCEPT ![<<o, p>>] = NoCall]

\* A slip: the attempts are counted down instead of up.
RetriedDownwards(j) ==
  [j EXCEPT !.attempts = @ - 1,
            !.state = IF j.attempts - 1 >= MaxAttempts THEN "failed" ELSE "waiting"]

Retried(j) ==
  [j EXCEPT !.attempts = @ + 1,
            !.state = IF j.attempts + 1 >= MaxAttempts THEN "failed" ELSE "waiting"]

ReturnOk(o, p) ==
  /\ Finished(o, p)
  /\ job' = IF p = "job" THEN [job EXCEPT ![o].state = "completed"] ELSE job

\* The webhook parks a jobQueue.add, the worker throws into BullMQ's
\* attempts, the sweep only counts.
ReturnFailed(o, p) ==
  /\ Finished(o, p)
  /\ job' = CASE p = "inline" -> [job EXCEPT ![o].state = "parked"]
              [] p = "job"    -> [job EXCEPT ![o] = Retried(@)]
              [] OTHER        -> job

(***************************************************************************)
(* issueLicenseForOrder, one await at a time.                              *)
(***************************************************************************)
ReadOrder(o, p) ==
  /\ At(o, p, "read")
  /\ IF status[o] = "settlement" /\ issuedKey[o] = Null
     THEN Goto(o, p, "generate") /\ UNCHANGED job
     ELSE ReturnOk(o, p)
  /\ UNCHANGED <<dbVars, hook, batch, envVars, faults>>

\* findUnique throws out of the call; every caller takes that as a failure.
ReadOrderFails(o, p) ==
  /\ At(o, p, "read")
  /\ Fault("order_read")
  /\ ReturnFailed(o, p)
  /\ UNCHANGED <<dbVars, hook, batch, envVars>>

\* The validator extends (or creates) the licence of the organisation.
Extend(o) ==
  /\ credits' = [credits EXCEPT ![o] = @ + 1]
  /\ term' = [term EXCEPT ![OrgOf[o]] = @ + 1]
  /\ UNCHANGED paid

Generate(o, p) ==
  /\ At(o, p, "generate")
  /\ Extend(o)
  /\ \E expiry \in {term'[OrgOf[o]], Null} :
       run' = [run EXCEPT ![<<o, p>>] = Call("persist_order", expiry, UnsignedAnswer)]
  /\ UNCHANGED <<dbVars, hook, job, batch, faults>>

\* HTTP error, a response without a key, or no LICENSE_INTERNAL_SECRET.
GenerateRefused(o, p) ==
  /\ At(o, p, "generate")
  /\ Fault("refused")
  /\ ReturnFailed(o, p)
  /\ UNCHANGED <<dbVars, hook, batch, envVars>>

\* The 10 s timeout fires after the validator extended the licence.
GenerateAnswerLost(o, p) ==
  /\ At(o, p, "generate")
  /\ Fault("lost_answer")
  /\ Extend(o)
  /\ ReturnFailed(o, p)
  /\ UNCHANGED <<dbVars, hook, batch>>

\* A slip: the organisation gets the key, the order does not.
PersistOrderSkipped(o, p) ==
  /\ At(o, p, "persist_order")
  /\ Goto(o, p, "persist_org")
  /\ UNCHANGED <<dbVars, hook, job, batch, envVars, faults>>

PersistOrder(o, p) ==
  /\ At(o, p, "persist_order")
  /\ issuedKey' = [issuedKey EXCEPT ![o] = OrgOf[o]]
  /\ Goto(o, p, "persist_org")
  /\ UNCHANGED <<status, aged, license, hook, job, batch, envVars, faults>>

PersistOrderFails(o, p) ==
  /\ At(o, p, "persist_order")
  /\ Fault("order_write")
  /\ ReturnFailed(o, p)
  /\ UNCHANGED <<dbVars, hook, batch, envVars>>

\* The provisional organisation row; an absent expiresAt leaves the old one.
Provisional(lic, g, expiry) ==
  [lic EXCEPT !.key = g, !.plan = "flat",
              !.expiresAt = IF expiry # Null THEN expiry ELSE @]

PersistOrg(o, p) ==
  /\ At(o, p, "persist_org")
  /\ license' = [license EXCEPT
       ![OrgOf[o]] = Provisional(@, OrgOf[o], run[<<o, p>>].expiry)]
  /\ Goto(o, p, "validate")
  /\ UNCHANGED <<status, issuedKey, aged, hook, job, batch, envVars, faults>>

\* The catch answers "generate request failed"; the order keeps its key.
PersistOrgFails(o, p) ==
  /\ At(o, p, "persist_org")
  /\ Fault("org_write")
  /\ ReturnFailed(o, p)
  /\ UNCHANGED <<dbVars, hook, batch, envVars>>

\* What the validator can say of a licence it has just extended.
PossibleAnswers(g) ==
  {SignedAnswer(TRUE, "ok", "flat", term[g]),
   SignedAnswer(FALSE, "other", Null, Null),
   UnsignedAnswer}

Validate(o, p) ==
  /\ At(o, p, "validate")
  /\ \E answer \in PossibleAnswers(OrgOf[o]) :
       run' = [run EXCEPT ![<<o, p>>] = Call("write", Null, answer)]
  /\ UNCHANGED <<dbVars, hook, job, batch, envVars, faults>>

WriteResult(o, p) ==
  /\ At(o, p, "write")
  /\ license' = [license EXCEPT
       ![OrgOf[o]] = UpdateFromResult(@, run[<<o, p>>].answer, 0)]
  /\ ReturnOk(o, p)
  /\ UNCHANGED <<status, issuedKey, aged, hook, batch, envVars, faults>>

\* validateLicense or the write threw: still { ok: true }.
ValidateThrows(o, p) ==
  /\ At(o, p, "validate") \/ At(o, p, "write")
  /\ license' = [license EXCEPT ![OrgOf[o]] = MarkUnreachable(@)]
  /\ ReturnOk(o, p)
  /\ UNCHANGED <<status, issuedKey, aged, hook, batch, envVars, faults>>

\* The write of the catch block throws as well, out of the call.
MarkFails(o, p) ==
  /\ At(o, p, "validate") \/ At(o, p, "write")
  /\ Fault("org_write")
  /\ ReturnFailed(o, p)
  /\ UNCHANGED <<dbVars, hook, batch, envVars>>

Issue(o, p) ==
  \/ ReadOrder(o, p)
  \/ ReadOrderFails(o, p)
  \/ Generate(o, p)
  \/ GenerateRefused(o, p)
  \/ GenerateAnswerLost(o, p)
  \/ PersistOrder(o, p)
  \/ PersistOrderFails(o, p)
  \/ PersistOrg(o, p)
  \/ PersistOrgFails(o, p)
  \/ Validate(o, p)
  \/ WriteResult(o, p)
  \/ ValidateThrows(o, p)
  \/ MarkFails(o, p)

-----------------------------------------------------------------------------
(***************************************************************************)
(* The retry job and the hourly sweep.                                     *)
(***************************************************************************)
EnqueueRetry(o) ==
  /\ job[o].state = "parked"
  /\ job' = [job EXCEPT ![o].state = "waiting"]
  /\ UNCHANGED <<dbVars, hook, run, batch, envVars, faults>>

\* jobQueue.add rejects; the catch only logs.
EnqueueFails(o) ==
  /\ job[o].state = "parked"
  /\ Fault("enqueue")
  /\ job' = [job EXCEPT ![o].state = "none"]
  /\ UNCHANGED <<dbVars, hook, run, batch, envVars>>

StartJob(o) ==
  /\ job[o].state = "waiting"
  /\ job' = [job EXCEPT ![o].state = "active"]
  /\ run' = [run EXCEPT ![<<o, "job">>] = Call("read", Null, UnsignedAnswer)]
  /\ UNCHANGED <<dbVars, hook, batch, envVars, faults>>

\* Two minutes pass since paidAt.
Age(o) ==
  /\ status[o] = "settlement"
  /\ o \notin aged
  /\ aged' = aged \cup {o}
  /\ UNCHANGED <<status, issuedKey, license, hook, run, job, batch, envVars, faults>>

\* A slip: the age is compared the wrong way round.
ReconcilableYoung ==
  {o \in Orders : status[o] = "settlement" /\ issuedKey[o] = Null /\ o \notin aged}

Reconcilable ==
  {o \in Orders : status[o] = "settlement" /\ issuedKey[o] = Null /\ o \in aged}

\* Assumed: one sweep at a time.  Nothing in the code says so but the hour between
\* them: the worker runs three jobs at once.
Sweeping == batch # {} \/ \E o \in Orders : ~At(o, "sweep", "idle")

StartSweep ==
  /\ ~Sweeping
  /\ Reconcilable # {}
  /\ batch' = Reconcilable
  /\ UNCHANGED <<dbVars, hook, run, job, envVars, faults>>

\* The loop awaits one order before it takes the next.
SweepOrder(o) ==
  /\ o \in batch
  /\ \A q \in Orders : At(q, "sweep", "idle")
  /\ batch' = batch \ {o}
  /\ run' = [run EXCEPT ![<<o, "sweep">>] = Call("read", Null, UnsignedAnswer)]
  /\ UNCHANGED <<dbVars, hook, job, envVars, faults>>

(***************************************************************************)
(* The process dies: handlers, calls and parked adds are lost; BullMQ's    *)
(* stalled checker returns an active job to the queue (maxStalledCount 1). *)
(***************************************************************************)
Stalled(j) ==
  CASE j.state = "parked" -> [j EXCEPT !.state = "none"]
    [] j.state = "active" -> [j EXCEPT !.stalls = @ + 1,
                                !.state = IF j.stalls >= 1 THEN "failed" ELSE "waiting"]
    [] OTHER              -> j

Crash ==
  /\ Fault("crash")
  /\ hook' = [h \in Hooks |-> Idle]
  /\ run' = [c \in Orders \X Paths |-> NoCall]
  /\ job' = [o \in Orders |-> Stalled(job[o])]
  /\ batch' = {}
  /\ UNCHANGED <<dbVars, envVars>>

-----------------------------------------------------------------------------
Next ==
  \/ \E o \in Orders :
       \/ CreateOrder(o)
       \/ \E amount \in {"exact", "other"} : Pay(o, amount)
       \/ \E h \in Hooks :
            \/ \E kind \in Kinds : Deliver(h, o, kind)
            \/ ApplySettlement(h, o)
            \/ ApplyReplay(h, o)
            \/ ApplyFailure(h, o)
            \/ ApplyRecord(h, o)
       \/ \E p \in Paths : Issue(o, p)
       \/ EnqueueRetry(o)
       \/ EnqueueFails(o)
       \/ StartJob(o)
       \/ Age(o)
       \/ SweepOrder(o)
  \/ \E h \in Hooks : HookThrows(h)
  \/ StartSweep
  \/ Crash

Spec == Init /\ [][Next]_vars

(***************************************************************************)
(* Fairness: the event loop resumes every await, the worker takes waiting  *)
(* jobs, parked commands are flushed when Redis is back, time passes and   *)
(* the repeatable sweep keeps firing.  Nothing is assumed of customers or  *)
(* Midtrans, and no fault is fair.                                         *)
(***************************************************************************)
Fairness ==
  /\ \A o \in Orders, p \in Paths : WF_vars(Issue(o, p))
  /\ \A o \in Orders : /\ WF_vars(EnqueueRetry(o))
                       /\ WF_vars(StartJob(o))
                       /\ WF_vars(Age(o))
                       /\ WF_vars(SweepOrder(o))
  /\ WF_vars(StartSweep)

FairSpec == Spec /\ Fairness
=============================================================================
