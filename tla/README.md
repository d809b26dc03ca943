# ryasai: a verification project

TLA+ models of the parts of ryasai where several actors share stored state, the
TLC runs that check them, and TLAPS proofs of their safety properties. Paths
are relative to the repository root; `lib/` is `src/lib/`, `api/` is
`src/app/api/`.

| | modules | checked by | proved in |
|---|---|---|---|
| licence rules | `LicenseRules` | the billing and entitlement runs | `BillingProofs`, `EntitlementProofs` |
| billing: paid order to licence key | `Billing`, `OrderLifecycle`, `BillingProps` | `MCBilling*.cfg` | `BillingProofs` |
| entitlement: who is locked out | `Entitlement`, `EntitlementProps` | `MCEntitlement*.cfg` | `EntitlementProofs` |
| documents: upload, embedding, graph | `Documents`, `GraphBuild`, `DocumentsProps` | `MCDocuments.cfg` | `DocumentsProofs` |
| schedules: rows and triggers | `ScheduleSync`, `ScheduleSyncProps` | `MCScheduleSync.cfg` | `ScheduleSyncProofs` |
| one tick of a schedule | `ScheduledJob`, `ScheduledJobProps` | `MCScheduledJob.cfg` | `ScheduledJobProofs` |
| planned turns and agent loops on one tool | `ToolGuard`, `PlanModel`, `PlanRun`, `AgentRun`, composed in `ToolTurns`; `Dataflow`, `ToolTurnsProps` | `MCToolTurns.cfg` | `PlanModelProofs`, `ToolTurnsProofs` |
| memory of chat turns | `MemoryQueue`, `MemoryQueueProps` | `MCMemoryQueue.cfg` | `MemoryQueueProofs` |

`PROJECT.json` holds the same in tabular form: components, runs, the source
lines behind each definition, mutated definitions that each property rejects,
findings, hazards and theorems.

## 1. The system

ryasai is a Next.js application with a PostgreSQL database (Prisma), a Redis
behind BullMQ queues, a second process (`mini-services/scheduler`) and external
services: the License-Validator, Midtrans payments, LLM providers and the
Cognee sidecar. Almost all of its concurrency is of one kind: a request
handler, a timer or a queue job reads a row, awaits somebody else, and writes.

| component | state it keeps | operations | shares with / calls | hard behaviour | correct when |
|---|---|---|---|---|---|
| checkout, payment webhook (`api/billing`) | `Order.status`, `paidAt` | create, settle, fail, record | starts issuance; Midtrans repeats and reorders | replay, race of two deliveries, wrong amount, late failure | settled once, never undone, only for the exact amount |
| licence issuance (`lib/license-issue.ts`) | `Order.licenseKeyIssued`, the organisation's licence columns | generate, persist twice, validate | validator; run by webhook, queue job and sweep at once | lost answers, half-done writes, crashes, three callers | every settled order gets a key; one payment extends a bounded number of times |
| reconcile sweep (`lib/order-reconcile.ts`), queue job (`lib/job-processor.ts`) | job attempts, batch | retry, sweep | issuance | exhausted attempts, stalled jobs | nothing settled is forgotten |
| licence rules (`lib/license-client.ts`) | – (pure) | status mapping, row update, grace, lockdown | every licence writer | which answers prove what | no proof, no date; no data, no wipe |
| licence writers (`lib/license-revalidation.ts`, `api/license/retry`, `api/org/license`, `api/auth/activate-license`, `api/webhooks/license`, scheduler) | licence columns | check, activate, notify | validator; each other | stale verdicts, outages, late notifications | revoked customers end up out, paying ones in |
| session gate (`lib/session.ts`) | sessions | `getActiveUser` | reads the licence columns | a lock must not lock out its own cure | locked organisations can only retry, activate and (unpaid) buy |
| documents (`lib/job-processor.ts`, `lib/cognee-document-pipeline.ts`, `api/documents`) | `Document.status`, `cognifyStatus`, saved pipeline state | upload, embed, cognify, reprocess, enable, delete, forget | Cognee, queue | ambiguous launch, double claim, crash between call and save | one unfailed graph run per document; `completed` means indexed; `processing` means somebody works |
| schedules (`lib/scheduler-queue.ts`, `api/schedules`) | `ScheduledRun` rows, repeatable jobs in Redis | create, patch, delete, re-sync | Redis | two stores, no transaction, stale snapshot | the right trigger after undisturbed edits, a healed one in the end |
| scheduled runs (`mini-services/scheduler`) | dedup marker, `ScheduledRunLog` | run, retry, notify | queue, LLM | stalled job against dedup marker | a tick runs alone, a bounded number of times, and is reported truly |
| memory queue (`lib/memory-queue.ts`, `lib/cognee-memory.ts`) | queue | enqueue, inline fallback, write | Redis, Cognee | depth check then add, lost answers | depth cap, no unpaid second write, every turn settles |
| planner (`lib/planner.ts`, `lib/plan-model.ts`) and its sandbox (`lib/tool-sandbox.ts`) | the results of a plan | validate, sort, run level by level, synthesise | pipeline, tools | parallel steps, time-outs, late results | dependencies first, the turn ends |
| agent loop (`lib/agent-orchestrator.ts`) | rounds | think, call tools in parallel | tools, breaker | parallel calls recording on one circuit | rounds are bounded, a circuit opens for a reason |
| breaker (`lib/tool-circuit-breaker.ts`), rate limit of MCP tools | counters in memory and Redis | check, record; INCR, EXPIRE | tools | check and record apart, window without end | limits hold, and end |
| budgets, hedging, shutdown, audit chain, quotas, login throttle | counters, timers, hashes | – | – | settle-once, check then create | – |
| chat, routing, retrieval, guardrails, connectors, UI | mostly none | – | LLMs, external systems | – | data and text, not protocol |

The last two rows and the benchmark, deployment and observability files are
listed one by one, with the reason they are left out, in `PROJECT.json`.

## 2. Modules

### LicenseRules
The pure functions. An organisation licence is a record of five columns; a date
is a number of ticks and `Null` is SQL NULL. `StatusFromResult`,
`UpdateFromResult`, `WithinGrace` and `LockdownReason` are the functions of the
same names in `license-client.ts`. An answer of the validator is signed, with a
verdict, or unsigned; a network error is an exception and not an answer. The
message is reduced to what `includes('expired')` and `includes('deactivated')`
tell apart. Two plans are enough: the fallback `flat` and another one.

### Billing
`status`, `issuedKey` and `license` are the columns of the two tables; `aged`
are the orders past `ORDER_RECONCILE_MIN_AGE_MS`. `hook` holds the webhook
handlers between their read and their write, `run[<<order, path>>]` the calls of
`issueLicenseForOrder` (one per path: inline, job, sweep), `job` the BullMQ
`license-issue` job with its attempts and stalls, `batch` the rest of the
running sweep. `paid`, `credits` and `term` are the world: what was paid, how
often the validator was made to extend a licence for this order, and for how
long the organisation is licensed.

Each await of `issueLicenseForOrder` is an action, with its failures beside it:

    ReadOrder -> Generate -> PersistOrder -> PersistOrg -> Validate -> WriteResult
        |           |             |              |              \--------/
      Fails   Refused, Lost     Fails          Fails      Throws, MarkFails

What the caller does with the outcome is part of the action (`ReturnOk`,
`ReturnFailed`): the webhook parks a `jobQueue.add`, the worker throws into
BullMQ's attempts, the sweep counts. `Crash` drops handlers, calls and parked
adds; the database, Redis and the validator keep theirs. The model has the
process's queue and its webhook die together: `docker compose` runs both in the
app container.

Left out: issuance does not look at `months` or at the amount beyond
"the right one"; the four terminal failure words of Midtrans are one status; a
handler's read-only rejections (bad JSON, bad signature, unknown order) have no
action. A key is named by the organisation it belongs to, because the validator
keeps one licence per product and slug and `generate` extends it. Two
assumptions bear on `CreditBound`: one reconcile sweep at a time (it is hourly,
but nothing excludes a second one, which the worker's concurrency of three would
run), and a job whose lock is not lost while its process lives.

### OrderLifecycle
What billing promises of an order: absent, pending, failed, settled, and then,
once, licensed. `Billing` implements it with `phase` as `status` and `licensed`
as the orders that have a key.

### Entitlement
One organisation, its licence columns and their seven writers. A writer reads
the key (`ReadKey`, `EnterKey`) or, as issuance does, stores one with its plan
(`IssueKey`) and validates it then, gets an answer or an exception (`Answer`,
`NoAnswer`), and writes (`Write`) without looking at the row again; the webhook
handler finds the row by key and then updates it by id (`FindByKey`,
`WriteEvent`). The scheduler has its own update, `SchedulerUpdate`, as in the
code. The validator's opinion of each key (`truth`), its reachability (`up`) and
its notifications (`mail`) are the environment. Now is time 0 and every tick
moves `validatedAt` back, at most to the grace period, past which it makes no
difference. `denied`, `silence` and `validated` are history variables: what the
properties need to remember, read by no action's guard. Issuance is here as a
writer of the columns; how often it runs, and what becomes of its order, is
`Billing`.

`Deployments` says which writers take part. The scheduler is a process of its
own, part of the shipped `docker-compose.yml`, with its own update. Two of the
properties fail with it (`license_outage` and `license_rearmed`, section 4), so
`LockNeedsReason`, `RevocationLocks` and `MetadataKept` are stated for the
writers of the app process; `GoodStandingUnlocks` covers the scheduler too.

Left out: the writers' own database writes do not fail here (they do in
`Billing`); the organisation list of the sweeps is one organisation, so that the
scheduler's loop aborting at another one is a check that never starts.

### Documents
One document. `row` holds its columns `status`, `cognifyStatus` and the pipeline
state of `cognifyPipelineJson`, `request` the upload or reprocess request
between its awaits, `embed` and `task` the background jobs and the executions
nobody retries (the PATCH that enables a document, an enqueue that finds Redis
down, the batch). `text` and `run` are the sidecar: what it holds of the text,
and the graph runs. `cognifyDocument` and `processDocumentPipeline` become

    Take -> Mark -> Add -> SaveAdd -> Claim -> Launch -> SaveRun -> PollCompleted -> Finish
                 \-> Claim | Poll... | Fail, by the phase read from the row

where each execution works on the copy of the pipeline state it read. Each call
of the sidecar may be refused, or executed with its answer lost. `Thrown` is the
job's next attempt or its end (the worker's `failed` event writes the column a
little later, possibly after a reprocess claim: until it has, the job is in stage
`thrown` and counts as under way); `Crash` redelivers active jobs once and drops
everything else; `Delete`, `Forget`, `Disable` and `Enable` are the operators'
ways to take the graph away meanwhile. Three history variables: `indexed`,
`overlapped` (two executions worked on the saved state at once), `abandoned`
(somebody stopped without writing an outcome).

Left out: chunks, vectors and versions of a document; upload's rejections; the
text of errors; the sidecar's dataset as seen by other documents, except that a
deletion of another one forgets this one's text too.

### GraphBuild
What the saved pipeline state of a document promises: none, stored, launching,
running, completed, or failed and none again. A run is launched after its launch
was announced and while every other run has failed, what is saved of a run is
true of it, and a document is shown as completed only when it was indexed. No
requests, jobs, attempts, crashes or answers: `Documents` implements it with
`pipe` as `row.pipe`, `shown` as `row.cognify` and `gone` as
`row.status = "deleted"`. Executions that overlap lose the order (`At`) and
nothing else.

### ScheduleSync
One schedule. `row` is the `ScheduledRun`, `trigger` the repeatable jobs in
Redis by their pattern and time zone. A request writes the row (`Create`,
`Update`, `Delete`) and then goes through `Find`, `Remove` and `Add`, the calls
of `removeRepeatableFor` and `syncSchedule`; the sweep reads the rows
(`SweepRows`), then the list (`SweepList`), and prunes or re-syncs with the same
three calls. Which of several jobs a search by name finds first is open. Calls
fail (swallowed in a removal, thrown in an add), processes die, and Redis loses
its data. `disturbed` remembers whether any of that, or an overlap of two
writers, has happened.

Left out: a repeatable job that an older version stored without a time zone.
`scheduler-queue.ts:113` removes it under the fallback zone, which is another
hash, so that its removal does nothing.

### ScheduledJob
One tick: `job` is BullMQ's record of it, `exec` its executions, `marker` the
deduplication key. `Acquire`, `Gate`, `Run`, `Notify`, `Record`, `Release`,
`Settle` are the awaits of the worker in `mini-services/scheduler`. `Stall` is
the check that finds the lock of a dead execution gone, `LosesLock` the same for
one that is only blocked and goes on: the two are why executions overlap. The
timeout of a run is only a race (`withTimeout`): the attempt goes on as a
failure, and its pipeline is in `lingering` until `PipelineEnds`. A SET NX that
was executed while its answer was lost is sent again and finds the marker it has
set (`resent`). The marker outlives the timeout of a run, so that
`MarkerExpires` at `gate` or `run` is a fault: the process was suspended for
longer than that (`outlived`). `LastAttempt` is decided when the job is handed
out. What the run reports is kept in `alerted` and `succeeded`.

### ToolGuard, PlanModel, PlanRun, AgentRun, ToolTurns
`ToolGuard` is what two kinds of callers share for one MCP tool: the breaker in
memory and the rate limit in Redis, INCR and EXPIRE apart. Either command may
fail, and an INCR may be executed without its answer being heard
(`CountedUnheard`); then the caller goes on without limit, as it does when Redis
is down. `PlanModel` is
`plan-model.ts`: plans as dependencies of steps, `Valid`, `Kahn` and
`NextLevel`. `PlanRun` is `planner.ts` and the sandbox: levels whose steps start
together, a sandbox that answers for a step that goes on underneath,
self-correction, and the fallbacks to the single-tool path. `AgentRun` is the
tool-calling loop of `agent-orchestrator.ts` with the doubly guarded tools it
gets from `unified-tools-mcp.ts`. `ToolTurns` composes one planned turn with
one agent loop; its `Crash` forgets the breaker, loses the turn (`LosePlan`),
starts the loop again and leaves the window in Redis as it is. Plans are all
that a model may return of distinct steps: any dependencies, unknown ones and
cycles included. `Naming` are the steps whose input names the output of another
one, which a step without dependencies may do as well.

Left out: plugin, admin and web steps, which have other guards; confirmation of
a tool; what is planned and answered; the streaming variants.

### Dataflow
What a planned turn promises, without sorting, levels, sandboxes or tools: a plan
is accepted if it has neither a cycle nor an unknown step, a step starts once the
steps it depends on have results, a result stays as it was first told, and the
answer comes when every step has one. Only steps that start while none has
succeeded may see a placeholder. `ToolTurns` implements it by the variables of
the same names.

### MemoryQueue
`turn` is where `enqueueMemoryWrite` stands for a chat turn (`Status`,
`CheckDepth`, `Add`, `Inline`: one await each) and its verdict; `job` the queued
writes with their attempts and stalls; `worker` the one worker and its
`performMemoryWrite`. `stored` counts how often the sidecar stored a turn. Redis
may execute an add twice, because the client sends again what was not
acknowledged, and the connection comes and goes. `Crash` takes the worker and
the requests, which are one process: a turn that is being handed over, its add
parked for the connection included, is `lost`. `LosesLock` is an outage that
outlasts the lock of the job under way: it is found stalled while its write goes
on.

## 3. Runs

| run | cfg | expects | states | shows |
|---|---|---|---|---|
| `billing` | `MCBilling.cfg` | pass | 219,721 | types, `CreditOnlyForExactPayment`, `OrgKeyHasOrder`, `CreditBound`, refinement of `OrderLifecycle`, `SettledOrderGetsKey` |
| `billing_stranded` | `MCBillingStranded.cfg` | violation | | `PaidOrgGetsKey` |
| `billing_double` | `MCBillingDouble.cfg` | violation | | `CreditOnce` |
| `entitlement` | `MCEntitlement.cfg` | pass | 721,952 | types, `LockNeedsReason`, `RevocationLocks`, `GoodStandingUnlocks`, `MetadataKept` |
| `license_outage` | `MCEntitlementOutage.cfg` | violation | | `OutageHasGrace` |
| `license_rearmed` | `MCEntitlementRearmed.cfg` | violation | | `GraceEnds` |
| `license_rejection` | `MCEntitlementRejection.cfg` | violation | | `RejectionLocks` |
| `documents` | `MCDocuments.cfg` | pass | 3.1 million | types, `OneGraph`, `ProcessingHasOwner`, refinement of `GraphBuild` (`ImplementsBuild`) |
| `schedule_sync` | `MCScheduleSync.cfg` | pass | 440 thousand | types, `UndisturbedInSync`, `Healed` |
| `scheduled_job` | `MCScheduledJob.cfg` | pass | 2.1 million | types, `OneRunAtATime`, `RunBound`, `CompletedIsConcluded`, `NoFalseAlarm`, `TickSettles` |
| `tool_turns` | `MCToolTurns.cfg` | pass | 2.4 million | types, `SortedPlan`, `DependenciesLanded`, `OneCallNeverOpens`, `WindowHasEnd`, refinement of `Dataflow` (`ImplementsDataflow`), `TurnEnds` |
| `memory_queue` | `MCMemoryQueue.cfg` | pass | 305 thousand | types, `ExtraWritesArePaid`, `DepthBound`, `TurnsSettle` |

**Bounds of `billing`.** One order, because issuers of two
orders only meet in the organisation row, and the proofs cover any number. Two
notification handlers, so that two deliveries race and a failure overtakes a
settlement. `MaxAttempts = 2` (10 in the code), so that the budget can be spent
and the sweep has to take over. `MaxFaults = 2` of the eight kinds: one fault to
break a call and one to break what was to repair it. The two violating runs
allow only the one fault they are about.

**Bounds of `entitlement`.** Two keys, so that a verdict on an
old key can meet a new one. `GracePeriod = 2` ticks, so that a tick can fall
inside and outside. `MaxChanges = 2`: revoked and reinstated, or revoked in two
ways. The sweep beside each one of the other six writers; three writers at
once are covered for the safety properties by the proofs and not for the liveness
properties.

**Bounds of `documents`.** Two jobs and one call, of which two take part
(`MaxTasks`): a retried execution beside another one. Two graph runs: one more
than `OneGraph` allows. `MaxAttempts = 2`, so that an attempt is the last or is
not. `MaxFaults = 2` of failures, crashes and operator actions: one that leaves
a state behind and one that meets whoever repairs it. The proofs cover any
number of each.

**Bounds of `schedule_sync`.** Two requests and the sweep, so that edits overlap
each other and a re-sync; two patterns and two payloads, so that an edit changes
one and not the other; two faults.

**Bounds of `scheduled_job`.** Five executions are enough for three attempts
(as in the code) and two stalls; with three faults an execution can be
blocked, another one die and a marker stay. At most one of the executions is
taken up at a time: they are interchangeable, and the next free one is chosen.

**Bounds of `tool_turns`.** All dependency relations of three steps over the
steps and an unknown one, so that chains, forks, joins, cycles of every length
and unknown dependencies occur. One step is of the shared tool, the two others
run the pipeline; two of the three name another step's output. One call in each
of two rounds, a threshold of 3 as in the code, a limit of 2 so that it can be
exceeded, one fault (a failed command, a lost answer or a crash).

**Bounds of `memory_queue`.** Three turns, of which two are handed over at once
(`Writers`), a queue of depth 1, so that a check can be stale by one; two
attempts, one stall and one fault. With one fault a job stalls at most once, so
that the branch that gives up a job at its second stall is not taken here, and a
turn is lost before its add or with the connection up; one lost with its add
parked takes an outage and a crash. The proofs cover both.

**Fairness.** `Billing`: awaits are resumed, the worker takes waiting jobs, a
parked add is flushed when Redis is back (the ioredis offline queue), time
passes, and the hourly repeatable fires (`ensureOrderReconcileRepeatable`
restores it on every boot). `Entitlement`: the sweep's interval keeps firing,
`validateLicense` ends by its 10 s timeout, awaits are resumed, time passes.
`ScheduleSync`: requests that were begun run on, and the interval of the re-sync
fires (`mini-services/scheduler` starts it at boot and every ten minutes).
`ScheduledJob`: a waiting job is handed out, a living execution moves on (the
chat pipeline races a timeout) and the stalled check of BullMQ runs.
`ToolTurns`: only the plan's own code and the timers of the sandbox; tools,
pipeline, Redis, database and the agent loop may stand still for ever.
`MemoryQueue`: requests go on, the connection comes back, the worker drains the
queue and the stalled check runs. `Documents` states no liveness: a document may
stay `failed` for ever, and the poll is bounded by its own timeout only.
No fault, user, customer, administrator, notification or recovery of the network
(but for the Redis connection of `MemoryQueue`) is fair. Only weak fairness is
used.

**Deadlock** is checked in the seven billing and entitlement runs and in
`schedule_sync`. The systems of the other four come to rest: a document is done
and its tasks are used up, a tick is settled, a turn is answered, all turns are
remembered or dropped.

**Mutated definitions.** Beside the actions the modules hold their slips, each
the bug one would plausibly write (a dropped claim, an age compared the wrong
way round, a missing early return, attempts compared before they are counted).
Each property fails with one of them.

## 4. What disagrees with the documentation

* `billing_stranded`: the comment at `lib/license-issue.ts:105` says the key is
  never lost. If the organisation row cannot be written after the order row
  was, `generate` is reported as failed, and every later call returns at line 64
  because the order has a key. The organisation has none, so the revalidation
  sweep does not see it either.
* `billing_double`: `issueLicenseForOrder` is called idempotent (`:47`, `:184`).
  It is once the key is stored; before that, each call extends the licence
  again. `CreditBound` is what the code does guarantee: two calls can overlap,
  and each fault can repeat that.
* `license_outage`: the scheduler stores `invalid` for an unsigned answer, and
  clears plan and expiry, where `license-client.ts:227` and `docs/PRD.md:249`
  promise the grace period.
* `license_rearmed`: the scheduler also dates every answer, whatever it says, and
  the sweep makes the row `unreachable` at the next exception. Each such round
  starts a new grace period (`docs/PRD.md:249`: "from last successful
  validation"), so a revoked organisation may get in again and again.
* `license_rejection`: `docs/PRD.md:249` lets an explicit rejection lock
  immediately. The sweep's exception path (`lib/license-revalidation.ts:65`)
  replaces any status by `unreachable`, a rejection too, and unlocks the
  organisation for what is left of its grace period; after a revocation by
  webhook that is a whole new one, because the webhook dates every event.
  `RevocationLocks` shows that it does end.

The runs of those five state the promise and fail. What follows are cases of the
code that the properties of the passing runs leave room for by name, or that a
model leaves out where that is said.

* **Licences.** `license-client.ts:134` and `:285` keep what an answer does not
  carry. A signed answer without a plan does replace a stored one, since every
  caller passes the fallback `flat` (`PlanNamed` of `MetadataKept`), and issuance
  replaces a stored plan by `flat` before anything is validated
  (`license-issue.ts:112`). After a first purchase whose validation fails the row
  is `unreachable` without a date, which is locked at once; the comment at
  `:147` says that the grace period applies. `LockNeedsReason` begins with the
  first key found valid (`validated`).
* **Sweeps.** Two reconcile sweeps may overlap, and each may extend a licence;
  `CreditBound` assumes that they do not.
* **Placeholders.** `plan-model.ts:268` says that a tool never gets the literal
  `{{stepN}}`. With no successful output at all `resolveStepInput` returns the
  input as it is (`:275`), so that the dependents of a failed first step do get
  it, as does a step of the first level that names another one without depending
  on it. `Dataflow` (`Start`) says that these are the only cases. (Placeholders
  of an id that is not `stepN` are never replaced, `:279`; the model has none.)
* **Windows without end.** The rate limit of a tool has no end once the EXPIRE
  failed, the INCR that opened the window was executed and its answer lost (sent
  again it answers 2, `lib/redis.ts:23`), or the process died between
  `tool-rate-limit.ts:20` and `:22`. `WindowHasEnd` excludes exactly these
  (`endless`); the tool is then refused for ever.
* **Two failures open a circuit of three.** The agent loop records on the
  circuit the wrapper has recorded on (`agent-orchestrator.ts:250`,
  `unified-tools-mcp.ts:91`), so two failing calls reach the threshold of three
  "consecutive failures"; the second record may follow somebody else's success,
  and a rate-limit refusal counts as a failure. `OneCallNeverOpens` is what is
  left of the promise.
* **Plans.** A plan with the same step identity twice is valid to `validatePlan`
  and runs the last one twice; the model has distinct steps. A synthesis that
  throws sends the question down the single-tool path, which runs tools again. A
  step that timed out goes on, and its effect may follow the failure reported.
* **Ticks.** The timeout of a run is a race
  (`mini-services/scheduler/index.ts:88`, `:298`), and the pipeline looks at the
  abort signal at three places only (`lib/tool-router.ts:183`, `:190`, `:243`).
  A pipeline that is past them goes on beside the one that the retry starts five
  seconds later, with no lock lost and no fault, against "No more
  double-execution" (`lib/scheduler-queue.ts:11`). `OneRunAtATime` is what is
  left: two runs within their time are never side by side. A SET NX that was
  executed and is sent again (`index.ts:483`) answers null, and the tick
  completes as a duplicate of itself, without a run (`CompletedIsConcluded`
  excludes it by name). A permanent failure on an attempt that is not the last
  is not retried, and nobody is alerted (`mini-services/scheduler/index.ts:345`,
  `:374`). The marker is deleted by whoever ends (`:589`), and its life does not
  cover the notification. The reads before the `try` (`:149`) fail the last
  attempt without alert or log. A tick whose marker stayed behind, by a failed
  deletion or a stall, completes as a duplicate without a run as well.
* **Schedules.** A re-sync compares patterns and not payloads
  (`scheduler-queue.ts:224`), so that a failed edit of a prompt is never
  repaired; a second trigger may stay beside the right one; a schedule that was
  switched off fires until the next re-sync if the removal failed; a legacy
  repeatable job without a time zone is not removed at all.
* **Documents.** The reprocess claim leaves `status` at `error`
  (`reprocess/route.ts:45`). A forget that overtakes an execution leaves
  `completed` with nothing in the sidecar (`GraphBuild` says that it was
  indexed, not that it is), and the saved pipeline survives it. An execution that
  has polled a failed run saves it again after the reprocess request cleared the
  pipeline (`reprocess/route.ts:47`), so that the restart starts nothing
  (`Fail` of `GraphBuild`); and a launch already under way starts a run for a
  document that was deleted meanwhile (`Launch`). A job taken
  while cognee is off returns and leaves `processing`
  (`job-processor.ts:133`), which the reprocess route refuses. `launching` is
  never cleared. Deleting one document forgets the dataset of the knowledge
  base (`documents/[id]/route.ts:249`).
* **Memory.** The cap can be exceeded by the requests between their check and
  their add; `inlined` may have stored nothing, as that path tries once. A process
  that dies with a turn before its add, or with the add parked for the connection
  (`memory-queue.ts:200`), loses the turn, against "a turn the user saw must
  eventually be remembered" (`:94`).

## 5. Proofs

Assumptions: `GraceAssumption` (a positive grace period), `NullAssumption`
(`Null` is neither a number nor a plan), `BillingAssumption` (every order has an
organisation, at least one attempt, known fault kinds), `EntitlementAssumption`
(`Null` is no key, deployments are sets of writers), `DocumentsAssumption`,
`ScheduleAssumption`, `JobAssumption` (at least one attempt, `None` is nothing
else, jobs and calls are apart, there are patterns and payloads),
`GuardAssumption` (a threshold above two, a positive limit), the assumptions on
the steps of a plan and the rounds of a loop, and `QueueAssumption` (finitely
many turns; positive depth, writers and attempts). Nothing is assumed of the
number of orders, organisations, handlers, keys, tasks, runs, requests,
patterns, executions, steps, turns or faults.

**Billing.** `TypeOK` is inductive alone (`TypeCorrect`). The other invariants
are not, and follow from `IndInv`, which is `TypeOK` and
* `MoneyInv`: a settlement in flight, and a settled order, has its exact amount.
  Without the part about notifications in flight the claim could not be shown
  to settle paid orders only.
* `CallInv`: calls, batches and jobs exist for settled orders only, and the
  inline call and the job exclude each other: the job is parked by the last
  step of the inline call. This is why only two calls of an order overlap.
* `KeyInv`: a key on an order or organisation is the organisation's own, and
  calls past `PersistOrder` have stored it.
* `CreditInv`: as long as the order has no key, each credit is about to be
  persisted or was lost to a fault, which can cost at most two (a crash drops
  both calls); after that only calls already at `Generate` add one. Summed up:
  `credits <= 2 * (faults + 1)`.

`Inductive` gives `CreditsArePaid`, `OrgKeysAreOrdered` and `CreditsAreBounded`;
`Refinement` shows that every step under `IndInv` is a step of `OrderLifecycle`
or a stutter. The step proofs have one case per action, with frame lemmas for
the families of actions that leave a part alone.

**Entitlement.** `EntitlementTypes` is inductive alone. `LocksHaveReason` rests
on `TrustInv`: only deployed writers hold a check; an answer that is valid is
signed; and, without a scheduler and before the first denial, no denial is on
its way to a write, and the row, once a key was found valid, is `valid` or
`unreachable`, with a date at most `silence` ticks old. The last part is what
makes the grace period last. `MetadataSurvives` proves `MetadataKept`: under the
first part of the same invariant every step names the source of a new plan or
expiry (`StepSources`). Each writer has one (`WriteSources`), because the row
update of the rules has one (`UpdateSources`); the scheduler, the one writer
that wipes, holds no check where it is not deployed.

**Documents.** `IndInv` is `TypeOK`, `AttemptLeft` (a task that is not over has
an attempt left) and
* `IndexInv`: what is about to report `completed` was seen indexed.
* `OwnerInv`: whoever writes `processing` is at work until it writes something
  else. A job that threw still owns the row, because its last attempt writes
  `failed`; a call that threw does not.
* `GraphInv`, as long as executions do not overlap: the phase on the row and the
  phase in the copy of the one execution at work say which run may be unfailed,
  none before the launch and the saved one after it. Between the two the row
  says `launching`, from which nobody launches. The claim of a reprocess that
  will clear the pipeline had read a failed one, and the row still says so.

`Refinement` (`ImplementsBuild`) adds `TrackInv`: the saved state, and the copy of
every execution at work, say nothing untrue of a run (`Truthful`), and while
executions do not overlap the copy follows the row (`Follows`), except that a copy
of a failed run may be one restart behind. That exception is the clause of `Fail`
without which the refinement is false. `CompletionsIndexed`, on `IndexInv`, is the
part of it that the document shows to its users.

**Schedules.** `UndisturbedInSync` is not inductive: it says nothing of a writer
between two calls. `SyncInv` adds that at most one writer is at work, that it
works from the row as it is, and what is stored at each of its stages: one
trigger at most when it searches, the one it has found when it removes, none
when it adds.

**Ticks.** `JobInv` ties the job to its owner and to its attempts and stalls,
and says that before the first stall the owner is the only execution alive.
`AloneInv`, unless the marker was set without the lock or was outlived: after
the first stall an execution that goes on still has its marker and is alone in
front of it; a second stall ends the job. `LingerInv`: an execution whose
pipeline goes on after the timeout is past its run; as long as it was not
settled and nothing has stalled it owns the job, and no other one is at its run.
`ConcludedInv`: before the first stall a marker that is there is the owner's,
unless its SET was sent twice or its deletion failed. `ReportInv`: before the
first stall a report is the owner's, and an alert was the last attempt's.
`CountInv` bounds the runs: every execution that was begun has spent an attempt
or a stall, or is the current one. Of the liveness property `TickSettles` the
part that is not about time is proved: `Ahead` counts the deliveries that
attempts and stalls allow and the steps of the current one, every move of the
job or its owner lowers it and nothing else changes it (`TickAdvances`), and
somebody can always move a tick that is not settled (`TickIsNotStuck`).

**Tools.** `PlanInv` (only steps of started levels move, and have their
dependencies' results), `AgentInv`, `BlameInv` (a call that has not reached its
tool is not blamed) and `CircuitInv`: while only one call is blamed the circuit
is closed with two failures at most, and with one as long as the call is about
to be recorded again. `WindowsEnd` is an invariant by itself: the call that
counted one is about to send the EXPIRE, or the window is `endless`. A crash
keeps all of them (`CrashInvariant`). The threshold above two in
`GuardAssumption` is what is needed here; it is 3 in the code.

**Plans.** `KahnOrders` and `ValidIsAcyclic` (`PlanModelProofs`) are about the
list that `topoSort` computes, for plans of every length. `Kahn` is a recursive
function on the rounds of the loop. Its recursion equation follows from the
definition by `CHOOSE` once a function with that equation is shown to exist
(`KahnRounds`), and an induction is a least counterexample: a set of numbers
that is not empty has a least one (`Least`, from the well-foundedness of `<`),
so that a set that is closed under the next round has all of them (`Closed`).
The loop invariant (`KahnInv`): sorted and queued steps are distinct, sorted
steps come after their dependencies, a step still waits for what is not sorted,
and the steps that wait for nothing are the sorted and the queued ones. A list
as long as the plan has every step (`Pigeons`); a shorter one leaves a set in
which every step depends on another. `PlansAreSorted` is `SortedPlan` for the
plan at hand. `LevelsReachAll`: the levels of a valid plan end with every step.
With it `EndInv` (only valid plans run, an answer has every result, no result is
taken back) gives `StepsFollow` (`DependenciesLanded`), and `Refinement` shows
that every step is one of `Dataflow` or leaves the plan alone. The safety half
of `TurnEnds`: what is ahead of a turn (steps not started, results not told,
stages) never grows and every move of the plan lowers it (`TurnsAdvance`), and a
level waits for nothing that has no timer (`WaitsAreTimed`).

**Memory.** `DepthBound` needs `DepthInv`: the turns past the check count as if
they were queued, and at most `Writers` are handed over at once. `StoreInv`
charges each write of a turn to one of its jobs or to a fault; it also gives
the bound in `TypeOK`, which is not inductive alone. `JobInv` ties the worker to
its job, `TurnInv` says that a turn has no job and no write before it is queued
or inline.

`StoreInv` bounds the writes of each turn by all the faults. That all turns share
one budget (`ExtraWritesPaid`) takes an account that no step raises for nothing:
a turn holds a token (`Tokens`) for each of its writes and for each job that may
still write; a write spends the token of its job, and every token of a turn
beyond the first (`Bought`) was bought with a fault (`PaidInv`). `WrittenInv`
gives `CompletedIsWritten`: no answer that stored nothing passes for a success.
The safety half of `TurnsSettle`: each job has a number of deliveries and steps
ahead of it that its own moves lower and nothing else changes, and a hand-over
goes through its stages in one direction (`TurnsAdvancing`); a turn that is not
settled is with its request or has a job that waits, is worked on or will be
found stalled (`TurnIsNotStuck`). A crash ends a hand-over as `lost`, which is a
verdict; a queued turn survives it.

Model-checked only: the liveness properties `SettledOrderGetsKey`,
`RevocationLocks`, `GoodStandingUnlocks`, `Healed`, `TickSettles`, `TurnEnds`
and `TurnsSettle`, since liveness under fairness is out of the prover's reach.
For the last three the proofs show that every move leads towards the end and
that there is one to make; that it is made is what fairness says and TLC checks.
For the first four no such number is stated: they rest on sweeps that start
again for ever, and verdicts and edits undo what was reached. Every other
property of a passing run is proved. No module uses ENABLED or RECURSIVE
operators.

## 6. Not modelled, and what is left

`PROJECT.json` lists every component with its reason. In short: routing,
prompts, retrieval, guardrails, the SQL guard, connectors and the user interface
are data and text without a protocol between actors; budgets, hedging, shutdown
and throttles are counters and timers of one process; tenant isolation and the
audit chain are single-step transformations. Of the modelled parts these are
left out:

* checkout creates the Snap transaction before the order row
  (`orders/route.ts:39`); `CreateOrder` is one step.
* the scheduler's daily licence reminder and log cleanup; the sweeps over several
  organisations; the quota counts of `plan.ts`.
* versions of a document (`doc-versioning.ts:24`, read and create apart).
* `streamAgentOrchestrator`, which no route uses; plugin, admin and web steps.

Worth adding next, in this order: a run of `Entitlement` with three writers at
once on one key; the payload in `NeedsSync`, should the code compare it, and then
the stronger form of `Healed`; the login throttle and the distributed rate limit
as further users of `ToolGuard`.
