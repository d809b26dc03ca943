---------------------------- MODULE Entitlement ----------------------------
(***************************************************************************)
(* The licence of one organisation and every writer of its columns while   *)
(* the product runs (grep for licenseStatus, licenseKey):                  *)
(*                                                                         *)
(*   "sweep"       runRevalidation, the app's daily timer                  *)
(*   "retry"       POST /api/license/retry, open to a locked organisation  *)
(*   "admin"       POST /api/org/license                                   *)
(*   "activation"  POST /api/auth/activate-license                         *)
(*   "issuance"    issueLicenseForOrder, for a settled order (see Billing) *)
(*   "scheduler"   validateAllLicenses of the scheduler service, every 6 h *)
(*   "webhook"     POST /api/webhooks/license, from the validator          *)
(*                                                                         *)
(* Each reads the row, awaits the validator, and writes the row without    *)
(* looking at it again.  The validator and the network are the             *)
(* environment.  The present is time 0: a tick moves the date of the last  *)
(* validation back, and one as old as the grace period stays there.        *)
(*                                                                         *)
(* The organisation stands for every one: no writer relates two of them,   *)
(* except that an exception ends the scheduler's loop, which here is a     *)
(* check that never starts.                                                *)
(***************************************************************************)
EXTENDS LicenseRules

CONSTANTS
  LicenseKeys,   \* keys the validator knows
  Deployments,   \* sets of writers; a behaviour runs one of them
  MaxChanges     \* bound: how often the validator changes its mind

Callers == {"sweep", "retry", "admin", "activation", "issuance", "scheduler"}
Writers == Callers \cup {"webhook"}

ASSUME EntitlementAssumption ==
  /\ Null \notin LicenseKeys
  /\ Deployments \subseteq SUBSET Writers
  /\ MaxChanges \in Nat

VARIABLES
  deployed,   \* the writers of this behaviour
  license,    \* the organisation's licence columns
  check,      \* writer -> the check it has under way
  notice,     \* the notification the webhook handler has under way
  truth,      \* key -> what the validator holds of it
  up,         \* whether the validator answers with a signed verdict
  mail,       \* the validator's notifications on their way
  denied,     \* history: a negative verdict has reached a writer that stores it
  silence,    \* history: ticks since a positive verdict was last stored,
              \* kept until the first negative one
  validated,  \* history: a positive verdict has been stored
  changes     \* changes of truth so far

vars == <<deployed, license, check, notice, truth, up, mail, denied, silence,
          validated, changes>>

Verdicts == {"valid", "expired", "deactivated"}
Notices  == [key : LicenseKeys, event : {"updated", "expired", "suspended"}]

Check(at, key, answer) == [at |-> at, key |-> key, answer |-> answer]
NoCheck == Check("idle", Null, UnsignedAnswer)
Checks  == [at : {"idle", "ask", "write", "threw"}, key : LicenseKeys \cup {Null},
            answer : Answers]

\* A signup without a licence, or an activated organisation.
Unpaid == [key |-> Null, status |-> "unpaid", plan |-> Null,
           validatedAt |-> Null, expiresAt |-> Null]
Activated(key) == [key |-> key, status |-> "valid", plan |-> "pro",
                   validatedAt |-> 0, expiresAt |-> 1]

TypeOK ==
  /\ deployed \in Deployments
  /\ license \in License(LicenseKeys)
  /\ license.validatedAt \in -GracePeriod .. 0 \cup {Null}
  /\ check \in [Callers -> Checks]
  /\ \A w \in Callers : check[w].at = "ask" => check[w].key \in LicenseKeys
  /\ notice \in Notices \cup {Null}
  /\ truth \in [LicenseKeys -> Verdicts]
  /\ up \in BOOLEAN
  /\ mail \subseteq Notices
  /\ denied \in BOOLEAN
  /\ silence \in 0 .. GracePeriod
  /\ validated \in BOOLEAN
  /\ changes \in 0 .. MaxChanges

Init ==
  /\ deployed \in Deployments
  /\ license \in {Unpaid} \cup {Activated(key) : key \in LicenseKeys}
  /\ check = [w \in Callers |-> NoCheck]
  /\ notice = Null
  /\ truth = [key \in LicenseKeys |-> "valid"]
  /\ up = TRUE
  /\ mail = {}
  /\ denied = FALSE
  /\ silence = 0
  /\ validated = (license.key # Null)
  /\ changes = 0

history == <<denied, silence, validated>>
world   == <<deployed, truth, up, mail, changes>>

-----------------------------------------------------------------------------
(***************************************************************************)
(* A check: read the key, await the validator, write.                      *)
(***************************************************************************)
Idle(w) == w \in deployed /\ check[w].at = "idle"

\* A slip: a locked organisation is never asked about again.
ReadKeyGated(w) ==
  /\ w \in {"sweep", "scheduler", "retry", "admin"}
  /\ Idle(w)
  /\ license.key # Null /\ ~Locked(license, 0)
  /\ check' = [check EXCEPT ![w] = Check("ask", license.key, UnsignedAnswer)]
  /\ UNCHANGED <<license, notice, world, history>>

\* The sweeps take the rows with a key; retry skips the licence gate, the
\* admin route does not.
ReadKey(w) ==
  /\ w \in {"sweep", "scheduler", "retry", "admin"}
  /\ Idle(w)
  /\ license.key # Null
  /\ w = "admin" => ~Locked(license, 0)
  /\ check' = [check EXCEPT ![w] = Check("ask", license.key, UnsignedAnswer)]
  /\ UNCHANGED <<license, notice, world, history>>

\* An administrator enters a key; the licence gate is skipped.
EnterKey(key) ==
  /\ Idle("activation")
  /\ check' = [check EXCEPT !["activation"] = Check("ask", key, UnsignedAnswer)]
  /\ UNCHANGED <<license, notice, world, history>>

\* The validator generated or extended a licence for a settled order: the key is
\* stored before it is validated, with an expiry if the answer named one.  The
\* status and the date of the last validation stay what they were.
IssueKey(key) ==
  /\ Idle("issuance")
  /\ \E expiry \in {license.expiresAt, 1} :
       license' = [license EXCEPT !.key = key, !.plan = "flat", !.expiresAt = expiry]
  /\ check' = [check EXCEPT !["issuance"] = Check("ask", key, UnsignedAnswer)]
  /\ UNCHANGED <<notice, world, history>>

\* What validateLicense() can return or, with "threw", throw.
Verdict(key) ==
  CASE truth[key] = "valid"       -> {SignedAnswer(TRUE, "ok", "pro", 1),
                                      SignedAnswer(TRUE, "ok", Null, Null)}
    [] truth[key] = "expired"     -> {SignedAnswer(FALSE, "expired", "pro", 1)}
    [] truth[key] = "deactivated" -> {SignedAnswer(FALSE, "deactivated", Null, Null)}

Denies(answer) == answer.signed /\ ~answer.valid

Answer(w) ==
  /\ check[w].at = "ask"
  /\ \E answer \in IF up THEN Verdict(check[w].key) ELSE {UnsignedAnswer} :
       /\ check' = [check EXCEPT ![w].at = "write", ![w].answer = answer]
       /\ denied' = (denied \/ (w # "activation" /\ Denies(answer)))
       /\ silence' = IF denied' THEN 0 ELSE silence
  /\ UNCHANGED <<license, notice, world, validated>>

NoAnswer(w) ==
  /\ check[w].at = "ask"
  /\ ~up
  /\ check' = [check EXCEPT ![w].at = "threw"]
  /\ UNCHANGED <<license, notice, world, history>>

\* The update of validateAllLicenses, which does not use the shared builder.
SchedulerUpdate(lic, r) ==
  [lic EXCEPT
     !.status      = CASE r.valid                             -> "valid"
                       [] ~r.valid /\ r.message = "expired"   -> "expired"
                       [] OTHER                               -> "invalid",
     !.plan        = r.plan,
     !.validatedAt = 0,
     !.expiresAt   = r.expiresAt]

\* The update of activate-license, reached with a valid answer only.
ActivationUpdate(lic, key, r) ==
  [lic EXCEPT !.key = key, !.status = "valid", !.plan = r.plan,
              !.validatedAt = 0, !.expiresAt = r.expiresAt]

\* What the writer makes of its answer, or of the exception.
Written(w) ==
  LET c == check[w] IN
  CASE w \in {"sweep", "retry", "admin", "issuance"} /\ c.at = "write" ->
         UpdateFromResult(license, c.answer, 0)
    [] w \in {"sweep", "issuance"} /\ c.at = "threw" -> MarkUnreachable(license)
    [] w = "scheduler" /\ c.at = "write" -> SchedulerUpdate(license, c.answer)
    [] w = "activation" /\ c.at = "write" /\ c.answer.valid ->
         ActivationUpdate(license, c.key, c.answer)
    [] OTHER -> license

Write(w) ==
  /\ check[w].at \in {"write", "threw"}
  /\ license' = Written(w)
  /\ check' = [check EXCEPT ![w] = NoCheck]
  /\ LET proved == check[w].at = "write" /\ check[w].answer.valid IN
       /\ silence' = IF proved THEN 0 ELSE silence
       /\ validated' = (validated \/ proved)
  /\ UNCHANGED <<notice, world, denied>>

-----------------------------------------------------------------------------
(***************************************************************************)
(* The validator's notifications: findFirst by key, then an update by id.  *)
(***************************************************************************)
EventStatus(event) ==
  CASE event = "updated"   -> "valid"
    [] event = "expired"   -> "expired"
    [] event = "suspended" -> "suspended"

\* A notification names a plan or not.
NoticePlans == {Null, "pro"}

WebhookUpdate(lic, event, plan) ==
  [lic EXCEPT !.status = EventStatus(event),
              !.plan = IF plan # Null THEN plan ELSE @,
              !.validatedAt = 0]

\* No organisation with that key: the notification is acknowledged.
FindByKey(m) ==
  /\ "webhook" \in deployed /\ notice = Null
  /\ m \in mail
  /\ mail' = mail \ {m}
  /\ notice' = IF license.key = m.key THEN m ELSE Null
  /\ denied' = (denied \/ (license.key = m.key /\ m.event # "updated"))
  /\ silence' = IF denied' THEN 0 ELSE silence
  /\ UNCHANGED <<deployed, license, check, truth, up, validated, changes>>

WriteEvent ==
  /\ notice # Null
  /\ \E plan \in NoticePlans : license' = WebhookUpdate(license, notice.event, plan)
  /\ notice' = Null
  /\ silence' = IF notice.event = "updated" THEN 0 ELSE silence
  /\ validated' = (validated \/ notice.event = "updated")
  /\ UNCHANGED <<check, world, denied>>

-----------------------------------------------------------------------------
(***************************************************************************)
(* The environment: time, the network and the validator's operator.        *)
(***************************************************************************)
Older(date) == IF date = Null \/ date = -GracePeriod THEN date ELSE date - 1

Tick ==
  /\ license' = [license EXCEPT !.validatedAt = Older(@)]
  /\ silence' = IF denied \/ silence = GracePeriod THEN silence ELSE silence + 1
  /\ UNCHANGED <<check, notice, world, denied, validated>>

Flip ==
  /\ up' = ~up
  /\ UNCHANGED <<deployed, license, check, notice, truth, mail, history, changes>>

EventOf(verdict) ==
  CASE verdict = "valid"       -> "updated"
    [] verdict = "expired"     -> "expired"
    [] verdict = "deactivated" -> "suspended"

\* The validator notifies a product that has its secret; the notification
\* may be lost or overtaken.
ChangeTruth(key, verdict) ==
  /\ changes < MaxChanges
  /\ truth[key] # verdict
  /\ truth' = [truth EXCEPT ![key] = verdict]
  /\ changes' = changes + 1
  /\ \/ mail' = mail
     \/ /\ "webhook" \in deployed
        /\ mail' = mail \cup {[key |-> key, event |-> EventOf(verdict)]}
  /\ UNCHANGED <<deployed, license, check, notice, up, history>>

Next ==
  \/ \E w \in Callers : ReadKey(w) \/ Answer(w) \/ NoAnswer(w) \/ Write(w)
  \/ \E key \in LicenseKeys : EnterKey(key) \/ IssueKey(key)
  \/ \E m \in mail : FindByKey(m)
  \/ WriteEvent
  \/ Tick
  \/ Flip
  \/ \E key \in LicenseKeys, verdict \in Verdicts : ChangeTruth(key, verdict)

Spec == Init /\ [][Next]_vars

(***************************************************************************)
(* Fairness: the timers of the sweep keep firing, validateLicense() ends   *)
(* within its timeout, every await is resumed, and time passes.  No        *)
(* request, no notification and no recovery of the network is promised.    *)
(***************************************************************************)
Fairness ==
  /\ WF_vars(ReadKey("sweep"))
  /\ \A w \in Callers : WF_vars(Answer(w) \/ NoAnswer(w)) /\ WF_vars(Write(w))
  /\ WF_vars(WriteEvent)
  /\ WF_vars(Tick)

FairSpec == Spec /\ Fairness
=============================================================================
