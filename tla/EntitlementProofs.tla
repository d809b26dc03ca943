------------------------- MODULE EntitlementProofs -------------------------
(***************************************************************************)
(* For every set of keys, every deployment without the scheduler service,  *)
(* every grace period and every number of changes: the app's own writers   *)
(* lock nobody out by mistake.                                             *)
(***************************************************************************)
EXTENDS EntitlementProps, TLAPS

(***************************************************************************)
(* Why LockNeedsReason holds.  Only a deployed writer has a check under    *)
(* way, and a positive answer is a signed one.  Until the first negative   *)
(* verdict no verdict under way is negative, and once a positive one was   *)
(* stored the status is "valid" or "unreachable" and the last validation   *)
(* no older than the silence.                                              *)
(***************************************************************************)
DeployedOnly == \A w \in Callers \ deployed : check[w].at = "idle"

SignedWhenValid == \A w \in Callers : check[w].answer.valid => check[w].answer.signed

NoDenialUnderWay ==
  /\ \A w \in Callers \ {"activation"} :
       check[w].at = "write" => ~Denies(check[w].answer)
  /\ notice # Null => notice.event = "updated"

Trusted ==
  validated =>
    /\ license.status \in {"valid", "unreachable"}
    /\ license.validatedAt # Null
    /\ license.validatedAt + silence >= 0

TrustInv ==
  /\ DeployedOnly
  /\ SignedWhenValid
  /\ AppOnly /\ ~denied => NoDenialUnderWay /\ Trusted

(***************************************************************************)
(* The type of what the rules compute from a licence.                      *)
(***************************************************************************)
Dates == -GracePeriod .. 0 \cup {Null}
Row(lic) == lic \in License(LicenseKeys) /\ lic.validatedAt \in Dates

\* The present and SQL NULL are dates, and dates are numbers or NULL.
LEMMA DatesFact == {0, Null} \subseteq Dates /\ Dates \subseteq Int \cup {Null}
BY GraceAssumption DEF Dates

\* The shared update builder returns a well-typed row.
LEMMA UpdateType ==
  ASSUME NEW lic, Row(lic), NEW r \in Answers
  PROVE  Row(UpdateFromResult(lic, r, 0))
<1> DEFINE plan   == IF ~r.signed THEN lic.plan ELSE IF r.plan # Null THEN r.plan ELSE "flat"
           date   == IF r.signed /\ r.valid THEN 0 ELSE lic.validatedAt
           expiry == IF r.signed /\ r.expiresAt # Null THEN r.expiresAt ELSE lic.expiresAt
           row    == [lic EXCEPT !.status = StatusFromResult(r), !.plan = plan,
                                 !.validatedAt = date, !.expiresAt = expiry]
<1>1. StatusFromResult(r) \in Statuses
  BY DEF StatusFromResult, Statuses
<1>2. /\ r.signed \in BOOLEAN /\ r.valid \in BOOLEAN
      /\ r.plan \in Plans \cup {Null} /\ r.expiresAt \in Nat \cup {Null}
  BY DEF Answers
<1>3. plan \in Plans \cup {Null}
  BY <1>2 DEF Row, License, Plans
<1>4. date \in Dates
  BY DatesFact DEF Row
<1>5. expiry \in Nat \cup {Null}
  <2>1. lic.expiresAt \in Nat \cup {Null}
    BY DEF Row, License
  <2>2. CASE r.signed /\ r.expiresAt # Null
    BY <1>2, <2>2
  <2>3. CASE ~(r.signed /\ r.expiresAt # Null)
    BY <2>1, <2>3
  <2>4. QED BY <2>2, <2>3
<1>6. Row(row)
  <2> HIDE DEF plan, date, expiry
  <2> QED BY <1>1, <1>3, <1>4, <1>5, DatesFact DEF Row, License
<1>7. UpdateFromResult(lic, r, 0) = row
  BY DEF UpdateFromResult
<1> HIDE DEF row
<1> QED BY <1>6, <1>7

\* Marking a row unreachable keeps it well typed.
LEMMA MarkType ==
  ASSUME NEW lic, Row(lic)
  PROVE  Row(MarkUnreachable(lic))
BY DEF Row, MarkUnreachable, License, Statuses

\* The update of the scheduler service returns a well-typed row.
LEMMA SchedulerType ==
  ASSUME NEW lic, Row(lic), NEW r \in Answers
  PROVE  Row(SchedulerUpdate(lic, r))
<1>1. (CASE r.valid                           -> "valid"
         [] ~r.valid /\ r.message = "expired" -> "expired"
         [] OTHER                             -> "invalid") \in Statuses
  BY DEF Statuses
<1>2. r.plan \in Plans \cup {Null} /\ r.expiresAt \in Nat \cup {Null}
  BY DEF Answers
<1> QED
  BY <1>1, <1>2, DatesFact DEF Row, SchedulerUpdate, License

\* An activation returns a well-typed row.
LEMMA ActivationType ==
  ASSUME NEW lic, Row(lic), NEW key \in LicenseKeys \cup {Null}, NEW r \in Answers
  PROVE  Row(ActivationUpdate(lic, key, r))
<1>1. r.plan \in Plans \cup {Null} /\ r.expiresAt \in Nat \cup {Null}
  BY DEF Answers
<1>2. "valid" \in Statuses
  BY DEF Statuses
<1> QED
  BY <1>1, <1>2, DatesFact DEF Row, ActivationUpdate, License

\* A notification returns a well-typed row.
LEMMA WebhookType ==
  ASSUME NEW lic, Row(lic), NEW n \in Notices, NEW plan \in NoticePlans
  PROVE  Row(WebhookUpdate(lic, n.event, plan))
<1>1. EventStatus(n.event) \in Statuses
  BY DEF EventStatus, Statuses, Notices
<1>2. (IF plan # Null THEN plan ELSE lic.plan) \in Plans \cup {Null}
  BY DEF Row, License, Plans, NoticePlans
<1> QED
  BY <1>1, <1>2, DatesFact DEF Row, WebhookUpdate, License

\* Issuance stores a well-typed row.
LEMMA IssueType ==
  ASSUME NEW lic, Row(lic), NEW key \in LicenseKeys, NEW expiry \in {lic.expiresAt, 1}
  PROVE  Row([lic EXCEPT !.key = key, !.plan = "flat", !.expiresAt = expiry])
<1>1. expiry \in Nat \cup {Null} /\ "flat" \in Plans
  BY DEF Row, License, Plans
<1> QED
  BY <1>1 DEF Row, License

\* A date that ages stays a date.
LEMMA OlderType ==
  ASSUME NEW date \in Dates
  PROVE  Older(date) \in Dates
BY GraceAssumption DEF Older, Dates

\* Whatever a caller writes is a well-typed row.
LEMMA WrittenType ==
  ASSUME TypeOK, NEW w \in Callers
  PROVE  Row(Written(w))
<1>1. Row(license) /\ check[w] \in Checks
  BY DEF TypeOK, Row, Dates
<1>2. check[w].answer \in Answers /\ check[w].key \in LicenseKeys \cup {Null}
  BY <1>1 DEF Checks
<1>3. Row(UpdateFromResult(license, check[w].answer, 0))
  BY <1>1, <1>2, UpdateType
<1>4. Row(MarkUnreachable(license))
  BY <1>1, MarkType
<1>5. Row(SchedulerUpdate(license, check[w].answer))
  BY <1>1, <1>2, SchedulerType
<1>6. Row(ActivationUpdate(license, check[w].key, check[w].answer))
  BY <1>1, <1>2, ActivationType
<1> QED
  BY <1>1, <1>3, <1>4, <1>5, <1>6 DEF Written

-----------------------------------------------------------------------------
(***************************************************************************)
(* Type correctness.                                                       *)
(***************************************************************************)
\* Every verdict of the validator is an answer.
LEMMA VerdictType ==
  ASSUME TypeOK, NEW key \in LicenseKeys
  PROVE  Verdict(key) \subseteq Answers
<1>1. truth[key] \in Verdicts
  BY DEF TypeOK
<1>2. {SignedAnswer(TRUE, "ok", "pro", 1), SignedAnswer(TRUE, "ok", Null, Null),
       SignedAnswer(FALSE, "expired", "pro", 1),
       SignedAnswer(FALSE, "deactivated", Null, Null)} \subseteq Answers
  BY DEF SignedAnswer, Answers, Messages, Plans
<1>3. CASE truth[key] = "valid"
  BY <1>2, <1>3 DEF Verdict
<1>4. CASE truth[key] = "expired"
  BY <1>2, <1>4 DEF Verdict
<1>5. CASE truth[key] = "deactivated"
  BY <1>2, <1>5 DEF Verdict
<1> QED
  BY <1>1, <1>3, <1>4, <1>5 DEF Verdicts

\* The unsigned answer is an answer.
LEMMA UnsignedType == UnsignedAnswer \in Answers
BY DEF UnsignedAnswer, Answers, Messages

\* The columns of a row make it well typed.
LEMMA RowType ==
  ASSUME Row(license)
  PROVE  license \in License(LicenseKeys) /\ license.validatedAt \in -GracePeriod .. 0 \cup {Null}
BY DEF Row, Dates

\* The initial states are well typed.
LEMMA InitType == Init => TypeOK
<1> SUFFICES ASSUME Init PROVE TypeOK
  OBVIOUS
<1>1. Row(Unpaid)
  BY DatesFact DEF Unpaid, Row, License, Statuses
<1>2. \A key \in LicenseKeys : Row(Activated(key))
  BY DatesFact DEF Activated, Row, License, Statuses, Plans
<1>3. Row(license)
  BY <1>1, <1>2 DEF Init
<1>4. NoCheck \in Checks /\ NoCheck.at = "idle"
  BY UnsignedType DEF NoCheck, Check, Checks
<1>5. check \in [Callers -> Checks] /\ \A w \in Callers : check[w].at = "idle"
  BY <1>4 DEF Init
<1>6. truth \in [LicenseKeys -> Verdicts]
  BY DEF Init, Verdicts
<1>7. silence \in 0 .. GracePeriod /\ changes \in 0 .. MaxChanges
  BY GraceAssumption, EntitlementAssumption DEF Init
<1> QED
  BY <1>3, <1>5, <1>6, <1>7, RowType DEF Init, TypeOK

\* A step of a caller touches its own check, the licence and the histories.
LEMMA CallerType ==
  ASSUME TypeOK, NEW w \in Callers, NEW c \in Checks, check' = [check EXCEPT ![w] = c],
         c.at = "ask" => c.key \in LicenseKeys, Row(license)',
         denied' \in BOOLEAN, silence' \in 0 .. GracePeriod, validated' \in BOOLEAN,
         UNCHANGED <<notice, world>>
  PROVE  TypeOK'
<1>1. check' \in [Callers -> Checks]
  BY DEF TypeOK
<1>2. \A v \in Callers : check'[v].at = "ask" => check'[v].key \in LicenseKeys
  BY DEF TypeOK
<1> QED
  BY <1>1, <1>2 DEF TypeOK, Row, Dates, world

\* Every step keeps the state well typed.
LEMMA NextType == TypeOK /\ [Next]_vars => TypeOK'
<1> SUFFICES ASSUME TypeOK, [Next]_vars PROVE TypeOK'
  OBVIOUS
<1>0. Row(license) /\ check \in [Callers -> Checks]
  BY DEF TypeOK, Row, Dates
<1>s. 0 \in 0 .. GracePeriod
  BY GraceAssumption
<1>1. ASSUME NEW w \in Callers, ReadKey(w) PROVE TypeOK'
  <2>1. license.key \in LicenseKeys
    BY <1>1 DEF ReadKey, TypeOK, License
  <2>2. Check("ask", license.key, UnsignedAnswer) \in Checks
    BY <2>1, UnsignedType DEF Check, Checks
  <2> QED
    BY <1>0, <1>1, <2>1, <2>2, CallerType
    DEF ReadKey, TypeOK, Check, history, Row, Dates
<1>2. ASSUME NEW key \in LicenseKeys, EnterKey(key) PROVE TypeOK'
  <2>1. Check("ask", key, UnsignedAnswer) \in Checks
    BY UnsignedType DEF Check, Checks
  <2> QED
    BY <1>0, <1>2, <2>1, CallerType
    DEF EnterKey, TypeOK, Check, history, Row, Dates, Callers
<1>i. ASSUME NEW key \in LicenseKeys, IssueKey(key) PROVE TypeOK'
  <2>1. PICK expiry \in {license.expiresAt, 1} :
          license' = [license EXCEPT !.key = key, !.plan = "flat", !.expiresAt = expiry]
    BY <1>i DEF IssueKey
  <2>2. Row(license)'
    BY <1>0, <2>1, IssueType DEF Row, Dates
  <2>3. Check("ask", key, UnsignedAnswer) \in Checks
    BY UnsignedType DEF Check, Checks
  <2> QED
    BY <1>i, <2>2, <2>3, CallerType DEF IssueKey, TypeOK, Check, history, Callers
<1>3. ASSUME NEW w \in Callers, Answer(w) PROVE TypeOK'
  <2>1. PICK answer \in IF up THEN Verdict(check[w].key) ELSE {UnsignedAnswer} :
          /\ check' = [check EXCEPT ![w].at = "write", ![w].answer = answer]
          /\ denied' = (denied \/ (w # "activation" /\ Denies(answer)))
          /\ silence' = IF denied' THEN 0 ELSE silence
    BY <1>3 DEF Answer
  <2>2. check[w].key \in LicenseKeys
    BY <1>3 DEF Answer, TypeOK
  <2>3. answer \in Answers
    BY <2>1, <2>2, VerdictType, UnsignedType
  <2> DEFINE c == [check[w] EXCEPT !.at = "write", !.answer = answer]
  <2>4. c \in Checks /\ c.at = "write"
    BY <1>0, <2>3 DEF Checks
  <2>5. check' = [check EXCEPT ![w] = c]
    BY <1>0, <2>1 DEF Checks
  <2>6. denied' \in BOOLEAN /\ silence' \in 0 .. GracePeriod /\ validated' \in BOOLEAN
    BY <1>s, <1>3, <2>1 DEF TypeOK, Denies, Answer
  <2> QED
    BY <1>0, <1>3, <2>4, <2>5, <2>6, CallerType DEF Answer, Row, Dates
<1>4. ASSUME NEW w \in Callers, NoAnswer(w) PROVE TypeOK'
  <2> DEFINE c == [check[w] EXCEPT !.at = "threw"]
  <2>1. c \in Checks /\ c.at = "threw"
    BY <1>0 DEF Checks
  <2>2. check' = [check EXCEPT ![w] = c]
    BY <1>0, <1>4 DEF NoAnswer, Checks
  <2> QED
    BY <1>0, <1>4, <2>1, <2>2, CallerType DEF NoAnswer, TypeOK, history, Row, Dates
<1>5. ASSUME NEW w \in Callers, Write(w) PROVE TypeOK'
  <2>1. Row(license)'
    BY <1>5, WrittenType DEF Write, Row, Dates
  <2>2. NoCheck \in Checks /\ NoCheck.at = "idle"
    BY UnsignedType DEF NoCheck, Check, Checks
  <2> QED
    BY <1>s, <1>5, <2>1, <2>2, CallerType DEF Write, TypeOK
<1>6. ASSUME NEW m \in mail, FindByKey(m) PROVE TypeOK'
  BY <1>s, <1>6 DEF FindByKey, TypeOK
<1>7. ASSUME WriteEvent PROVE TypeOK'
  <2>1. PICK plan \in NoticePlans : license' = WebhookUpdate(license, notice.event, plan)
    BY <1>7 DEF WriteEvent
  <2>2. notice \in Notices
    BY <1>7 DEF WriteEvent, TypeOK
  <2>3. Row(license)'
    BY <1>0, <2>1, <2>2, WebhookType DEF Row, Dates
  <2> QED
    BY <1>s, <1>7, <2>3 DEF WriteEvent, TypeOK, Row, Dates, world
<1>8. ASSUME Tick PROVE TypeOK'
  <2>1. Older(license.validatedAt) \in Dates
    BY <1>0, OlderType DEF Row
  <2>2. Row(license)'
    BY <1>0, <1>8, <2>1, DatesFact DEF Tick, Row, License
  <2>3. silence' \in 0 .. GracePeriod
    BY <1>8, GraceAssumption DEF Tick, TypeOK
  <2> QED
    BY <1>8, <2>2, <2>3 DEF Tick, TypeOK, Row, Dates, world
<1>9. ASSUME Flip PROVE TypeOK'
  BY <1>9 DEF Flip, TypeOK, history
<1>10. ASSUME NEW key \in LicenseKeys, NEW verdict \in Verdicts, ChangeTruth(key, verdict)
       PROVE  TypeOK'
  <2>1. changes' \in 0 .. MaxChanges
    BY <1>10, EntitlementAssumption DEF ChangeTruth, TypeOK
  <2>2. [key |-> key, event |-> EventOf(verdict)] \in Notices
    BY DEF EventOf, Verdicts, Notices
  <2>3. mail' \subseteq Notices
    BY <1>10, <2>2 DEF ChangeTruth, TypeOK
  <2> QED
    BY <1>10, <2>1, <2>3 DEF ChangeTruth, TypeOK, history
<1>11. CASE UNCHANGED vars
  BY <1>11 DEF vars, TypeOK
<1> QED
  BY <1>1, <1>2, <1>i, <1>3, <1>4, <1>5, <1>6, <1>7, <1>8, <1>9, <1>10, <1>11 DEF Next

(***************************************************************************)
(* TypeOK is an invariant: every row, check and notification keeps the     *)
(* shape the code gives it.                                                *)
(***************************************************************************)
THEOREM EntitlementTypes == Spec => []TypeOK
BY InitType, NextType, PTL DEF Spec

-----------------------------------------------------------------------------
(***************************************************************************)
(* TrustInv is inductive.                                                  *)
(***************************************************************************)
\* TrustInv holds initially.
LEMMA TrustInit == Init => TrustInv
<1> SUFFICES ASSUME Init PROVE TrustInv
  OBVIOUS
<1>1. DeployedOnly /\ SignedWhenValid /\ NoDenialUnderWay
  BY DEF Init, DeployedOnly, SignedWhenValid, NoDenialUnderWay, NoCheck, Check, UnsignedAnswer
<1>2. Trusted
  <2>1. validated <=> license.key # Null
    BY DEF Init
  <2> SUFFICES ASSUME license.key # Null
               PROVE  /\ license.status = "valid" /\ license.validatedAt = 0
                      /\ silence = 0 /\ 0 # Null
    BY <2>1 DEF Trusted
  <2> QED
    BY NullAssumption DEF Init, Unpaid, Activated
<1> QED
  BY <1>1, <1>2 DEF TrustInv

\* The first two parts survive a step that puts a signed-when-valid check in
\* the place of a deployed caller's.
LEMMA CheckTrust ==
  ASSUME TypeOK, DeployedOnly, SignedWhenValid, NEW w \in Callers, NEW c,
         check' = [check EXCEPT ![w] = c], w \in deployed \/ c.at = "idle",
         c.answer.valid => c.answer.signed, UNCHANGED deployed
  PROVE  DeployedOnly' /\ SignedWhenValid'
BY DEF TypeOK, DeployedOnly, SignedWhenValid

\* A caller that writes an answer denying nothing keeps the row trusted.
LEMMA WriteTrust ==
  ASSUME TypeOK, TrustInv, AppOnly, ~denied, NEW w \in Callers, Write(w)
  PROVE  Trusted'
<1>0. DeployedOnly /\ SignedWhenValid /\ NoDenialUnderWay /\ Trusted
  BY DEF TrustInv
<1> DEFINE c == check[w]
<1>1. w # "scheduler"
  BY <1>0 DEF Write, DeployedOnly, AppOnly
<1>2. license' = Written(w) /\ c.at \in {"write", "threw"}
  BY DEF Write
<1>3. /\ silence' = IF c.at = "write" /\ c.answer.valid THEN 0 ELSE silence
      /\ validated' = (validated \/ (c.at = "write" /\ c.answer.valid))
  BY DEF Write
<1>4. license \in License(LicenseKeys) /\ silence \in Int /\ c.answer \in Answers
  BY GraceAssumption DEF TypeOK, Checks
<1>5. CASE w \in {"sweep", "retry", "admin", "issuance"} /\ c.at = "write"
  <2>1. license' = UpdateFromResult(license, c.answer, 0)
    BY <1>2, <1>5 DEF Written
  <2>2. ~Denies(c.answer)
    BY <1>0, <1>5 DEF NoDenialUnderWay, Callers
  <2>3. CASE c.answer.signed /\ c.answer.valid
    <3>1. license'.status = "valid" /\ license'.validatedAt = 0
      BY <1>4, <2>1, <2>3 DEF UpdateFromResult, StatusFromResult, License
    <3>2. silence' = 0
      BY <1>3, <1>5, <2>3
    <3> QED
      BY <3>1, <3>2, NullAssumption DEF Trusted
  <2>4. CASE ~c.answer.signed
    <3>1. ~c.answer.valid
      BY <1>0, <2>4 DEF SignedWhenValid
    <3>2. /\ license'.status = "unreachable" /\ license'.key = license.key
          /\ license'.validatedAt = license.validatedAt
      BY <1>4, <2>1, <2>4 DEF UpdateFromResult, StatusFromResult, License
    <3>3. silence' = silence /\ validated' = validated
      BY <1>3, <3>1 DEF TypeOK
    <3> QED
      BY <1>0, <3>2, <3>3 DEF Trusted
  <2> QED
    BY <1>4, <2>2, <2>3, <2>4 DEF Denies, Answers
<1>6. CASE w \in {"sweep", "issuance"} /\ c.at = "threw"
  <2>1. license' = MarkUnreachable(license)
    BY <1>2, <1>6 DEF Written
  <2>2. /\ license'.status = "unreachable" /\ license'.key = license.key
        /\ license'.validatedAt = license.validatedAt
    BY <1>4, <2>1 DEF MarkUnreachable, License
  <2>3. silence' = silence /\ validated' = validated
    BY <1>3, <1>6 DEF TypeOK
  <2> QED
    BY <1>0, <2>2, <2>3 DEF Trusted
<1>7. CASE w = "activation" /\ c.at = "write" /\ c.answer.valid
  <2>1. license' = ActivationUpdate(license, c.key, c.answer)
    BY <1>2, <1>7 DEF Written
  <2>2. license'.status = "valid" /\ license'.validatedAt = 0
    BY <1>4, <2>1 DEF ActivationUpdate, License
  <2>3. silence' = 0
    BY <1>3, <1>7
  <2> QED
    BY <2>2, <2>3, NullAssumption DEF Trusted
<1>8. CASE /\ ~(w \in {"sweep", "retry", "admin", "issuance"} /\ c.at = "write")
           /\ ~(w \in {"sweep", "issuance"} /\ c.at = "threw")
           /\ ~(w = "activation" /\ c.at = "write" /\ c.answer.valid)
  <2>1. license' = license
    BY <1>1, <1>2, <1>8 DEF Written
  <2>2. silence' = silence /\ validated' = validated
    BY <1>1, <1>3, <1>8 DEF Callers, TypeOK
  <2> QED
    BY <1>0, <2>1, <2>2 DEF Trusted
<1> QED
  BY <1>5, <1>6, <1>7, <1>8

\* TrustInv survives every step.
LEMMA TrustNext == TypeOK /\ TypeOK' /\ TrustInv /\ [Next]_vars => TrustInv'
<1> SUFFICES ASSUME TypeOK, TypeOK', TrustInv, [Next]_vars PROVE TrustInv'
  OBVIOUS
<1>0. DeployedOnly /\ SignedWhenValid
  BY DEF TrustInv
<1>c. check \in [Callers -> Checks] /\ silence \in Int
  BY GraceAssumption DEF TypeOK
<1> DEFINE Ask(key) == Check("ask", key, UnsignedAnswer)
<1>a. \A key : Ask(key).answer.valid = FALSE /\ Ask(key).at = "ask"
  BY DEF Check, UnsignedAnswer
<1>1. ASSUME NEW w \in Callers, ReadKey(w) PROVE TrustInv'
  <2>1. check' = [check EXCEPT ![w] = Ask(license.key)] /\ w \in deployed
    BY <1>1 DEF ReadKey, Idle
  <2>2. DeployedOnly' /\ SignedWhenValid'
    BY <1>0, <1>1, <1>a, <2>1, CheckTrust DEF ReadKey, world
  <2>3. AppOnly /\ ~denied => NoDenialUnderWay'
    BY <1>1, <1>a, <1>c, <2>1 DEF TrustInv, NoDenialUnderWay, ReadKey
  <2>4. AppOnly /\ ~denied => Trusted'
    BY <1>1 DEF TrustInv, Trusted, ReadKey, history
  <2> QED
    BY <1>1, <2>2, <2>3, <2>4 DEF TrustInv, ReadKey, world, history, AppOnly
<1>2. ASSUME NEW key \in LicenseKeys, EnterKey(key) PROVE TrustInv'
  <2>1. check' = [check EXCEPT !["activation"] = Ask(key)] /\ "activation" \in deployed
    BY <1>2 DEF EnterKey, Idle
  <2>2. DeployedOnly' /\ SignedWhenValid'
    BY <1>0, <1>2, <1>a, <2>1, CheckTrust DEF EnterKey, world, Callers
  <2>3. AppOnly /\ ~denied => NoDenialUnderWay'
    BY <1>2, <1>a, <1>c, <2>1 DEF TrustInv, NoDenialUnderWay, EnterKey
  <2>4. AppOnly /\ ~denied => Trusted'
    BY <1>2 DEF TrustInv, Trusted, EnterKey, history
  <2> QED
    BY <1>2, <2>2, <2>3, <2>4 DEF TrustInv, EnterKey, world, history, AppOnly
<1>i. ASSUME NEW key \in LicenseKeys, IssueKey(key) PROVE TrustInv'
  <2>1. check' = [check EXCEPT !["issuance"] = Ask(key)] /\ "issuance" \in deployed
    BY <1>i DEF IssueKey, Idle
  <2>2. DeployedOnly' /\ SignedWhenValid'
    BY <1>0, <1>i, <1>a, <2>1, CheckTrust DEF IssueKey, world, Callers
  <2>3. AppOnly /\ ~denied => NoDenialUnderWay'
    BY <1>i, <1>a, <1>c, <2>1 DEF TrustInv, NoDenialUnderWay, IssueKey
  <2>4. license'.status = license.status /\ license'.validatedAt = license.validatedAt
    BY <1>i DEF IssueKey, TypeOK, License
  <2>5. AppOnly /\ ~denied => Trusted'
    BY <1>i, <2>4 DEF TrustInv, Trusted, IssueKey, history
  <2> QED
    BY <1>i, <2>2, <2>3, <2>5 DEF TrustInv, IssueKey, world, history, AppOnly
<1>3. ASSUME NEW w \in Callers, Answer(w) PROVE TrustInv'
  <2>1. PICK answer \in IF up THEN Verdict(check[w].key) ELSE {UnsignedAnswer} :
          /\ check' = [check EXCEPT ![w].at = "write", ![w].answer = answer]
          /\ denied' = (denied \/ (w # "activation" /\ Denies(answer)))
          /\ silence' = IF denied' THEN 0 ELSE silence
    BY <1>3 DEF Answer
  <2> DEFINE c == [check[w] EXCEPT !.at = "write", !.answer = answer]
  <2>2. check' = [check EXCEPT ![w] = c] /\ c.at = "write" /\ c.answer = answer
    BY <1>c, <2>1 DEF Checks
  <2>3. answer.valid => answer.signed
    <3>1. check[w].key \in LicenseKeys
      BY <1>3 DEF Answer, TypeOK
    <3>2. truth[check[w].key] \in Verdicts
      BY <3>1 DEF TypeOK
    <3> QED
      BY <2>1, <3>2 DEF Verdict, Verdicts, SignedAnswer, UnsignedAnswer
  <2>4. w \in deployed
    BY <1>0, <1>3 DEF Answer, DeployedOnly
  <2>5. DeployedOnly' /\ SignedWhenValid'
    BY <1>0, <1>3, <2>2, <2>3, <2>4, CheckTrust DEF Answer, world
  <2>6. ASSUME AppOnly, ~denied' PROVE NoDenialUnderWay' /\ Trusted'
    <3>1. ~denied /\ silence' = silence /\ (w # "activation" => ~Denies(answer))
      BY <2>1, <2>6 DEF TypeOK
    <3>2. NoDenialUnderWay /\ Trusted
      BY <2>6, <3>1 DEF TrustInv
    <3>3. NoDenialUnderWay'
      BY <1>3, <1>c, <2>2, <3>1, <3>2 DEF NoDenialUnderWay, Answer
    <3> QED
      BY <1>3, <3>1, <3>2, <3>3 DEF Trusted, Answer
  <2> QED
    BY <1>3, <2>5, <2>6 DEF TrustInv, Answer, world, AppOnly
<1>4. ASSUME NEW w \in Callers, NoAnswer(w) PROVE TrustInv'
  <2> DEFINE c == [check[w] EXCEPT !.at = "threw"]
  <2>1. /\ check' = [check EXCEPT ![w] = c]
        /\ c.at = "threw" /\ c.answer = check[w].answer
    BY <1>4, <1>c DEF NoAnswer, Checks
  <2>2. w \in deployed /\ (c.answer.valid => c.answer.signed)
    BY <1>0, <1>4, <2>1 DEF NoAnswer, DeployedOnly, SignedWhenValid
  <2>3. DeployedOnly' /\ SignedWhenValid'
    BY <1>0, <1>4, <2>1, <2>2, CheckTrust DEF NoAnswer, world
  <2>4. AppOnly /\ ~denied => NoDenialUnderWay'
    BY <1>4, <1>c, <2>1 DEF TrustInv, NoDenialUnderWay, NoAnswer
  <2>5. AppOnly /\ ~denied => Trusted'
    BY <1>4 DEF TrustInv, Trusted, NoAnswer, history
  <2> QED
    BY <1>4, <2>3, <2>4, <2>5 DEF TrustInv, NoAnswer, world, history, AppOnly
<1>5. ASSUME NEW w \in Callers, Write(w) PROVE TrustInv'
  <2>1. check' = [check EXCEPT ![w] = NoCheck]
    BY <1>5 DEF Write
  <2>2. NoCheck.at = "idle" /\ NoCheck.answer.valid = FALSE
    BY DEF NoCheck, Check, UnsignedAnswer
  <2>3. DeployedOnly' /\ SignedWhenValid'
    BY <1>0, <1>5, <2>1, <2>2, CheckTrust DEF Write, world
  <2>4. AppOnly /\ ~denied => NoDenialUnderWay'
    BY <1>5, <1>c, <2>1, <2>2 DEF TrustInv, NoDenialUnderWay, Write
  <2>5. AppOnly /\ ~denied => Trusted'
    BY <1>5, WriteTrust
  <2> QED
    BY <1>5, <2>3, <2>4, <2>5 DEF TrustInv, Write, world, AppOnly
<1>6. ASSUME NEW m \in mail, FindByKey(m) PROVE TrustInv'
  <2>1. DeployedOnly' /\ SignedWhenValid'
    BY <1>0, <1>6 DEF FindByKey, DeployedOnly, SignedWhenValid
  <2>2. ASSUME AppOnly, ~denied' PROVE NoDenialUnderWay' /\ Trusted'
    <3>1. /\ ~denied /\ silence' = silence /\ validated' = validated
          /\ license.key = m.key => m.event = "updated"
      BY <1>6, <2>2 DEF FindByKey, TypeOK
    <3>2. NoDenialUnderWay /\ Trusted
      BY <2>2, <3>1 DEF TrustInv
    <3> QED
      BY <1>6, <3>1, <3>2 DEF FindByKey, NoDenialUnderWay, Trusted
  <2> QED
    BY <1>6, <2>1, <2>2 DEF TrustInv, FindByKey, AppOnly
<1>7. ASSUME WriteEvent PROVE TrustInv'
  <2>1. DeployedOnly' /\ SignedWhenValid'
    BY <1>0, <1>7 DEF WriteEvent, world, DeployedOnly, SignedWhenValid
  <2>2. ASSUME AppOnly, ~denied PROVE NoDenialUnderWay' /\ Trusted'
    <3>1. NoDenialUnderWay /\ notice.event = "updated"
      BY <1>7, <2>2 DEF WriteEvent, TrustInv, NoDenialUnderWay
    <3>2. PICK plan \in NoticePlans : license' = WebhookUpdate(license, notice.event, plan)
      BY <1>7 DEF WriteEvent
    <3>3. license'.status = "valid" /\ license'.validatedAt = 0
      BY <3>1, <3>2 DEF WebhookUpdate, EventStatus, TypeOK, License
    <3>4. silence' = 0
      BY <1>7, <3>1 DEF WriteEvent
    <3>5. NoDenialUnderWay'
      BY <1>7, <3>1 DEF WriteEvent, NoDenialUnderWay
    <3> QED
      BY <3>3, <3>4, <3>5, NullAssumption DEF Trusted
  <2> QED
    BY <1>7, <2>1, <2>2 DEF TrustInv, WriteEvent, world, AppOnly
<1>8. ASSUME Tick PROVE TrustInv'
  <2>1. DeployedOnly' /\ SignedWhenValid'
    BY <1>0, <1>8 DEF Tick, world, DeployedOnly, SignedWhenValid
  <2>2. ASSUME AppOnly, ~denied PROVE NoDenialUnderWay' /\ Trusted'
    <3>1. NoDenialUnderWay /\ Trusted
      BY <2>2 DEF TrustInv
    <3>2. NoDenialUnderWay'
      BY <1>8, <3>1 DEF Tick, NoDenialUnderWay
    <3>3. /\ license'.key = license.key /\ license'.status = license.status
          /\ license'.validatedAt = Older(license.validatedAt) /\ validated' = validated
      BY <1>8 DEF Tick, TypeOK, License
    <3>4. silence' = IF silence = GracePeriod THEN silence ELSE silence + 1
      BY <1>8, <2>2 DEF Tick
    <3>5. ASSUME validated
          PROVE  license'.validatedAt # Null /\ license'.validatedAt + silence' >= 0
      <4>1. license.validatedAt \in -GracePeriod .. 0 /\ license.validatedAt + silence >= 0
        BY <3>1, <3>5 DEF Trusted, TypeOK
      <4>2. license.validatedAt # Null
        BY <4>1, NullAssumption, GraceAssumption
      <4>3. license'.validatedAt = IF license.validatedAt = -GracePeriod
                                    THEN license.validatedAt ELSE license.validatedAt - 1
        BY <3>3, <4>2 DEF Older
      <4>4. license'.validatedAt \in Int
        BY <4>1, <4>3, GraceAssumption
      <4> QED
        BY <3>4, <4>1, <4>3, <4>4, <1>c, GraceAssumption, NullAssumption
    <3> QED
      BY <3>1, <3>2, <3>3, <3>5 DEF Trusted
  <2> QED
    BY <1>8, <2>1, <2>2 DEF TrustInv, Tick, world, AppOnly
<1>9. ASSUME UNCHANGED <<deployed, license, check, notice, denied, silence, validated>>
      PROVE  TrustInv'
  BY <1>9 DEF TrustInv, DeployedOnly, SignedWhenValid, NoDenialUnderWay, Trusted, AppOnly
<1>10. ASSUME Flip PROVE TrustInv'
  BY <1>9, <1>10 DEF Flip, history
<1>11. ASSUME NEW key \in LicenseKeys, NEW verdict \in Verdicts, ChangeTruth(key, verdict)
       PROVE  TrustInv'
  BY <1>9, <1>11 DEF ChangeTruth, history
<1>12. CASE UNCHANGED vars
  BY <1>9, <1>12 DEF vars
<1> QED
  BY <1>1, <1>2, <1>i, <1>3, <1>4, <1>5, <1>6, <1>7, <1>8, <1>10, <1>11, <1>12 DEF Next

\* TrustInv is strong enough for LockNeedsReason.
LEMMA TrustImplies == TypeOK /\ TrustInv => LockNeedsReason
<1> SUFFICES ASSUME TypeOK, TrustInv, AppOnly, validated, Locked(license, 0), ~denied
             PROVE  silence >= GracePeriod
  BY GraceAssumption DEF LockNeedsReason, TypeOK
<1>1. Trusted
  BY DEF TrustInv
<1>2. ~WithinGrace(license.validatedAt, 0)
  BY <1>1 DEF Trusted, Locked, LockdownReason
<1>3. license.validatedAt \in -GracePeriod .. 0 /\ license.validatedAt + silence >= 0
  BY <1>1 DEF Trusted, TypeOK
<1>4. 0 - license.validatedAt >= GracePeriod
  BY <1>1, <1>2, <1>3, GraceAssumption DEF Trusted, WithinGrace
<1> QED
  BY <1>3, <1>4, GraceAssumption DEF TypeOK

(***************************************************************************)
(* The app's own writers lock nobody out by mistake: before the first      *)
(* negative verdict an organisation whose key was ever found valid is      *)
(* locked only after a whole grace period of silence.                      *)
(***************************************************************************)
THEOREM LocksHaveReason == Spec => []LockNeedsReason
<1>1. TypeOK /\ TypeOK' /\ TrustInv /\ [Next]_vars => TrustInv'
  BY TrustNext
<1>2. Spec => []TypeOK
  BY EntitlementTypes
<1>3. Spec => []TrustInv
  BY <1>1, <1>2, TrustInit, PTL DEF Spec
<1> QED
  BY <1>2, <1>3, TrustImplies, PTL

-----------------------------------------------------------------------------
(***************************************************************************)
(* No answer wipes what it does not carry.                                 *)
(***************************************************************************)
Kept(lic, new) == new.plan = lic.plan /\ new.expiresAt = lic.expiresAt

\* What one step may make of plan and expiry.
Sourced ==
  /\ license'.plan # license.plan => PlanNamed
  /\ license'.expiresAt # license.expiresAt => ExpiryCarried

\* The shared update builder takes plan and expiry from a signed answer or
\* leaves them alone.
LEMMA UpdateSources ==
  ASSUME NEW lic \in License(LicenseKeys), NEW r \in Answers,
         NEW new, new = UpdateFromResult(lic, r, 0)
  PROVE  /\ new.plan # lic.plan =>
              r.signed /\ new.plan = (IF r.plan # Null THEN r.plan ELSE "flat")
         /\ new.expiresAt # lic.expiresAt =>
              r.signed /\ r.expiresAt # Null /\ new.expiresAt = r.expiresAt
<1>1. new.plan = IF ~r.signed THEN lic.plan ELSE IF r.plan # Null THEN r.plan ELSE "flat"
  BY DEF UpdateFromResult, License
<1>2. new.expiresAt = IF r.signed /\ r.expiresAt # Null THEN r.expiresAt ELSE lic.expiresAt
  BY DEF UpdateFromResult, License
<1> QED
  BY <1>1, <1>2

\* A writer of the app other than an activation stores what its answer carried.
LEMMA WriteSources ==
  ASSUME TypeOK, NEW w \in {"sweep", "retry", "admin", "issuance"}, Write(w)
  PROVE  Sourced
<1> DEFINE r == check[w].answer
<1>1. license \in License(LicenseKeys) /\ r \in Answers /\ license' = Written(w)
  BY DEF TypeOK, Callers, Checks, Write
<1>2. CASE check[w].at = "write"
  <2>1. license' = UpdateFromResult(license, r, 0)
    BY <1>1, <1>2 DEF Written
  <2>2. Stored(w) /\ w \in Callers
    BY <1>2 DEF Write, TypeOK, Stored, NoCheck, Check, Callers
  <2>3. /\ license'.plan # license.plan =>
             r.signed /\ license'.plan = (IF r.plan # Null THEN r.plan ELSE "flat")
        /\ license'.expiresAt # license.expiresAt =>
             r.signed /\ r.expiresAt # Null /\ license'.expiresAt = r.expiresAt
    BY <1>1, <2>1, UpdateSources
  <2> QED
    BY <2>2, <2>3 DEF Sourced, PlanNamed, ExpiryCarried
<1>3. CASE check[w].at # "write"
  <2>1. license' \in {MarkUnreachable(license), license}
    BY <1>1, <1>3 DEF Written
  <2>2. Kept(license, license')
    BY <1>1, <2>1 DEF Kept, MarkUnreachable, License
  <2> QED
    BY <2>2 DEF Kept, Sourced
<1> QED
  BY <1>2, <1>3

\* Every step of a deployment without the scheduler, key entries apart.
LEMMA StepSources ==
  ASSUME TypeOK, DeployedOnly, [Next]_vars, AppOnly, ~StoresKey
  PROVE  Sourced
<1>0. license \in License(LicenseKeys)
  BY DEF TypeOK
<1>1. ASSUME NEW w \in Callers, Write(w)
      PROVE  Sourced
  <2>1. CASE w = "activation"
    <3>1. check["activation"].at # "write" /\ check["activation"].at = "threw"
      BY <1>1, <2>1 DEF Write, TypeOK, NoCheck, Check, StoresKey, Stored
    <3>2. license' = license
      BY <1>1, <2>1, <3>1 DEF Write, Written
    <3> QED
      BY <3>2 DEF Sourced
  <2>2. w # "scheduler"
    BY <1>1 DEF Write, DeployedOnly, AppOnly
  <2>3. CASE w # "activation"
    <3>1. w \in {"sweep", "retry", "admin", "issuance"}
      BY <2>2, <2>3 DEF Callers
    <3> QED
      BY <1>1, <3>1, WriteSources
  <2> QED
    BY <2>1, <2>3
<1>2. ASSUME NEW key \in LicenseKeys, IssueKey(key)
      PROVE  FALSE
  BY <1>2 DEF IssueKey, Idle, StoresKey, TypeOK, Check, Callers
<1>3. ASSUME WriteEvent
      PROVE  Sourced
  <2>1. PICK plan \in NoticePlans : license' = WebhookUpdate(license, notice.event, plan)
    BY <1>3 DEF WriteEvent
  <2>2. /\ license'.plan = IF plan # Null THEN plan ELSE license.plan
        /\ license'.expiresAt = license.expiresAt
    BY <1>0, <2>1 DEF WebhookUpdate, License
  <2> QED
    BY <1>3, <2>2 DEF WriteEvent, Sourced, PlanNamed
<1>4. ASSUME Tick
      PROVE  Sourced
  BY <1>0, <1>4 DEF Tick, Sourced, License
<1>5. ASSUME UNCHANGED license
      PROVE  Sourced
  BY <1>5 DEF Sourced
<1>6. \/ \E w \in Callers : Write(w)
      \/ \E key \in LicenseKeys : IssueKey(key)
      \/ WriteEvent
      \/ Tick
      \/ UNCHANGED license
  BY DEF Next, ReadKey, EnterKey, Answer, NoAnswer, FindByKey, Flip, ChangeTruth, vars
<1> QED
  BY <1>1, <1>2, <1>3, <1>4, <1>5, <1>6

(***************************************************************************)
(* No answer wipes what it does not carry: apart from the key an           *)
(* activation or issuance stores, plan and expiry change only to what a    *)
(* signed answer or a notification carried, or the plan to the fallback.   *)
(***************************************************************************)
THEOREM MetadataSurvives == Spec => MetadataKept
<1>1. TypeOK /\ TypeOK' /\ TrustInv /\ [Next]_vars => TrustInv'
  BY TrustNext
<1>2. Spec => []TypeOK
  BY EntitlementTypes
<1>3. TypeOK /\ TrustInv /\ [Next]_vars =>
        [AppOnly /\ ~StoresKey =>
           /\ license'.plan # license.plan => PlanNamed
           /\ license'.expiresAt # license.expiresAt => ExpiryCarried]_vars
  BY StepSources DEF TrustInv, Sourced
<1> QED
  BY <1>1, <1>2, <1>3, TrustInit, PTL DEF Spec, MetadataKept
=============================================================================
