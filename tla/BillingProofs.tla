--------------------------- MODULE BillingProofs ---------------------------
(***************************************************************************)
(* Proofs of the safety properties of Billing, for any orders,             *)
(* organisations, handlers, retry budget and faults.                       *)
(***************************************************************************)
EXTENDS BillingProps, TLAPS

\* The values a fresh call, a fresh job and an unpaid organisation start from are well typed.
LEMMA FreshTypes ==
  /\ NoCall \in Calls
  /\ NoJob \in Jobs
  /\ Unpaid \in License(Orgs)
  /\ UnsignedAnswer \in Answers
  <1>1. UnsignedAnswer \in Answers
    BY DEF UnsignedAnswer, Answers, Messages
  <1>2. NoCall \in Calls
    BY <1>1 DEF NoCall, Call, Calls, Steps
  <1>3. NoJob \in Jobs
    BY DEF NoJob, Jobs, JobStates
  <1>4. Unpaid \in License(Orgs)
    BY DEF Unpaid, License, Statuses
  <1>5. QED BY <1>1, <1>2, <1>3, <1>4

\* The initial states are well typed.
LEMMA InitType == Init => TypeOK
  BY FreshTypes DEF Init, TypeOK

\* Moving a call to another step keeps the calls well typed.
LEMMA GotoType ==
  ASSUME TypeOK, NEW o \in Orders, NEW p \in Paths, NEW step \in Steps, Goto(o, p, step)
  PROVE  run' \in [Orders \X Paths -> Calls]
  BY DEF TypeOK, Goto, Calls

\* Every new state a job is given is one of the job states.
LEMMA JobTypes ==
  ASSUME NEW j \in Jobs
  PROVE  Retried(j) \in Jobs /\ Stalled(j) \in Jobs
  <1> DEFINE next == IF j.attempts + 1 >= MaxAttempts THEN "failed" ELSE "waiting"
             back == IF j.stalls >= 1 THEN "failed" ELSE "waiting"
  <1>1. j.attempts + 1 \in Nat /\ j.stalls + 1 \in Nat /\ j.state \in JobStates
    BY DEF Jobs
  <1>2. next \in JobStates /\ back \in JobStates
    BY DEF JobStates
  <1>3. Retried(j) = [j EXCEPT !.attempts = @ + 1, !.state = next]
    BY DEF Retried
  <1>4. \/ Stalled(j) = [j EXCEPT !.state = "none"]
        \/ Stalled(j) = [j EXCEPT !.stalls = @ + 1, !.state = back]
        \/ Stalled(j) = j
    BY DEF Stalled
  <1> HIDE DEF next, back
  <1>5. QED BY <1>1, <1>2, <1>3, <1>4 DEF Jobs, JobStates

\* A call that returns, with success or without, leaves calls and jobs well typed.
LEMMA ReturnType ==
  ASSUME TypeOK, NEW o \in Orders, NEW p \in Paths, ReturnOk(o, p) \/ ReturnFailed(o, p)
  PROVE  /\ run' \in [Orders \X Paths -> Calls]
         /\ job' \in [Orders -> Jobs]
  <1>1. run' \in [Orders \X Paths -> Calls]
    BY FreshTypes DEF TypeOK, ReturnOk, ReturnFailed, Finished
  <1>2. job \in [Orders -> Jobs] /\ job[o] \in Jobs
    BY DEF TypeOK
  <1>3. Retried(job[o]) \in Jobs
    BY <1>2, JobTypes
  <1>4. CASE ReturnOk(o, p)
    BY <1>1, <1>2, <1>4 DEF ReturnOk, Jobs, JobStates
  <1>5. CASE ReturnFailed(o, p)
    <2>1. CASE p = "inline"
      BY <1>1, <1>2, <1>5, <2>1 DEF ReturnFailed, Jobs, JobStates
    <2>2. CASE p = "job"
      BY <1>1, <1>2, <1>3, <1>5, <2>2 DEF ReturnFailed
    <2>3. CASE p = "sweep"
      BY <1>1, <1>2, <1>5, <2>3 DEF ReturnFailed
    <2>4. QED BY <2>1, <2>2, <2>3 DEF Paths
  <1>6. QED BY <1>4, <1>5

\* The shared update builder returns a licence row and never touches the key.
LEMMA UpdateType ==
  ASSUME NEW lic \in License(Orgs), NEW r \in Answers, NEW now \in Nat
  PROVE  /\ UpdateFromResult(lic, r, now) \in License(Orgs)
         /\ UpdateFromResult(lic, r, now).key = lic.key
  <1> DEFINE plan   == IF ~r.signed THEN lic.plan ELSE IF r.plan # Null THEN r.plan ELSE "flat"
             date   == IF r.signed /\ r.valid THEN now ELSE lic.validatedAt
             expiry == IF r.signed /\ r.expiresAt # Null THEN r.expiresAt ELSE lic.expiresAt
             row    == [lic EXCEPT !.status = StatusFromResult(r), !.plan = plan,
                                   !.validatedAt = date, !.expiresAt = expiry]
  <1>1. StatusFromResult(r) \in Statuses
    BY DEF StatusFromResult, Statuses
  <1>2. r.plan \in Plans \cup {Null} /\ r.expiresAt \in Nat \cup {Null}
    BY DEF Answers
  <1>3. plan \in Plans \cup {Null}
    BY <1>2 DEF License, Plans
  <1>4. date \in Int \cup {Null}
    BY DEF License
  <1>5. expiry \in Nat \cup {Null}
    <2>1. lic.expiresAt \in Nat \cup {Null}
      BY DEF License
    <2>2. CASE r.signed /\ r.expiresAt # Null
      BY <1>2, <2>2
    <2>3. CASE ~(r.signed /\ r.expiresAt # Null)
      BY <2>1, <2>3
    <2>4. QED BY <2>2, <2>3
  <1>6. row \in License(Orgs) /\ row.key = lic.key
    <2> HIDE DEF plan, date, expiry
    <2>1. QED BY <1>1, <1>3, <1>4, <1>5 DEF License
  <1>7. UpdateFromResult(lic, r, now) = row
    BY DEF UpdateFromResult
  <1> HIDE DEF row
  <1>8. QED BY <1>6, <1>7

\* Counting a fault keeps the count a natural number.
LEMMA FaultType ==
  ASSUME TypeOK, NEW kind, Fault(kind)
  PROVE  faults' \in Nat /\ faults' = faults + 1
  <1>1. faults \in Nat
    BY DEF TypeOK
  <1>2. QED BY <1>1 DEF Fault

\* An extension keeps credits and terms natural numbers.
LEMMA ExtendType ==
  ASSUME TypeOK, NEW o \in Orders, Extend(o)
  PROVE  credits' \in [Orders -> Nat] /\ term' \in [Orgs -> Nat]
  <1>1. OrgOf[o] \in Orgs
    BY BillingAssumption
  <1>2. credits[o] + 1 \in Nat /\ term[OrgOf[o]] + 1 \in Nat
    BY <1>1 DEF TypeOK
  <1>3. QED BY <1>1, <1>2 DEF Extend, TypeOK

\* A failed call that writes no row keeps the state well typed.
LEMMA FailedCallType ==
  ASSUME TypeOK, NEW o \in Orders, NEW p \in Paths, ReturnFailed(o, p),
         NEW kind, Fault(kind), UNCHANGED <<dbVars, hook, batch, paid>>,
         credits' \in [Orders -> Nat], term' \in [Orgs -> Nat]
  PROVE  TypeOK'
  <1>1. run' \in [Orders \X Paths -> Calls] /\ job' \in [Orders -> Jobs]
    BY ReturnType
  <1>2. faults' \in Nat
    BY FaultType
  <1>3. QED BY <1>1, <1>2 DEF TypeOK, dbVars

\* Every step keeps the state well typed.
LEMMA TypeStep == TypeOK /\ [Next]_vars => TypeOK'
  <1> SUFFICES ASSUME TypeOK, [Next]_vars PROVE TypeOK'
    OBVIOUS
  <1> USE DEF dbVars, envVars
  <1>1. ASSUME NEW o \in Orders, CreateOrder(o)
       PROVE  TypeOK'
    BY <1>1 DEF CreateOrder, TypeOK
  <1>2. ASSUME NEW o \in Orders, NEW amount \in {"exact", "other"}, Pay(o, amount)
       PROVE  TypeOK'
    BY <1>2 DEF Pay, TypeOK
  <1>3. ASSUME NEW h \in Hooks, NEW o \in Orders, NEW kind \in Kinds, Deliver(h, o, kind)
       PROVE  TypeOK'
    BY <1>3 DEF Deliver, TypeOK
  <1>4. ASSUME NEW h \in Hooks, NEW o \in Orders, ApplySettlement(h, o)
       PROVE  TypeOK'
    BY <1>4, FreshTypes DEF ApplySettlement, Respond, TypeOK, Call, Calls, Steps
  <1>5. ASSUME NEW h \in Hooks, NEW o \in Orders, ApplyReplay(h, o)
       PROVE  TypeOK'
    BY <1>5, FreshTypes DEF ApplyReplay, Respond, TypeOK
  <1>6. ASSUME NEW h \in Hooks, NEW o \in Orders, ApplyFailure(h, o)
       PROVE  TypeOK'
    BY <1>6, FreshTypes DEF ApplyFailure, Respond, TypeOK
  <1>7. ASSUME NEW h \in Hooks, NEW o \in Orders, ApplyRecord(h, o)
       PROVE  TypeOK'
    BY <1>7, FreshTypes DEF ApplyRecord, Respond, TypeOK
  <1>8. ASSUME NEW o \in Orders, NEW p \in Paths, ReadOrder(o, p)
       PROVE  TypeOK'
    BY <1>8, GotoType, ReturnType DEF ReadOrder, Steps, TypeOK
  <1>9. ASSUME NEW o \in Orders, NEW p \in Paths, ReadOrderFails(o, p)
       PROVE  TypeOK'
    <2>1. credits' \in [Orders -> Nat] /\ term' \in [Orgs -> Nat]
      BY <1>9 DEF ReadOrderFails, TypeOK
    <2>2. QED BY <1>9, <2>1, FailedCallType DEF ReadOrderFails
  <1>10. ASSUME NEW o \in Orders, NEW p \in Paths, Generate(o, p)
       PROVE  TypeOK'
    <2>1. credits' \in [Orders -> Nat] /\ term' \in [Orgs -> Nat] /\ OrgOf[o] \in Orgs
      BY <1>10, ExtendType, BillingAssumption DEF Generate
    <2>2. PICK expiry \in {term'[OrgOf[o]], Null} :
            run' = [run EXCEPT ![<<o, p>>] = Call("persist_order", expiry, UnsignedAnswer)]
      BY <1>10 DEF Generate
    <2>3. Call("persist_order", expiry, UnsignedAnswer) \in Calls
      BY <2>1, FreshTypes DEF Call, Calls, Steps
    <2>4. QED BY <1>10, <2>1, <2>2, <2>3 DEF Generate, Extend, TypeOK
  <1>11. ASSUME NEW o \in Orders, NEW p \in Paths, GenerateRefused(o, p)
       PROVE  TypeOK'
    <2>1. credits' \in [Orders -> Nat] /\ term' \in [Orgs -> Nat]
      BY <1>11 DEF GenerateRefused, TypeOK
    <2>2. QED BY <1>11, <2>1, FailedCallType DEF GenerateRefused
  <1>12. ASSUME NEW o \in Orders, NEW p \in Paths, GenerateAnswerLost(o, p)
       PROVE  TypeOK'
    <2>1. credits' \in [Orders -> Nat] /\ term' \in [Orgs -> Nat]
      BY <1>12, ExtendType DEF GenerateAnswerLost
    <2>2. QED BY <1>12, <2>1, FailedCallType DEF GenerateAnswerLost, Extend
  <1>13. ASSUME NEW o \in Orders, NEW p \in Paths, PersistOrder(o, p)
       PROVE  TypeOK'
    BY <1>13, GotoType, BillingAssumption DEF PersistOrder, Steps, TypeOK
  <1>14. ASSUME NEW o \in Orders, NEW p \in Paths, PersistOrderFails(o, p)
       PROVE  TypeOK'
    <2>1. credits' \in [Orders -> Nat] /\ term' \in [Orgs -> Nat]
      BY <1>14 DEF PersistOrderFails, TypeOK
    <2>2. QED BY <1>14, <2>1, FailedCallType DEF PersistOrderFails
  <1>15. ASSUME NEW o \in Orders, NEW p \in Paths, PersistOrg(o, p)
       PROVE  TypeOK'
    <2>1. run' \in [Orders \X Paths -> Calls]
      BY <1>15, GotoType DEF PersistOrg, Steps
    <2>2. OrgOf[o] \in Orgs /\ run[<<o, p>>].expiry \in Nat \cup {Null}
      BY BillingAssumption DEF TypeOK, Calls
    <2>3. \A lic \in License(Orgs) :
            Provisional(lic, OrgOf[o], run[<<o, p>>].expiry) \in License(Orgs)
      BY <2>2 DEF Provisional, License, Plans
    <2>4. QED BY <1>15, <2>1, <2>2, <2>3 DEF PersistOrg, TypeOK
  <1>16. ASSUME NEW o \in Orders, NEW p \in Paths, PersistOrgFails(o, p)
       PROVE  TypeOK'
    <2>1. credits' \in [Orders -> Nat] /\ term' \in [Orgs -> Nat]
      BY <1>16 DEF PersistOrgFails, TypeOK
    <2>2. QED BY <1>16, <2>1, FailedCallType DEF PersistOrgFails
  <1>17. ASSUME NEW o \in Orders, NEW p \in Paths, Validate(o, p)
       PROVE  TypeOK'
    <2>1. PICK answer \in PossibleAnswers(OrgOf[o]) :
            run' = [run EXCEPT ![<<o, p>>] = Call("write", Null, answer)]
      BY <1>17 DEF Validate
    <2>2. term[OrgOf[o]] \in Nat
      BY BillingAssumption DEF TypeOK
    <2>3. \/ answer = SignedAnswer(TRUE, "ok", "flat", term[OrgOf[o]])
          \/ answer = SignedAnswer(FALSE, "other", Null, Null)
          \/ answer = UnsignedAnswer
      BY <2>1 DEF PossibleAnswers
    <2>4. answer \in Answers
      <3>1. SignedAnswer(TRUE, "ok", "flat", term[OrgOf[o]]) \in Answers
        BY <2>2 DEF SignedAnswer, Answers, Messages, Plans
      <3>2. SignedAnswer(FALSE, "other", Null, Null) \in Answers
        BY DEF SignedAnswer, Answers, Messages, Plans
      <3>3. QED BY <2>3, <3>1, <3>2, FreshTypes
    <2>5. Call("write", Null, answer) \in Calls
      BY <2>4 DEF Call, Calls, Steps
    <2>6. QED BY <1>17, <2>1, <2>5 DEF Validate, TypeOK
  <1>18. ASSUME NEW o \in Orders, NEW p \in Paths, WriteResult(o, p)
       PROVE  TypeOK'
    BY <1>18, ReturnType, UpdateType, BillingAssumption DEF WriteResult, Calls, TypeOK
  <1>19. ASSUME NEW o \in Orders, NEW p \in Paths, ValidateThrows(o, p)
       PROVE  TypeOK'
    <2>1. OrgOf[o] \in Orgs /\ license[OrgOf[o]] \in License(Orgs)
      BY BillingAssumption DEF TypeOK
    <2>2. MarkUnreachable(license[OrgOf[o]]) \in License(Orgs)
      BY <2>1 DEF MarkUnreachable, License, Statuses
    <2>3. license' \in [Orgs -> License(Orgs)]
      BY <1>19, <2>1, <2>2 DEF ValidateThrows, TypeOK
    <2>4. QED BY <1>19, <2>3, ReturnType DEF ValidateThrows, TypeOK
  <1>20. ASSUME NEW o \in Orders, NEW p \in Paths, MarkFails(o, p)
       PROVE  TypeOK'
    <2>1. credits' \in [Orders -> Nat] /\ term' \in [Orgs -> Nat]
      BY <1>20 DEF MarkFails, TypeOK
    <2>2. QED BY <1>20, <2>1, FailedCallType DEF MarkFails
  <1>21. ASSUME NEW o \in Orders, EnqueueRetry(o)
       PROVE  TypeOK'
    BY <1>21 DEF EnqueueRetry, Jobs, JobStates, TypeOK
  <1>22. ASSUME NEW o \in Orders, EnqueueFails(o)
       PROVE  TypeOK'
    <2>1. job' \in [Orders -> Jobs]
      BY <1>22 DEF EnqueueFails, Jobs, JobStates, TypeOK
    <2>2. QED BY <1>22, <2>1 DEF EnqueueFails, Fault, TypeOK
  <1>23. ASSUME NEW o \in Orders, StartJob(o)
       PROVE  TypeOK'
    BY <1>23, FreshTypes DEF StartJob, Call, Calls, Steps, Jobs, JobStates, Paths, TypeOK
  <1>24. ASSUME NEW o \in Orders, Age(o)
       PROVE  TypeOK'
    BY <1>24 DEF Age, TypeOK
  <1>25. ASSUME NEW o \in Orders, SweepOrder(o)
       PROVE  TypeOK'
    BY <1>25, FreshTypes DEF SweepOrder, Call, Calls, Steps, Jobs, JobStates, Paths, TypeOK
  <1>26. ASSUME NEW h \in Hooks, HookThrows(h)
       PROVE  TypeOK'
    BY <1>26, FaultType DEF HookThrows, Respond, TypeOK
  <1>27. CASE StartSweep
    BY <1>27 DEF StartSweep, Reconcilable, TypeOK
  <1>28. CASE Crash
    <2>1. run' \in [Orders \X Paths -> Calls] /\ job' \in [Orders -> Jobs]
      BY <1>28, FreshTypes, JobTypes DEF Crash, TypeOK
    <2>2. faults' \in Nat
      BY <1>28, FaultType DEF Crash
    <2>3. QED BY <1>28, <2>1, <2>2 DEF Crash, TypeOK
  <1>29. CASE UNCHANGED vars
    BY <1>29 DEF vars, TypeOK
  <1>30. QED
    BY <1>1, <1>2, <1>3, <1>4, <1>5, <1>6, <1>7, <1>8, <1>9, <1>10, <1>11, <1>12, <1>13, <1>14, <1>15, <1>16, <1>17, <1>18, <1>19, <1>20, <1>21, <1>22, <1>23, <1>24, <1>25, <1>26, <1>27, <1>28, <1>29 DEF Next, Issue

\* Type correctness: every reachable state is well typed.
THEOREM TypeCorrect == Spec => []TypeOK
  <1>1. QED BY InitType, TypeStep, PTL DEF Spec

-----------------------------------------------------------------------------
(***************************************************************************)
(* Frames: what the steps of one call, and of the queue, leave alone.      *)
(***************************************************************************)
\* A step of an issuance call leaves order status, handlers, payments and the sweep alone.
LEMMA IssueFrame ==
  ASSUME NEW o \in Orders, NEW p \in Paths, Issue(o, p)
  PROVE  UNCHANGED <<status, aged, hook, batch, paid>> /\ ~At(o, p, "idle")
  BY DEF Issue, ReadOrder, ReadOrderFails, Generate, GenerateRefused, GenerateAnswerLost,
         PersistOrder, PersistOrderFails, PersistOrg, PersistOrgFails, Validate,
         WriteResult, ValidateThrows, MarkFails, Extend, At, dbVars, envVars

\* Everything but the notifications and a crash.
Background ==
  \/ \E o \in Orders :
       \/ \E p \in Paths : Issue(o, p)
       \/ EnqueueRetry(o) \/ EnqueueFails(o) \/ StartJob(o) \/ Age(o) \/ SweepOrder(o)
  \/ StartSweep

\* Queue and sweep steps leave order status, handlers and payments alone.
LEMMA BackgroundFrame == Background => UNCHANGED <<status, hook, paid>>
  BY IssueFrame DEF Background, EnqueueRetry, EnqueueFails, StartJob, Age, SweepOrder,
     StartSweep, dbVars, envVars

-----------------------------------------------------------------------------
(***************************************************************************)
(* Money.                                                                  *)
(***************************************************************************)
\* MoneyInv holds initially.
LEMMA InitMoney == Init => MoneyInv
  <1> SUFFICES ASSUME Init PROVE MoneyInv
    OBVIOUS
  <1>1. ASSUME NEW h \in Hooks, NEW o \in Orders, NEW kind
        PROVE  ~Handling(h, kind, o)
    <2>1. hook[h] = [kind |-> "none"]
      BY DEF Init, Idle
    <2>2. [kind |-> "none"] # [kind |-> kind, order |-> o]
      OBVIOUS
    <2>3. QED BY <2>1, <2>2 DEF Handling
  <1>2. \A o \in Orders : status[o] # "settlement"
    BY DEF Init
  <1>3. QED BY <1>1, <1>2 DEF MoneyInv

\* A handler that responds holds no notification any more.
LEMMA RespondFrees ==
  ASSUME TypeOK, NEW h \in Hooks, Respond(h)
  PROVE  \A g \in Hooks, o \in Orders, kind \in Kinds :
           Handling(g, kind, o)' => Handling(g, kind, o)
  <1>1. \A o \in Orders, kind \in Kinds : Idle # [kind |-> kind, order |-> o]
    BY DEF Idle, Kinds
  <1>2. QED BY <1>1 DEF TypeOK, Respond, Handling

\* MoneyInv survives every step.
LEMMA MoneyStep == TypeOK /\ MoneyInv /\ [Next]_vars => MoneyInv'
  <1> SUFFICES ASSUME TypeOK, MoneyInv, [Next]_vars PROVE MoneyInv'
    OBVIOUS
  <1> USE DEF dbVars, envVars
  <1>1. ASSUME NEW o \in Orders, CreateOrder(o)
        PROVE  MoneyInv'
    BY <1>1 DEF CreateOrder, MoneyInv, Handling, TypeOK
  <1>2. ASSUME NEW o \in Orders, NEW amount \in {"exact", "other"}, Pay(o, amount)
        PROVE  MoneyInv'
    BY <1>2 DEF Pay, MoneyInv, Handling, TypeOK
  <1>3. ASSUME NEW o \in Orders, NEW h \in Hooks, NEW kind \in Kinds, Deliver(h, o, kind)
        PROVE  MoneyInv'
    BY <1>3 DEF Deliver, Notifiable, MoneyInv, Handling, TypeOK
  <1>4. ASSUME NEW o \in Orders, NEW h \in Hooks, ApplySettlement(h, o)
        PROVE  MoneyInv'
    <2>1. paid[o] = "exact" /\ status[o] # "absent"
      BY <1>4 DEF ApplySettlement, MoneyInv, Kinds
    <2>2. QED BY <1>4, <2>1, RespondFrees DEF ApplySettlement, MoneyInv, TypeOK, Kinds
  <1>5. ASSUME NEW o \in Orders, NEW h \in Hooks, ApplyReplay(h, o) \/ ApplyRecord(h, o)
        PROVE  MoneyInv'
    BY <1>5, RespondFrees DEF ApplyReplay, ApplyRecord, MoneyInv, Kinds
  <1>6. ASSUME NEW o \in Orders, NEW h \in Hooks, ApplyFailure(h, o)
        PROVE  MoneyInv'
    BY <1>6, RespondFrees DEF ApplyFailure, MoneyInv, TypeOK, Kinds
  <1>7. ASSUME NEW h \in Hooks, HookThrows(h)
        PROVE  MoneyInv'
    BY <1>7, RespondFrees DEF HookThrows, MoneyInv, Kinds
  <1>8. CASE Background
    BY <1>8, BackgroundFrame DEF MoneyInv, Handling
  <1>9. CASE Crash
    BY <1>9 DEF Crash, MoneyInv, Handling, Idle
  <1>10. CASE UNCHANGED vars
    BY <1>10 DEF vars, MoneyInv, Handling
  <1>11. QED
    BY <1>1, <1>2, <1>3, <1>4, <1>5, <1>6, <1>7, <1>8, <1>9, <1>10 DEF Next, Background

-----------------------------------------------------------------------------
(***************************************************************************)
(* Calls: how each form of update moves the calls, and the retry job.      *)
(***************************************************************************)
Moved(o, p, step) ==
  \A q \in Orders, r \in Paths :
    run'[<<q, r>>].at = IF q = o /\ r = p THEN step ELSE run[<<q, r>>].at

\* Goto moves one call and no other.
LEMMA GotoMoves ==
  ASSUME TypeOK, NEW o \in Orders, NEW p \in Paths, NEW step, Goto(o, p, step)
  PROVE  Moved(o, p, step)
  BY DEF TypeOK, Calls, Goto, Moved

\* Giving a call a new record moves that call and no other.
LEMMA CallMoves ==
  ASSUME TypeOK, NEW o \in Orders, NEW p \in Paths, NEW step, NEW expiry, NEW answer,
         run' = [run EXCEPT ![<<o, p>>] = Call(step, expiry, answer)]
  PROVE  Moved(o, p, step)
  BY DEF TypeOK, Call, Moved

\* A returning call goes idle, and no other call moves.
LEMMA ReturnMoves ==
  ASSUME TypeOK, NEW o \in Orders, NEW p \in Paths, ReturnOk(o, p) \/ ReturnFailed(o, p)
  PROVE  Moved(o, p, "idle")
  BY DEF TypeOK, ReturnOk, ReturnFailed, Finished, NoCall, Call, Moved

\* Where a step of a call leads, and what it does to the jobs.
LEMMA IssueMoves ==
  ASSUME TypeOK, NEW o \in Orders, NEW p \in Paths, Issue(o, p)
  PROVE  \/ ReturnOk(o, p)
         \/ ReturnFailed(o, p)
         \/ UNCHANGED job /\ \E step \in Steps : Moved(o, p, step)
  <1>1. CASE ReadOrder(o, p)
    BY <1>1, GotoMoves DEF ReadOrder, Steps
  <1>2. CASE Generate(o, p)
    BY <1>2, CallMoves DEF Generate, Steps
  <1>3. CASE PersistOrder(o, p)
    BY <1>3, GotoMoves DEF PersistOrder, Steps
  <1>4. CASE PersistOrg(o, p)
    BY <1>4, GotoMoves DEF PersistOrg, Steps
  <1>5. CASE Validate(o, p)
    BY <1>5, CallMoves DEF Validate, Steps
  <1>6. QED
    BY <1>1, <1>2, <1>3, <1>4, <1>5 DEF Issue, ReadOrderFails, GenerateRefused,
       GenerateAnswerLost, PersistOrderFails, PersistOrgFails, WriteResult,
       ValidateThrows, MarkFails

\* The webhook's call and the retry job of an order never run together.
LEMMA Exclusive ==
  ASSUME CallInv, NEW o \in Orders
  PROVE  At(o, "inline", "idle") \/ At(o, "job", "idle")
  BY DEF CallInv

\* CallInv survives a step of one call that leaves the orders' status alone,
\* if the retry job ends up where the call leaves it.
LEMMA CallMoved ==
  ASSUME CallInv, NEW o \in Orders, NEW p \in Paths, NEW step, Moved(o, p, step),
         UNCHANGED status, batch' \subseteq batch, status[o] = "settlement",
         \A q \in Orders : q # o => job'[q] = job[q],
         ~At(o, "inline", "idle")' => job'[o].state = "none",
         ~At(o, "job", "idle")' => job'[o].state = "active"
  PROVE  CallInv'
  <1>1. \A q \in Orders, r \in Paths : ~At(q, r, "idle")' => q = o \/ ~At(q, r, "idle")
    BY DEF Moved, At
  <1>2. \A q \in Orders, r \in Paths : ~At(q, r, "idle")' => status'[q] = "settlement"
    BY <1>1 DEF CallInv
  <1>3. \A q \in Orders : status'[q] # "settlement" => job'[q].state = "none"
    BY DEF CallInv
  <1>4. \A q \in Orders : ~At(q, "inline", "idle")' => job'[q].state = "none"
    BY <1>1 DEF CallInv, Paths
  <1>5. \A q \in Orders : ~At(q, "job", "idle")' => job'[q].state = "active"
    BY <1>1 DEF CallInv, Paths
  <1>6. QED BY <1>2, <1>3, <1>4, <1>5 DEF CallInv

\* CallInv holds initially.
LEMMA InitCall == Init => CallInv
  BY DEF Init, CallInv, At, NoCall, Call, NoJob, Paths

\* CallInv survives every step.
LEMMA CallStep == TypeOK /\ CallInv /\ [Next]_vars => CallInv'
  <1> SUFFICES ASSUME TypeOK, CallInv, [Next]_vars PROVE CallInv'
    OBVIOUS
  <1> USE DEF dbVars, envVars
  <1>1. ASSUME NEW o \in Orders, CreateOrder(o)
        PROVE  CallInv'
    BY <1>1 DEF CreateOrder, CallInv, At, TypeOK
  <1>2. ASSUME NEW o \in Orders, NEW h \in Hooks, ApplySettlement(h, o)
        PROVE  CallInv'
    <2>1. Moved(o, "inline", "read")
      BY <1>2, CallMoves DEF ApplySettlement, Paths
    <2>2. job[o].state = "none" /\ At(o, "job", "idle")
      BY <1>2 DEF ApplySettlement, CallInv, Paths
    <2>3. status' = [status EXCEPT ![o] = "settlement"] /\ UNCHANGED <<job, batch>>
      BY <1>2 DEF ApplySettlement
    <2>4. status'[o] = "settlement" /\ \A q \in Orders : q # o => status'[q] = status[q]
      BY <2>3 DEF TypeOK
    <2>5. \A q \in Orders, r \in Paths : ~At(q, r, "idle")' => q = o \/ ~At(q, r, "idle")
      BY <2>1 DEF Moved, At
    <2>6. At(o, "job", "idle")'
      BY <2>1, <2>2 DEF Moved, At, Paths
    <2>7. QED BY <2>2, <2>3, <2>4, <2>5, <2>6 DEF CallInv, Paths
  <1>3. ASSUME NEW o \in Orders, NEW h \in Hooks, ApplyFailure(h, o)
        PROVE  CallInv'
    BY <1>3 DEF ApplyFailure, CallInv, At, TypeOK
  <1>4. ASSUME NEW o \in Orders, NEW p \in Paths, Issue(o, p)
        PROVE  CallInv'
    <2>1. status[o] = "settlement" /\ UNCHANGED <<status, batch>> /\ ~At(o, p, "idle")
      BY <1>4, IssueFrame DEF CallInv
    <2>2. CASE ReturnOk(o, p)
      <3>1. Moved(o, p, "idle")
        BY <2>2, ReturnMoves
      <3>2. At(o, p, "idle")' /\ \A r \in Paths \ {p} : At(o, r, "idle")' <=> At(o, r, "idle")
        BY <3>1 DEF Moved, At
      <3>3. CASE p = "job"
        <4>1. job' = [job EXCEPT ![o].state = "completed"]
          BY <2>2, <3>3 DEF ReturnOk
        <4>2. At(o, "inline", "idle")'
          BY <2>1, <3>2, <3>3, Exclusive DEF Paths
        <4>3. QED BY <2>1, <3>1, <3>2, <3>3, <4>1, <4>2, CallMoved DEF TypeOK
      <3>4. CASE p # "job"
        <4>1. job' = job
          BY <2>2, <3>4 DEF ReturnOk
        <4>2. ~At(o, "inline", "idle")' => ~At(o, "inline", "idle")
          BY <3>2 DEF Paths
        <4>3. ~At(o, "job", "idle")' => ~At(o, "job", "idle")
          BY <3>2 DEF Paths
        <4>4. QED BY <2>1, <3>1, <4>1, <4>2, <4>3, CallMoved DEF CallInv
      <3>5. QED BY <3>3, <3>4
    <2>3. CASE ReturnFailed(o, p)
      <3>1. Moved(o, p, "idle")
        BY <2>3, ReturnMoves
      <3>2. At(o, p, "idle")' /\ \A r \in Paths \ {p} : At(o, r, "idle")' <=> At(o, r, "idle")
        BY <3>1 DEF Moved, At
      <3>3. CASE p \in {"inline", "job"}
        <4>1. \A q \in Orders : q # o => job'[q] = job[q]
          BY <2>3, <3>3 DEF ReturnFailed, TypeOK
        <4>2. At(o, "inline", "idle")' /\ At(o, "job", "idle")'
          BY <2>1, <3>2, <3>3, Exclusive DEF Paths
        <4>3. QED BY <2>1, <3>1, <4>1, <4>2, CallMoved
      <3>4. CASE p = "sweep"
        <4>1. job' = job
          BY <2>3, <3>4 DEF ReturnFailed
        <4>2. (~At(o, "inline", "idle")' => ~At(o, "inline", "idle"))
              /\ (~At(o, "job", "idle")' => ~At(o, "job", "idle"))
          BY <3>2, <3>4 DEF Paths
        <4>3. QED BY <2>1, <3>1, <4>1, <4>2, CallMoved DEF CallInv
      <3>5. QED BY <3>3, <3>4 DEF Paths
    <2>4. CASE UNCHANGED job /\ \E step \in Steps : Moved(o, p, step)
      <3>1. PICK step \in Steps : Moved(o, p, step)
        BY <2>4
      <3>2. (~At(o, "inline", "idle")' => ~At(o, "inline", "idle"))
            /\ (~At(o, "job", "idle")' => ~At(o, "job", "idle"))
        BY <2>1, <3>1 DEF Moved, At, Paths
      <3>3. QED BY <2>1, <2>4, <3>1, <3>2, CallMoved DEF CallInv
    <2>5. QED BY <1>4, <2>2, <2>3, <2>4, IssueMoves
  <1>5. ASSUME NEW o \in Orders, EnqueueRetry(o) \/ EnqueueFails(o)
        PROVE  CallInv'
    <2>1. \/ job' = [job EXCEPT ![o].state = "waiting"]
          \/ job' = [job EXCEPT ![o].state = "none"]
      BY <1>5 DEF EnqueueRetry, EnqueueFails
    <2>2. job[o].state = "parked" /\ UNCHANGED <<status, run, batch>>
      BY <1>5 DEF EnqueueRetry, EnqueueFails
    <2>3. status[o] = "settlement" /\ At(o, "inline", "idle") /\ At(o, "job", "idle")
      BY <2>2 DEF CallInv
    <2>4. \A q \in Orders : q # o => job'[q] = job[q]
      BY <2>1 DEF TypeOK
    <2>5. QED BY <2>2, <2>3, <2>4 DEF CallInv, At
  <1>6. ASSUME NEW o \in Orders, StartJob(o)
        PROVE  CallInv'
    <2>1. Moved(o, "job", "read")
      BY <1>6, CallMoves DEF StartJob, Paths
    <2>2. job' = [job EXCEPT ![o].state = "active"] /\ UNCHANGED <<status, batch>>
      BY <1>6 DEF StartJob
    <2>3. status[o] = "settlement" /\ At(o, "inline", "idle")
      BY <1>6 DEF StartJob, CallInv
    <2>4. At(o, "inline", "idle")' /\ job'[o].state = "active"
      BY <2>1, <2>2, <2>3 DEF Moved, At, Paths, TypeOK, Jobs
    <2>5. QED BY <2>1, <2>2, <2>3, <2>4, CallMoved DEF TypeOK, Paths
  <1>7. ASSUME NEW o \in Orders, SweepOrder(o)
        PROVE  CallInv'
    <2>1. Moved(o, "sweep", "read")
      BY <1>7, CallMoves DEF SweepOrder, Paths
    <2>2. status[o] = "settlement" /\ batch' \subseteq batch /\ UNCHANGED <<status, job>>
      BY <1>7 DEF SweepOrder, CallInv
    <2>3. (~At(o, "inline", "idle")' => ~At(o, "inline", "idle"))
          /\ (~At(o, "job", "idle")' => ~At(o, "job", "idle"))
      BY <2>1 DEF Moved, At, Paths
    <2>4. QED BY <2>1, <2>2, <2>3, CallMoved DEF CallInv, Paths
  <1>8. CASE StartSweep
    BY <1>8 DEF StartSweep, Reconcilable, CallInv, At
  <1>9. CASE Crash
    <2>1. \A o \in Orders : job[o].state = "none" => job'[o].state = "none"
      BY <1>9 DEF Crash, Stalled, TypeOK
    <2>2. \A o \in Orders, p \in Paths : At(o, p, "idle")'
      BY <1>9 DEF Crash, NoCall, Call, At
    <2>3. QED BY <1>9, <2>1, <2>2 DEF Crash, CallInv, Paths
  <1>10. CASE UNCHANGED <<status, run, job, batch>>
    BY <1>10 DEF CallInv, At
  <1>11. QED
    <2>1. ASSUME NEW o \in Orders, NEW h \in Hooks,
                 \/ \E kind \in Kinds : Deliver(h, o, kind)
                 \/ ApplyReplay(h, o)
                 \/ ApplyRecord(h, o)
          PROVE  UNCHANGED <<status, run, job, batch>>
      BY <2>1 DEF Deliver, ApplyReplay, ApplyRecord
    <2>2. ASSUME NEW o \in Orders,
                 Age(o) \/ \E amount \in {"exact", "other"} : Pay(o, amount)
          PROVE  UNCHANGED <<status, run, job, batch>>
      BY <2>2 DEF Pay, Age
    <2>3. ASSUME NEW h \in Hooks, HookThrows(h)
          PROVE  UNCHANGED <<status, run, job, batch>>
      BY <2>3 DEF HookThrows
    <2>4. CASE UNCHANGED vars
      BY <1>10, <2>4 DEF vars
    <2>5. QED
      BY <1>1, <1>2, <1>3, <1>4, <1>5, <1>6, <1>7, <1>8, <1>9, <1>10,
         <2>1, <2>2, <2>3, <2>4 DEF Next

-----------------------------------------------------------------------------
(***************************************************************************)
(* Keys.                                                                   *)
(***************************************************************************)
\* A call that has a key to hand on got it from its own PersistOrder.
LEMMA IssueRun ==
  ASSUME TypeOK, NEW o \in Orders, NEW p \in Paths, Issue(o, p)
  PROVE  \E step \in Steps :
           /\ Moved(o, p, step)
           /\ step \in Keyed => run[<<o, p>>].at \in Keyed \/ PersistOrder(o, p)
  <1> DEFINE Goal(step) ==
        /\ Moved(o, p, step)
        /\ step \in Keyed => run[<<o, p>>].at \in Keyed \/ PersistOrder(o, p)
  <1> SUFFICES \E step \in Steps : Goal(step)
    OBVIOUS
  <1>1. ASSUME ReturnOk(o, p) \/ ReturnFailed(o, p)
        PROVE  Goal("idle")
    BY <1>1, ReturnMoves DEF Keyed
  <1>2. CASE ReadOrder(o, p)
    <2>1. CASE Goto(o, p, "generate")
      <3>1. Goal("generate")
        BY <2>1, GotoMoves DEF Keyed
      <3>2. QED BY <3>1 DEF Steps
    <2>2. QED BY <1>1, <1>2, <2>1 DEF ReadOrder, Steps
  <1>3. CASE Generate(o, p)
    <2>1. Goal("persist_order")
      BY <1>3, CallMoves DEF Generate, Keyed
    <2>2. QED BY <2>1 DEF Steps
  <1>4. CASE PersistOrder(o, p)
    <2>1. Goal("persist_org")
      BY <1>4, GotoMoves DEF PersistOrder
    <2>2. QED BY <2>1 DEF Steps
  <1>5. CASE PersistOrg(o, p)
    <2>1. Goal("validate")
      BY <1>5, GotoMoves DEF PersistOrg, At, Keyed
    <2>2. QED BY <2>1 DEF Steps
  <1>6. CASE Validate(o, p)
    <2>1. Goal("write")
      BY <1>6, CallMoves DEF Validate, At, Keyed
    <2>2. QED BY <2>1 DEF Steps
  <1>7. "idle" \in Steps
    BY DEF Steps
  <1> HIDE DEF Goal
  <1>8. QED
    BY <1>1, <1>2, <1>3, <1>4, <1>5, <1>6, <1>7 DEF Issue, ReadOrderFails, GenerateRefused,
       GenerateAnswerLost, PersistOrderFails, PersistOrgFails, WriteResult,
       ValidateThrows, MarkFails

\* Only PersistOrder stores a key, and only the validator grants a credit.
LEMMA IssueStores ==
  ASSUME NEW o \in Orders, NEW p \in Paths, Issue(o, p)
  PROVE  /\ \/ issuedKey' = issuedKey
            \/ PersistOrder(o, p) /\ issuedKey' = [issuedKey EXCEPT ![o] = OrgOf[o]]
         /\ credits' = credits \/ credits' = [credits EXCEPT ![o] = @ + 1]
  BY DEF Issue, ReadOrder, ReadOrderFails, Generate, GenerateRefused, GenerateAnswerLost,
         PersistOrder, PersistOrderFails, PersistOrg, PersistOrgFails, Validate,
         WriteResult, ValidateThrows, MarkFails, Extend, dbVars, envVars

\* Only a call that has stored the key hands it to the organisation.
LEMMA IssueLicense ==
  ASSUME TypeOK, NEW o \in Orders, NEW p \in Paths, Issue(o, p), NEW g \in Orgs
  PROVE  \/ license'[g].key = license[g].key
         \/ g = OrgOf[o] /\ license'[g].key = g /\ run[<<o, p>>].at \in Keyed
  <1>1. license[g] \in License(Orgs)
    BY DEF TypeOK
  <1>2. CASE PersistOrg(o, p)
    <2>1. run[<<o, p>>].at \in Keyed
      BY <1>2 DEF PersistOrg, At, Keyed
    <2>2. Provisional(license[g], g, run[<<o, p>>].expiry).key = g
      BY <1>1 DEF Provisional, License
    <2>3. \/ license'[g] = license[g]
          \/ g = OrgOf[o] /\ license'[g] = Provisional(license[g], g, run[<<o, p>>].expiry)
      BY <1>2 DEF PersistOrg, TypeOK
    <2>4. QED BY <2>1, <2>2, <2>3
  <1>3. CASE WriteResult(o, p)
    <2>1. run[<<o, p>>].answer \in Answers
      BY DEF TypeOK, Calls
    <2>2. UpdateFromResult(license[g], run[<<o, p>>].answer, 0).key = license[g].key
      BY <1>1, <2>1, UpdateType
    <2>3. QED BY <1>3, <2>2 DEF WriteResult, TypeOK
  <1>4. CASE ValidateThrows(o, p)
    <2>1. MarkUnreachable(license[g]).key = license[g].key
      BY <1>1 DEF MarkUnreachable, License
    <2>2. QED BY <1>4, <2>1 DEF ValidateThrows, TypeOK
  <1>5. CASE UNCHANGED license
    BY <1>5
  <1>6. QED
    BY <1>2, <1>3, <1>4, <1>5 DEF Issue, ReadOrder, ReadOrderFails, Generate, GenerateRefused,
       GenerateAnswerLost, PersistOrder, PersistOrderFails, PersistOrgFails, Validate,
       MarkFails, dbVars

\* KeyInv holds initially.
LEMMA InitKey == Init => KeyInv
  <1> SUFFICES ASSUME Init PROVE KeyInv
    OBVIOUS
  <1>1. \A o \in Orders, p \in Paths : run[<<o, p>>].at = "idle"
    BY DEF Init, NoCall, Call
  <1>2. OrderKeys /\ CallKeys
    BY <1>1 DEF Init, OrderKeys, CallKeys, Keyed
  <1>3. OrgKeys /\ CreditedSettled
    BY DEF Init, OrgKeys, CreditedSettled, Unpaid
  <1>4. QED BY <1>2, <1>3 DEF KeyInv

\* KeyInv survives a step that moves no key and no credit.
LEMMA KeyKept ==
  ASSUME KeyInv, UNCHANGED <<issuedKey, license, credits>>,
         \A o \in Orders : status[o] = "settlement" => status'[o] = "settlement",
         \A o \in Orders : \A p \in Paths :
           run'[<<o, p>>].at \in Keyed => run[<<o, p>>].at \in Keyed
  PROVE  KeyInv'
  <1>1. OrderKeys'
    BY DEF KeyInv, OrderKeys
  <1>2. CallKeys'
    BY DEF KeyInv, CallKeys
  <1>3. OrgKeys'
    BY DEF KeyInv, OrgKeys
  <1>4. CreditedSettled'
    BY DEF KeyInv, CreditedSettled
  <1>5. QED BY <1>1, <1>2, <1>3, <1>4 DEF KeyInv

\* KeyInv survives every step.
LEMMA KeyStep == TypeOK /\ CallInv /\ KeyInv /\ [Next]_vars => KeyInv'
  <1> SUFFICES ASSUME TypeOK, CallInv, KeyInv, [Next]_vars PROVE KeyInv'
    OBVIOUS
  <1> USE DEF dbVars, envVars
  <1>1. ASSUME NEW o \in Orders, NEW p \in Paths, Issue(o, p)
        PROVE  KeyInv'
    <2>1. UNCHANGED status /\ status[o] = "settlement" /\ OrgOf[o] \in Orgs /\ OrgOf[o] # Null
      BY <1>1, IssueFrame, BillingAssumption DEF CallInv
    <2>2. \A q \in Orders : \/ issuedKey'[q] = issuedKey[q]
                            \/ q = o /\ issuedKey'[q] = OrgOf[o]
      BY <1>1, IssueStores DEF TypeOK
    <2>3. \A q \in Orders : issuedKey[q] # Null => issuedKey'[q] # Null
      BY <2>1, <2>2
    <2>4. OrderKeys'
      BY <2>1, <2>2 DEF KeyInv, OrderKeys
    <2>5. CallKeys'
      <3>1. PICK step \in Steps :
              /\ Moved(o, p, step)
              /\ step \in Keyed => run[<<o, p>>].at \in Keyed \/ PersistOrder(o, p)
        BY <1>1, IssueRun
      <3>2. PersistOrder(o, p) => issuedKey'[o] # Null
        BY <2>1 DEF PersistOrder, TypeOK
      <3>3. QED BY <2>3, <3>1, <3>2 DEF Moved, KeyInv, CallKeys
    <2>6. OrgKeys'
      <3>1. SUFFICES ASSUME NEW g \in Orgs, license'[g].key # Null
                     PROVE  /\ license'[g].key = g
                            /\ \E q \in Orders : OrgOf[q] = g /\ issuedKey'[q] # Null
        BY DEF OrgKeys
      <3>2. CASE license'[g].key = license[g].key
        BY <2>3, <3>1, <3>2 DEF KeyInv, OrgKeys
      <3>3. CASE g = OrgOf[o] /\ license'[g].key = g /\ run[<<o, p>>].at \in Keyed
        BY <2>3, <3>3 DEF KeyInv, CallKeys
      <3>4. QED BY <1>1, <3>2, <3>3, IssueLicense
    <2>7. CreditedSettled'
      <3>1. \A q \in Orders : q # o => credits'[q] = credits[q]
        <4>1. credits \in [Orders -> Nat]
          BY DEF TypeOK
        <4>2. QED BY <1>1, <4>1, IssueStores
      <3>2. QED BY <2>1, <3>1 DEF KeyInv, CreditedSettled
    <2>8. QED BY <2>4, <2>5, <2>6, <2>7 DEF KeyInv
  <1>2. ASSUME NEW o \in Orders, NEW p \in Paths,
               run' = [run EXCEPT ![<<o, p>>] = Call("read", Null, UnsignedAnswer)],
               UNCHANGED <<issuedKey, license, credits>>,
               \A q \in Orders : status[q] = "settlement" => status'[q] = "settlement"
        PROVE  KeyInv'
    <2>1. Moved(o, p, "read") /\ "read" \notin Keyed
      BY <1>2, CallMoves DEF Keyed
    <2>2. \A q \in Orders, r \in Paths :
            run'[<<q, r>>].at \in Keyed => run[<<q, r>>].at \in Keyed
      BY <2>1 DEF Moved
    <2>3. QED BY <1>2, <2>2, KeyKept
  <1>3. ASSUME UNCHANGED <<issuedKey, license, credits, run>>,
               \A q \in Orders : status[q] = "settlement" => status'[q] = "settlement"
        PROVE  KeyInv'
    BY <1>3, KeyKept
  <1>4. CASE Crash
    <2>1. \A o \in Orders, p \in Paths : run'[<<o, p>>].at \notin Keyed
      BY <1>4 DEF Crash, NoCall, Call, Keyed
    <2>2. QED BY <1>4, <2>1, KeyKept DEF Crash
  <1>5. ASSUME NEW o \in Orders, NEW h \in Hooks, ApplySettlement(h, o)
        PROVE  KeyInv'
    BY <1>2, <1>5 DEF ApplySettlement, Paths, TypeOK
  <1>6. ASSUME NEW o \in Orders, StartJob(o) \/ SweepOrder(o)
        PROVE  KeyInv'
    BY <1>2, <1>6 DEF StartJob, SweepOrder, Paths
  <1>7. ASSUME NEW o \in Orders,
               \/ CreateOrder(o) \/ EnqueueRetry(o) \/ EnqueueFails(o) \/ Age(o)
               \/ \E amount \in {"exact", "other"} : Pay(o, amount)
        PROVE  KeyInv'
    BY <1>3, <1>7 DEF CreateOrder, EnqueueRetry, EnqueueFails, Age, Pay, TypeOK
  <1>8. ASSUME NEW h \in Hooks, NEW o \in Orders,
               \/ \E kind \in Kinds : Deliver(h, o, kind)
               \/ ApplyReplay(h, o) \/ ApplyFailure(h, o) \/ ApplyRecord(h, o)
        PROVE  KeyInv'
    BY <1>3, <1>8 DEF Deliver, ApplyReplay, ApplyFailure, ApplyRecord, TypeOK
  <1>9. ASSUME NEW h \in Hooks, HookThrows(h)
        PROVE  KeyInv'
    BY <1>3, <1>9 DEF HookThrows
  <1>10. CASE StartSweep \/ UNCHANGED vars
    BY <1>3, <1>10 DEF StartSweep, vars
  <1>11. QED
    BY <1>1, <1>4, <1>5, <1>6, <1>7, <1>8, <1>9, <1>10 DEF Next

-----------------------------------------------------------------------------
(***************************************************************************)
(* Credits.                                                                *)
(***************************************************************************)
\* An order with no call at a step counts none there.
LEMMA AtStepIdle ==
  ASSUME NEW o \in Orders, \A p \in Paths : At(o, p, "idle")
  PROVE  AtStep(o, "generate") = 0 /\ AtStep(o, "persist_order") = 0
  <1>1. \A p \in Paths : ~At(o, p, "generate") /\ ~At(o, p, "persist_order")
    BY DEF At
  <1>2. QED BY <1>1 DEF AtStep, Paths

\* At most two calls of an order count at one step.
LEMMA AtStepRange ==
  ASSUME NEW o \in Orders, NEW step
  PROVE  AtStep(o, step) \in 0 .. 2 /\ AtStep(o, step)' \in 0 .. 2
  BY DEF AtStep

\* How a call that is under way changes the counts of its order.
LEMMA AtStepMoves ==
  ASSUME TypeOK, CallInv, NEW o \in Orders, NEW p \in Paths, NEW next, Moved(o, p, next),
         ~At(o, p, "idle"), NEW step, step # "idle"
  PROVE  AtStep(o, step)' = AtStep(o, step) - (IF At(o, p, step) THEN 1 ELSE 0)
                                            + (IF next = step THEN 1 ELSE 0)
  <1>1. At(o, p, step)' <=> next = step
    BY DEF Moved, At
  <1>2. \A r \in Paths : r # p => (At(o, r, step)' <=> At(o, r, step))
    BY DEF Moved, At
  <1>3. CASE p = "inline"
    <2>1. ~At(o, "job", step) /\ ~At(o, "job", step)'
      BY <1>2, <1>3, Exclusive DEF At, Paths
    <2>2. At(o, "sweep", step)' <=> At(o, "sweep", step)
      BY <1>2, <1>3 DEF Paths
    <2>3. QED BY <1>1, <1>3, <2>1, <2>2 DEF AtStep
  <1>4. CASE p = "job"
    <2>1. ~At(o, "inline", step) /\ ~At(o, "inline", step)'
      BY <1>2, <1>4, Exclusive DEF At, Paths
    <2>2. At(o, "sweep", step)' <=> At(o, "sweep", step)
      BY <1>2, <1>4 DEF Paths
    <2>3. QED BY <1>1, <1>4, <2>1, <2>2 DEF AtStep
  <1>5. CASE p = "sweep"
    <2>1. (At(o, "inline", step)' <=> At(o, "inline", step))
          /\ (At(o, "job", step)' <=> At(o, "job", step))
      BY <1>2, <1>5 DEF Paths
    <2>2. QED BY <1>1, <1>5, <2>1 DEF AtStep
  <1>6. QED BY <1>3, <1>4, <1>5 DEF Paths

\* A step of one order changes no count of another.
LEMMA AtStepElsewhere ==
  ASSUME NEW o \in Orders, NEW p \in Paths, NEW next, Moved(o, p, next),
         NEW q \in Orders, NEW step,
         \/ q # o
         \/ At(o, p, "idle") /\ step # "idle" /\ next # step
  PROVE  AtStep(q, step)' = AtStep(q, step)
  <1>1. \A r \in Paths : At(q, r, step)' <=> At(q, r, step)
    BY DEF Moved, At
  <1>2. QED BY <1>1 DEF AtStep, Paths

\* A call that has just read the order has at most one rival for the validator.
LEMMA OneRival ==
  ASSUME CallInv, NEW o \in Orders, NEW p \in Paths, At(o, p, "read")
  PROVE  AtStep(o, "generate") + AtStep(o, "persist_order") <= 1
  <1>1. ~At(o, p, "idle") /\ ~At(o, p, "generate") /\ ~At(o, p, "persist_order")
    BY DEF At
  <1>2. ~At(o, "sweep", "generate") \/ ~At(o, "sweep", "persist_order")
    BY DEF At
  <1>3. \/ ~At(o, "inline", "generate") /\ ~At(o, "job", "generate")
        \/ ~At(o, "inline", "persist_order") /\ ~At(o, "job", "persist_order")
    BY Exclusive DEF At
  <1>4. CASE p = "sweep"
    <2>1. ~At(o, "sweep", "generate") /\ ~At(o, "sweep", "persist_order")
      BY <1>1, <1>4
    <2>2. QED BY <1>3, <2>1 DEF AtStep
  <1>5. CASE p \in {"inline", "job"}
    <2>1. /\ ~At(o, "inline", "generate") /\ ~At(o, "job", "generate")
          /\ ~At(o, "inline", "persist_order") /\ ~At(o, "job", "persist_order")
      BY <1>1, <1>5, Exclusive DEF At
    <2>2. QED BY <1>2, <2>1 DEF AtStep
  <1>6. QED BY <1>4, <1>5 DEF Paths

OrderCredit(o) ==
  /\ issuedKey[o] = Null => credits[o] <= 2 * faults + AtStep(o, "persist_order")
  /\ credits[o] + AtStep(o, "generate") <= 2 * faults + 2

\* CreditInv holds initially.
LEMMA InitCredit == Init => CreditInv
  <1> SUFFICES ASSUME Init, NEW o \in Orders PROVE OrderCredit(o)
    BY DEF CreditInv, OrderCredit
  <1>1. credits[o] = 0 /\ faults = 0
    BY DEF Init
  <1>2. \A p \in Paths : At(o, p, "idle")
    BY DEF Init, At, NoCall, Call
  <1>3. AtStep(o, "generate") = 0 /\ AtStep(o, "persist_order") = 0
    BY <1>2, AtStepIdle
  <1>4. QED BY <1>1, <1>3, AtStepRange DEF OrderCredit

\* What a step of a call does to the credits, the key and the faults.
LEMMA IssueCredit ==
  ASSUME TypeOK, NEW o \in Orders, NEW p \in Paths, Issue(o, p)
  PROVE  \/ /\ At(o, p, "read") /\ issuedKey[o] = Null /\ Moved(o, p, "generate")
            /\ UNCHANGED <<credits, issuedKey, faults>>
         \/ /\ At(o, p, "generate") /\ Moved(o, p, "persist_order")
            /\ credits' = [credits EXCEPT ![o] = @ + 1]
            /\ UNCHANGED <<issuedKey, faults>>
         \/ /\ At(o, p, "persist_order") /\ Moved(o, p, "persist_org")
            /\ issuedKey' = [issuedKey EXCEPT ![o] = OrgOf[o]]
            /\ UNCHANGED <<credits, faults>>
         \/ /\ At(o, p, "generate") /\ Moved(o, p, "idle")
            /\ credits' = [credits EXCEPT ![o] = @ + 1]
            /\ faults' = faults + 1 /\ UNCHANGED issuedKey
         \/ /\ Moved(o, p, "idle")
            /\ faults' = faults + 1 /\ UNCHANGED <<credits, issuedKey>>
         \/ /\ ~At(o, p, "generate") /\ ~At(o, p, "persist_order")
            /\ \E step \in {"validate", "write", "idle"} : Moved(o, p, step)
            /\ UNCHANGED <<credits, issuedKey, faults>>
  <1> USE DEF dbVars, envVars
  <1>1. CASE ReadOrder(o, p)
    BY <1>1, GotoMoves, ReturnMoves DEF ReadOrder, At
  <1>2. CASE Generate(o, p)
    BY <1>2, CallMoves DEF Generate, Extend
  <1>3. CASE GenerateAnswerLost(o, p)
    BY <1>3, ReturnMoves, FaultType DEF GenerateAnswerLost, Extend
  <1>4. CASE PersistOrder(o, p)
    BY <1>4, GotoMoves DEF PersistOrder
  <1>5. CASE PersistOrg(o, p)
    BY <1>5, GotoMoves DEF PersistOrg, At
  <1>6. CASE Validate(o, p)
    BY <1>6, CallMoves DEF Validate, At
  <1>7. CASE WriteResult(o, p) \/ ValidateThrows(o, p)
    BY <1>7, ReturnMoves DEF WriteResult, ValidateThrows, At
  <1>8. CASE \/ ReadOrderFails(o, p) \/ GenerateRefused(o, p) \/ PersistOrderFails(o, p)
             \/ PersistOrgFails(o, p) \/ MarkFails(o, p)
    <2>1. Moved(o, p, "idle") /\ faults' = faults + 1
      BY <1>8, ReturnMoves, FaultType DEF ReadOrderFails, GenerateRefused,
         PersistOrderFails, PersistOrgFails, MarkFails
    <2>2. UNCHANGED <<credits, issuedKey>>
      BY <1>8 DEF ReadOrderFails, GenerateRefused, PersistOrderFails, PersistOrgFails, MarkFails
    <2>3. QED BY <2>1, <2>2
  <1>9. QED
    BY <1>1, <1>2, <1>3, <1>4, <1>5, <1>6, <1>7, <1>8 DEF Issue

\* A step that moves no call, no key and no credit keeps the bound.
LEMMA CreditKept ==
  ASSUME TypeOK, NEW o \in Orders, OrderCredit(o), faults' \in Nat, faults' >= faults,
         credits'[o] = credits[o], issuedKey'[o] = issuedKey[o],
         AtStep(o, "generate")' = AtStep(o, "generate"),
         AtStep(o, "persist_order")' = AtStep(o, "persist_order")
  PROVE  OrderCredit(o)'
  <1>1. credits[o] \in Nat /\ faults \in Nat
    BY DEF TypeOK
  <1>2. QED BY <1>1, AtStepRange DEF OrderCredit

\* CreditInv survives a step of an issuance call.
LEMMA CreditIssue ==
  ASSUME TypeOK, CallInv, NEW o \in Orders, NEW p \in Paths, Issue(o, p), OrderCredit(o)
  PROVE  OrderCredit(o)'
  <1> DEFINE g == AtStep(o, "generate")
             w == AtStep(o, "persist_order")
  <1>1. credits[o] \in Nat /\ faults \in Nat /\ g \in 0 .. 2 /\ w \in 0 .. 2
    BY AtStepRange DEF TypeOK
  <1>2. ~At(o, p, "idle")
    BY IssueFrame
  <1>3. ASSUME NEW next, Moved(o, p, next)
        PROVE  /\ g' = g - (IF At(o, p, "generate") THEN 1 ELSE 0)
                         + (IF next = "generate" THEN 1 ELSE 0)
               /\ w' = w - (IF At(o, p, "persist_order") THEN 1 ELSE 0)
                         + (IF next = "persist_order" THEN 1 ELSE 0)
    BY <1>2, <1>3, AtStepMoves
  <1> HIDE DEF g, w
  <1>4. CASE /\ At(o, p, "read") /\ issuedKey[o] = Null /\ Moved(o, p, "generate")
             /\ UNCHANGED <<credits, issuedKey, faults>>
    <2>1. g + w <= 1
      BY <1>4, OneRival DEF g, w
    <2>2. ~At(o, p, "generate") /\ ~At(o, p, "persist_order")
      BY <1>4 DEF At
    <2>3. g' = g + 1 /\ w' = w
      BY <1>1, <1>3, <1>4, <2>2
    <2>4. credits[o] <= 2 * faults + w
      BY <1>4 DEF OrderCredit, w
    <2>5. credits[o] + g' <= 2 * faults + 2
      BY <1>1, <2>1, <2>3, <2>4
    <2>6. QED BY <1>4, <2>3, <2>4, <2>5 DEF OrderCredit, g, w
  <1>5. CASE /\ At(o, p, "generate") /\ Moved(o, p, "persist_order")
             /\ credits' = [credits EXCEPT ![o] = @ + 1]
             /\ UNCHANGED <<issuedKey, faults>>
    <2>1. ~At(o, p, "persist_order")
      BY <1>5 DEF At
    <2>2. g' = g - 1 /\ w' = w + 1
      BY <1>1, <1>3, <1>5, <2>1
    <2>3. credits'[o] = credits[o] + 1
      BY <1>5 DEF TypeOK
    <2>4. QED BY <1>1, <1>5, <2>2, <2>3 DEF OrderCredit, g, w
  <1>6. CASE /\ At(o, p, "persist_order") /\ Moved(o, p, "persist_org")
             /\ issuedKey' = [issuedKey EXCEPT ![o] = OrgOf[o]]
             /\ UNCHANGED <<credits, faults>>
    <2>1. ~At(o, p, "generate")
      BY <1>6 DEF At
    <2>2. g' = g
      BY <1>1, <1>3, <1>6, <2>1
    <2>3. issuedKey'[o] # Null
      <3>1. OrgOf[o] # Null
        BY BillingAssumption
      <3>2. QED BY <1>6, <3>1 DEF TypeOK
    <2>4. QED BY <1>6, <2>2, <2>3 DEF OrderCredit, g, w
  <1>7. CASE /\ At(o, p, "generate") /\ Moved(o, p, "idle")
             /\ credits' = [credits EXCEPT ![o] = @ + 1]
             /\ faults' = faults + 1 /\ UNCHANGED issuedKey
    <2>1. ~At(o, p, "persist_order")
      BY <1>7 DEF At
    <2>2. g' = g - 1 /\ w' = w
      BY <1>1, <1>3, <1>7, <2>1
    <2>3. credits'[o] = credits[o] + 1
      BY <1>7 DEF TypeOK
    <2>4. QED BY <1>1, <1>7, <2>2, <2>3 DEF OrderCredit, g, w
  <1>8. CASE /\ Moved(o, p, "idle")
             /\ faults' = faults + 1 /\ UNCHANGED <<credits, issuedKey>>
    <2>1. g' <= g /\ w' >= w - 1
      BY <1>1, <1>3, <1>8
    <2>2. g' \in 0 .. 2 /\ w' \in 0 .. 2
      BY <1>1, <1>3, <1>8, AtStepRange DEF g, w
    <2>3. QED BY <1>1, <1>8, <2>1, <2>2 DEF OrderCredit, g, w
  <1>9. CASE /\ ~At(o, p, "generate") /\ ~At(o, p, "persist_order")
             /\ \E step \in {"validate", "write", "idle"} : Moved(o, p, step)
             /\ UNCHANGED <<credits, issuedKey, faults>>
    <2>1. g' = g /\ w' = w
      BY <1>1, <1>3, <1>9
    <2>2. QED BY <1>9, <2>1 DEF OrderCredit, g, w
  <1>10. QED BY <1>4, <1>5, <1>6, <1>7, <1>8, <1>9, IssueCredit

\* CreditInv survives every step.
LEMMA CreditStep == TypeOK /\ CallInv /\ CreditInv /\ [Next]_vars => CreditInv'
  <1> SUFFICES ASSUME TypeOK, CallInv, CreditInv, [Next]_vars, NEW q \in Orders
               PROVE  OrderCredit(q)'
    BY DEF CreditInv, OrderCredit
  <1> USE DEF dbVars, envVars
  <1>1. OrderCredit(q) /\ faults \in Nat
    BY DEF CreditInv, OrderCredit, TypeOK
  <1>2. ASSUME NEW o \in Orders, NEW p \in Paths, Issue(o, p)
        PROVE  OrderCredit(q)'
    <2>1. CASE q = o
      BY <1>1, <1>2, <2>1, CreditIssue
    <2>2. CASE q # o
      <3>1. credits'[q] = credits[q] /\ issuedKey'[q] = issuedKey[q]
        BY <1>2, <2>2, IssueStores DEF TypeOK
      <3>2. faults' \in Nat /\ faults' >= faults
        BY <1>1, <1>2, IssueCredit
      <3>3. \E step \in Steps : Moved(o, p, step)
        BY <1>2, IssueRun
      <3>4. /\ AtStep(q, "generate")' = AtStep(q, "generate")
            /\ AtStep(q, "persist_order")' = AtStep(q, "persist_order")
        <4>1. PICK step \in Steps : Moved(o, p, step)
          BY <3>3
        <4>2. QED BY <2>2, <4>1, AtStepElsewhere
      <3>5. QED BY <1>1, <3>1, <3>2, <3>4, CreditKept
    <2>3. QED BY <2>1, <2>2
  <1>3. ASSUME NEW o \in Orders, NEW p \in Paths, At(o, p, "idle"),
               run' = [run EXCEPT ![<<o, p>>] = Call("read", Null, UnsignedAnswer)],
               UNCHANGED <<credits, issuedKey, faults>>
        PROVE  OrderCredit(q)'
    <2>1. Moved(o, p, "read")
      BY <1>3, CallMoves
    <2>2. /\ AtStep(q, "generate")' = AtStep(q, "generate")
          /\ AtStep(q, "persist_order")' = AtStep(q, "persist_order")
      BY <1>3, <2>1, AtStepElsewhere
    <2>3. QED BY <1>1, <1>3, <2>2, CreditKept
  <1>4. ASSUME NEW o \in Orders, NEW h \in Hooks, ApplySettlement(h, o)
        PROVE  OrderCredit(q)'
    <2>1. At(o, "inline", "idle")
      BY <1>4 DEF ApplySettlement, CallInv, Paths
    <2>2. QED BY <1>3, <1>4, <2>1 DEF ApplySettlement, Paths
  <1>5. ASSUME NEW o \in Orders, StartJob(o)
        PROVE  OrderCredit(q)'
    <2>1. At(o, "job", "idle")
      BY <1>5 DEF StartJob, CallInv
    <2>2. QED BY <1>3, <1>5, <2>1 DEF StartJob, Paths
  <1>6. ASSUME NEW o \in Orders, SweepOrder(o)
        PROVE  OrderCredit(q)'
    BY <1>3, <1>6 DEF SweepOrder, Paths
  <1>7. CASE Crash
    <2>1. \A p \in Paths : At(q, p, "idle")'
      BY <1>7 DEF Crash, At, NoCall, Call
    <2>2. AtStep(q, "generate")' = 0 /\ AtStep(q, "persist_order")' = 0
      <3>1. \A p \in Paths : ~At(q, p, "generate")' /\ ~At(q, p, "persist_order")'
        BY <2>1 DEF At
      <3>2. QED BY <3>1 DEF AtStep, Paths
    <2>3. faults' = faults + 1 /\ UNCHANGED <<credits, issuedKey>>
      BY <1>7, FaultType DEF Crash
    <2>4. credits[q] \in Nat
      BY DEF TypeOK
    <2>5. QED BY <1>1, <2>2, <2>3, <2>4, AtStepRange DEF OrderCredit
  <1>8. ASSUME UNCHANGED <<credits, issuedKey, run>>, faults' = faults \/ faults' = faults + 1
        PROVE  OrderCredit(q)'
    <2>1. /\ AtStep(q, "generate")' = AtStep(q, "generate")
          /\ AtStep(q, "persist_order")' = AtStep(q, "persist_order")
      BY <1>8 DEF AtStep, At
    <2>2. faults' \in Nat /\ faults' >= faults
      BY <1>1, <1>8
    <2>3. QED BY <1>1, <1>8, <2>1, <2>2, CreditKept
  <1>9. ASSUME NEW o \in Orders,
               \/ CreateOrder(o) \/ EnqueueRetry(o) \/ EnqueueFails(o) \/ Age(o)
               \/ \E amount \in {"exact", "other"} : Pay(o, amount)
        PROVE  OrderCredit(q)'
    BY <1>8, <1>9, FaultType DEF CreateOrder, EnqueueRetry, EnqueueFails, Age, Pay
  <1>10. ASSUME NEW h \in Hooks, NEW o \in Orders,
                \/ \E kind \in Kinds : Deliver(h, o, kind)
                \/ ApplyReplay(h, o) \/ ApplyFailure(h, o) \/ ApplyRecord(h, o)
         PROVE  OrderCredit(q)'
    BY <1>8, <1>10 DEF Deliver, ApplyReplay, ApplyFailure, ApplyRecord
  <1>11. ASSUME NEW h \in Hooks, HookThrows(h)
         PROVE  OrderCredit(q)'
    BY <1>8, <1>11, FaultType DEF HookThrows
  <1>12. CASE StartSweep \/ UNCHANGED vars
    BY <1>8, <1>12 DEF StartSweep, vars
  <1>13. QED
    BY <1>2, <1>4, <1>5, <1>6, <1>7, <1>9, <1>10, <1>11, <1>12 DEF Next

-----------------------------------------------------------------------------
(***************************************************************************)
(* Refinement: every step is a step of OrderLifecycle, or a stutter of it. *)
(***************************************************************************)
Licensed == {o \in Orders : issuedKey[o] # Null}

\* The initial states are initial states of the lifecycle.
LEMMA InitLifecycle == Init => Lifecycle!Init
  BY DEF Init, Lifecycle!Init

\* Every step is a step of the lifecycle or a stutter.
LEMMA LifecycleStep ==
  TypeOK /\ MoneyInv /\ CallInv /\ [Next]_vars => [Lifecycle!Next]_(Lifecycle!vars)
  <1> SUFFICES ASSUME TypeOK, MoneyInv, CallInv, [Next]_vars
               PROVE  [Lifecycle!Next]_(Lifecycle!vars)
    OBVIOUS
  <1> USE DEF dbVars, envVars
  <1>1. ASSUME UNCHANGED <<status, issuedKey>>
        PROVE  UNCHANGED Lifecycle!vars
    BY <1>1 DEF Lifecycle!vars
  <1>2. ASSUME NEW o \in Orders, CreateOrder(o)
        PROVE  Lifecycle!Open(o)
    BY <1>2 DEF CreateOrder, Lifecycle!Open
  <1>3. ASSUME NEW o \in Orders, NEW h \in Hooks, ApplySettlement(h, o)
        PROVE  Lifecycle!Settle(o)
    <2>1. status[o] # "absent"
      BY <1>3 DEF ApplySettlement, MoneyInv, Kinds
    <2>2. status[o] \in {"pending", "failed"}
      BY <1>3, <2>1 DEF ApplySettlement, TypeOK
    <2>3. QED BY <1>3, <2>2 DEF ApplySettlement, Lifecycle!Settle
  <1>4. ASSUME NEW o \in Orders, NEW h \in Hooks, ApplyFailure(h, o)
        PROVE  Lifecycle!Fail(o) \/ UNCHANGED Lifecycle!vars
    <2>1. CASE status[o] = "settlement"
      BY <1>1, <1>4, <2>1 DEF ApplyFailure, TypeOK
    <2>2. CASE status[o] # "settlement"
      <3>1. status[o] # "absent"
        BY <1>4 DEF ApplyFailure, MoneyInv, Kinds
      <3>2. status[o] \in {"pending", "failed"}
        BY <2>2, <3>1 DEF TypeOK
      <3>3. QED BY <1>4, <2>2, <3>2 DEF ApplyFailure, Lifecycle!Fail
    <2>3. QED BY <2>1, <2>2
  <1>5. ASSUME NEW o \in Orders, NEW p \in Paths, Issue(o, p)
        PROVE  Lifecycle!Issue(o) \/ UNCHANGED Lifecycle!vars
    <2>1. status[o] = "settlement" /\ UNCHANGED status
      BY <1>5, IssueFrame DEF CallInv
    <2>2. CASE issuedKey' = issuedKey
      BY <1>1, <2>1, <2>2
    <2>3. CASE issuedKey' = [issuedKey EXCEPT ![o] = OrgOf[o]]
      <3>1. OrgOf[o] # Null
        BY BillingAssumption
      <3>2. issuedKey'[o] # Null /\ \A q \in Orders : q # o => issuedKey'[q] = issuedKey[q]
        BY <2>3, <3>1 DEF TypeOK
      <3>3. Licensed' = Licensed \cup {o}
        BY <3>2 DEF Licensed
      <3>4. CASE o \in Licensed
        <4>1. Licensed' = Licensed
          BY <3>3, <3>4
        <4>2. QED BY <2>1, <4>1 DEF Lifecycle!vars, Licensed
      <3>5. CASE o \notin Licensed
        BY <2>1, <3>3, <3>5 DEF Lifecycle!Issue, Licensed
      <3>6. QED BY <3>4, <3>5
    <2>4. QED BY <1>5, <2>2, <2>3, IssueStores
  <1>6. ASSUME NEW o \in Orders,
               \/ EnqueueRetry(o) \/ EnqueueFails(o) \/ StartJob(o) \/ Age(o) \/ SweepOrder(o)
               \/ \E amount \in {"exact", "other"} : Pay(o, amount)
        PROVE  UNCHANGED <<status, issuedKey>>
    BY <1>6 DEF EnqueueRetry, EnqueueFails, StartJob, Age, SweepOrder, Pay
  <1>7. ASSUME NEW h \in Hooks, NEW o \in Orders,
               \/ \E kind \in Kinds : Deliver(h, o, kind)
               \/ ApplyReplay(h, o)
               \/ ApplyRecord(h, o)
        PROVE  UNCHANGED <<status, issuedKey>>
    BY <1>7 DEF Deliver, ApplyReplay, ApplyRecord
  <1>8. ASSUME NEW h \in Hooks, HookThrows(h)
        PROVE  UNCHANGED <<status, issuedKey>>
    BY <1>8 DEF HookThrows
  <1>9. CASE StartSweep \/ Crash \/ UNCHANGED vars
    BY <1>1, <1>9 DEF StartSweep, Crash, vars
  <1>10. QED
    BY <1>1, <1>2, <1>3, <1>4, <1>5, <1>6, <1>7, <1>8, <1>9 DEF Next, Lifecycle!Next

-----------------------------------------------------------------------------
\* The inductive invariant holds in every reachable state.
THEOREM Inductive == Spec => []IndInv
  <1>1. Init => IndInv
    BY InitType, InitMoney, InitCall, InitKey, InitCredit DEF IndInv, SafetyInv
  <1>2. IndInv /\ [Next]_vars => IndInv'
    BY TypeStep, MoneyStep, CallStep, KeyStep, CreditStep DEF IndInv, SafetyInv
  <1>3. QED BY <1>1, <1>2, PTL DEF Spec

\* The validator grants a term only for an order whose exact amount was
\* collected and which was settled, along every issuance path.
THEOREM CreditsArePaid == Spec => []CreditOnlyForExactPayment
  <1>1. IndInv => CreditOnlyForExactPayment
    BY DEF IndInv, SafetyInv, MoneyInv, KeyInv, CreditedSettled, CreditOnlyForExactPayment
  <1>2. QED BY <1>1, Inductive, PTL

\* An organisation's licence key comes from a settled order of its own.
THEOREM OrgKeysAreOrdered == Spec => []OrgKeyHasOrder
  <1>1. IndInv => OrgKeyHasOrder
    BY DEF IndInv, SafetyInv, KeyInv, OrderKeys, OrgKeys, OrgKeyHasOrder
  <1>2. QED BY <1>1, Inductive, PTL

\* One payment extends the licence at most twice, and twice more per fault,
\* however many notifications, retries and sweeps there are.
THEOREM CreditsAreBounded == Spec => []CreditBound
  <1>1. IndInv => CreditBound
    <2> SUFFICES ASSUME IndInv, NEW o \in Orders
                 PROVE  credits[o] <= 2 * (faults + 1)
      BY DEF CreditBound
    <2>1. credits[o] \in Nat /\ faults \in Nat
      BY DEF IndInv, SafetyInv, TypeOK
    <2>2. credits[o] + AtStep(o, "generate") <= 2 * faults + 2
      BY DEF IndInv, CreditInv
    <2>3. QED BY <2>1, <2>2, AtStepRange
  <1>2. QED BY <1>1, Inductive, PTL

\* Billing implements OrderLifecycle.
THEOREM Refinement == Spec => ImplementsLifecycle
  <1>1. IndInv /\ [Next]_vars => [Lifecycle!Next]_(Lifecycle!vars)
    BY LifecycleStep DEF IndInv, SafetyInv
  <1>2. QED
    BY <1>1, InitLifecycle, Inductive, PTL DEF Spec, ImplementsLifecycle, Lifecycle!Spec
=============================================================================
