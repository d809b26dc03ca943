---------------------------- MODULE BillingProps ----------------------------
(***************************************************************************)
(* What must hold of Billing.                                              *)
(***************************************************************************)
EXTENDS Billing

Lifecycle == INSTANCE OrderLifecycle
               WITH phase <- status, licensed <- {o \in Orders : issuedKey[o] # Null}

(***************************************************************************)
(* Every order, under replayed and reordered notifications, retries,       *)
(* sweeps and crashes, follows OrderLifecycle: no late failure             *)
(* notification undoes a settlement, and a key appears on an order only    *)
(* after its settlement and is never withdrawn.                            *)
(***************************************************************************)
ImplementsLifecycle == Lifecycle!Spec

(***************************************************************************)
(* The validator is only ever asked to extend a licence for an order whose *)
(* exact amount Midtrans collected: not for a mismatched amount, not for a *)
(* failed or open order, along none of the three issuance paths.           *)
(***************************************************************************)
CreditOnlyForExactPayment ==
  \A o \in Orders : credits[o] > 0 => status[o] = "settlement" /\ paid[o] = "exact"

(***************************************************************************)
(* An organisation holds a licence key only if one of its own orders was   *)
(* settled and carries that key, whichever of the concurrent issuers wrote *)
(* the row last.                                                           *)
(***************************************************************************)
OrgKeyHasOrder ==
  \A g \in Orgs : license[g].key # Null =>
    \E o \in Orders : /\ OrgOf[o] = g
                      /\ status[o] = "settlement"
                      /\ issuedKey[o] = license[g].key

(***************************************************************************)
(* How often one payment can extend the licence.  The webhook's own call   *)
(* and the retry job never run together, so at most two calls for an order *)
(* are under way at once, and once one of them has stored the key no new   *)
(* call asks the validator: two extensions, and two more for each fault.   *)
(* Replayed notifications and repeated sweeps add nothing.  Assumed: a     *)
(* sweep ends before the next one starts, and a job keeps its lock.        *)
(***************************************************************************)
CreditBound == \A o \in Orders : credits[o] <= 2 * (faults + 1)

(***************************************************************************)
(* A settled order gets its licence key: after a crash between the ack and *)
(* the retry, after lost answers and after the retry budget is spent, the  *)
(* sweep still finds it.                                                   *)
(***************************************************************************)
SettledOrderGetsKey ==
  \A o \in Orders : status[o] = "settlement" ~> issuedKey[o] # Null

(***************************************************************************)
(* "The key is never lost" (license-issue.ts:105): the organisation of a   *)
(* settled order ends up with a licence key of its own.                    *)
(***************************************************************************)
PaidOrgGetsKey ==
  \A o \in Orders : status[o] = "settlement" ~> license[OrgOf[o]].key # Null

(***************************************************************************)
(* issueLicenseForOrder is "idempotent" (license-issue.ts:47 and :184):    *)
(* running it again for an order does not extend the licence again.        *)
(***************************************************************************)
CreditOnce == \A o \in Orders : credits[o] <= 1

-----------------------------------------------------------------------------
(***************************************************************************)
(* The inductive invariant behind the safety properties.                   *)
(***************************************************************************)

\* Money: notifications are in flight for existing orders only; a settlement is
\* only in flight, and only recorded, for an order whose exact amount was
\* collected.
MoneyInv ==
  /\ \A h \in Hooks : \A o \in Orders : \A kind \in Kinds :
       Handling(h, kind, o) => status[o] # "absent"
  /\ \A h \in Hooks : \A o \in Orders :
       Handling(h, "settlement", o) => paid[o] = "exact"
  /\ \A o \in Orders : status[o] = "settlement" => paid[o] = "exact"

\* Calls: issuance runs for settled orders only; the retry job exists only
\* once the webhook's own call is over; the job runs while it is active.
CallInv ==
  /\ \A o \in Orders : \A p \in Paths : ~At(o, p, "idle") => status[o] = "settlement"
  /\ batch \subseteq {o \in Orders : status[o] = "settlement"}
  /\ \A o \in Orders : status[o] # "settlement" => job[o].state = "none"
  /\ \A o \in Orders : ~At(o, "inline", "idle") => job[o].state = "none"
  /\ \A o \in Orders : ~At(o, "job", "idle") => job[o].state = "active"

\* Keys: a key, on an order or on an organisation, is the organisation's own
\* and comes from a credited settlement; past "persist_order" it is stored.
Keyed == {"persist_org", "validate", "write"}

OrderKeys ==
  \A o \in Orders : issuedKey[o] # Null =>
    issuedKey[o] = OrgOf[o] /\ status[o] = "settlement"

CallKeys ==
  \A o \in Orders : \A p \in Paths : run[<<o, p>>].at \in Keyed => issuedKey[o] # Null

OrgKeys ==
  \A g \in Orgs : license[g].key # Null =>
    license[g].key = g /\ \E o \in Orders : OrgOf[o] = g /\ issuedKey[o] # Null

CreditedSettled == \A o \in Orders : credits[o] > 0 => status[o] = "settlement"

KeyInv == OrderKeys /\ CallKeys /\ OrgKeys /\ CreditedSettled

\* The webhook's call and the retry job share one slot, the sweep has its own.
AtStep(o, step) ==
  (IF At(o, "inline", step) \/ At(o, "job", step) THEN 1 ELSE 0)
  + (IF At(o, "sweep", step) THEN 1 ELSE 0)

\* Credits: while the order has no key every credit is either about to be
\* persisted or was lost to a fault, at most two to each; from then on only
\* the calls that are already asking the validator can add one.
CreditInv ==
  \A o \in Orders :
    /\ issuedKey[o] = Null => credits[o] <= 2 * faults + AtStep(o, "persist_order")
    /\ credits[o] + AtStep(o, "generate") <= 2 * faults + 2

SafetyInv == TypeOK /\ MoneyInv /\ CallInv /\ KeyInv

IndInv == SafetyInv /\ CreditInv
=============================================================================
