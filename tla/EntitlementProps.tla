------------------------- MODULE EntitlementProps -------------------------
(***************************************************************************)
(* What must hold of the stored licence.                                   *)
(***************************************************************************)
EXTENDS Entitlement

AppOnly == "scheduler" \notin deployed

(***************************************************************************)
(* The app's own writers never lock out a customer by mistake: as long as  *)
(* the validator has not said no, an organisation whose key was ever found *)
(* valid is locked only after a whole grace period without a positive      *)
(* verdict, however the unsigned answers, exceptions and concurrent checks *)
(* interleave.  One case is left out by name: a key that was issued and    *)
(* never found valid has no date to count from, so a first purchase whose  *)
(* validation fails is locked at once, although license-issue.ts:147 says  *)
(* that the grace period applies.                                          *)
(***************************************************************************)
LockNeedsReason ==
  AppOnly /\ license.key # Null /\ validated /\ Locked(license, 0) =>
    denied \/ silence >= GracePeriod

(***************************************************************************)
(* The same of a deployment with the scheduler service, as PRD.md:249 and  *)
(* license-client.ts:227 promise it: an answer without a signature is an   *)
(* outage, and the grace period applies.                                   *)
(***************************************************************************)
OutageHasGrace ==
  license.key # Null /\ validated /\ Locked(license, 0) =>
    denied \/ silence >= GracePeriod

(***************************************************************************)
(* Grace is bounded: when the validator holds no key valid any more, the   *)
(* organisation ends up locked for good, even if the validator is down     *)
(* forever, notifications are lost or late, and requests keep coming.      *)
(***************************************************************************)
NothingValid == \A key \in LicenseKeys : truth[key] # "valid"

RevocationLocks == AppOnly => (<>[]NothingValid => <>[]Locked(license, 0))

(***************************************************************************)
(* The same of a deployment with the scheduler service: grace runs "from   *)
(* last successful validation" (PRD.md:249), so that no answer short of    *)
(* one starts it again.                                                    *)
(***************************************************************************)
GraceEnds == <>[]NothingValid => <>[]Locked(license, 0)

(***************************************************************************)
(* A customer in good standing gets in: when the validator answers and     *)
(* holds the organisation's key valid, the organisation ends up unlocked   *)
(* for good, whatever verdicts on an earlier key, unsigned answers and     *)
(* late notifications were still to be written.                            *)
(***************************************************************************)
InGoodStanding ==
  up /\ license.key # Null /\ truth[license.key] = "valid"

GoodStandingUnlocks == <>[]InGoodStanding => <>[]~Locked(license, 0)

(***************************************************************************)
(* No answer wipes what it does not carry (license-client.ts:252-262,      *)
(* 285-288): unsigned answers, exceptions and notifications without a plan *)
(* leave the stored plan and expiry exactly as they are.  The expiry       *)
(* changes only to one a signed answer carried, the plan only to one a     *)
(* signed answer or a notification named or, by name, to the fallback      *)
(* "flat" of every caller when a signed answer names none: it replaces a   *)
(* stored plan too.  Two writers store a key with what came with it, plan  *)
(* and expiry included: an activation and issuance.                        *)
(***************************************************************************)
Stored(w)  == check[w].at = "write" /\ check'[w].at = "idle"
StoresKey  == Stored("activation") \/ (check["issuance"].at = "idle" /\ check'["issuance"].at = "ask")
PlanNamed  ==
  \/ \E w \in Callers : LET r == check[w].answer IN
       Stored(w) /\ r.signed /\ license'.plan = IF r.plan # Null THEN r.plan ELSE "flat"
  \/ notice # Null /\ notice' = Null /\ license'.plan \in NoticePlans \ {Null}
ExpiryCarried ==
  \E w \in Callers : LET r == check[w].answer IN
    Stored(w) /\ r.signed /\ r.expiresAt # Null /\ license'.expiresAt = r.expiresAt

MetadataKept ==
  [][AppOnly /\ ~StoresKey =>
       /\ license'.plan # license.plan => PlanNamed
       /\ license'.expiresAt # license.expiresAt => ExpiryCarried]_vars

(***************************************************************************)
(* "Explicit rejection (expired/deactivated) locks immediately"            *)
(* (PRD.md:249): an organisation locked by a verdict is unlocked by a      *)
(* positive verdict only.                                                  *)
(***************************************************************************)
RejectionLocks ==
  [][license.status \in {"expired", "suspended", "invalid"} /\ ~Locked(license', 0)
       => license'.status = "valid"]_vars
=============================================================================
