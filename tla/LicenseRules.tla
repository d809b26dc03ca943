---------------------------- MODULE LicenseRules ----------------------------
(***************************************************************************)
(* The pure licence rules of src/src/lib/license-client.ts: how an answer  *)
(* of the external License-Validator becomes a stored organisation         *)
(* licence, and when a stored licence locks the organisation out.          *)
(*                                                                         *)
(* An organisation licence is the record of the five columns               *)
(* licenseKey, licenseStatus, licensePlan, licenseValidatedAt and          *)
(* licenseExpiresAt; Null stands for SQL NULL.  A date is a number of      *)
(* ticks.                                                                  *)
(***************************************************************************)
EXTENDS Integers

CONSTANTS
  Null,         \* SQL NULL / JavaScript null
  GracePeriod   \* LICENSE_GRACE_PERIOD_DAYS, in ticks

ASSUME GraceAssumption == GracePeriod \in Nat \ {0}

Statuses == {"none", "unpaid", "valid", "expired", "invalid",
             "suspended", "unreachable"}

\* Two recognised plans: the paid fallback, and any other one.
Plans == {"flat", "pro"}

ASSUME NullAssumption == Null \notin Int /\ Null \notin Plans

License(keys) ==
  [key : keys \cup {Null}, status : Statuses, plan : Plans \cup {Null},
   validatedAt : Int \cup {Null}, expiresAt : Nat \cup {Null}]

(***************************************************************************)
(* What validateLicense() can return.  A signed answer carries the         *)
(* validator's verdict; every unsigned one (HTTP error, bad signature,     *)
(* wrong nonce) is the same "not valid, nothing known" record.  A network  *)
(* error is not an answer at all: the call throws.                         *)
(***************************************************************************)
SignedAnswer(valid, message, plan, expiresAt) ==
  [signed |-> TRUE, valid |-> valid, message |-> message,
   plan |-> plan, expiresAt |-> expiresAt]

UnsignedAnswer ==
  [signed |-> FALSE, valid |-> FALSE, message |-> "no_verdict",
   plan |-> Null, expiresAt |-> Null]

Messages == {"ok", "expired", "deactivated", "other", "no_verdict"}

Answers ==
  [signed : BOOLEAN, valid : BOOLEAN, message : Messages,
   plan : Plans \cup {Null}, expiresAt : Nat \cup {Null}]

StatusFromResult(r) ==
  CASE r.signed /\ r.valid                              -> "valid"
    [] r.signed /\ ~r.valid /\ r.message = "expired"     -> "expired"
    [] r.signed /\ ~r.valid /\ r.message = "deactivated" -> "suspended"
    [] r.signed /\ ~r.valid /\ r.message \notin {"expired", "deactivated"} -> "invalid"
    [] OTHER                                            -> "unreachable"

\* Slips: a fallback plan this build does not know; a date for every answer;
\* an expiry written whatever the answer carries.
UpdateDrifted(lic, r, now) ==
  [lic EXCEPT !.status = StatusFromResult(r), !.plan = IF r.signed THEN "standard" ELSE @]
UpdateAlwaysDated(lic, r, now) ==
  [lic EXCEPT !.status = StatusFromResult(r), !.validatedAt = now]
UpdateWiping(lic, r, now) ==
  [lic EXCEPT !.status = StatusFromResult(r), !.expiresAt = r.expiresAt]

(***************************************************************************)
(* licenseUpdateFromResult(r, { planFallback: 'flat' }) applied to a row:  *)
(* the status always changes, the other columns only when the answer is    *)
(* signed and carries them.                                                *)
(***************************************************************************)
UpdateFromResult(lic, r, now) ==
  [lic EXCEPT
     !.status      = StatusFromResult(r),
     !.plan        = IF ~r.signed THEN @ ELSE IF r.plan # Null THEN r.plan ELSE "flat",
     !.validatedAt = IF r.signed /\ r.valid THEN now ELSE @,
     !.expiresAt   = IF r.signed /\ r.expiresAt # Null THEN r.expiresAt ELSE @]

\* A slip: the row is left as if it had never been validated.
MarkUnreachableForgetting(lic) ==
  [lic EXCEPT !.status = "unreachable", !.validatedAt = Null]

\* The update of a caller whose validateLicense() threw.
MarkUnreachable(lic) == [lic EXCEPT !.status = "unreachable"]

WithinGrace(validatedAt, now) ==
  validatedAt # Null /\ now - validatedAt < GracePeriod

LockdownReason(lic, now) ==
  CASE lic.status = "valid"                    -> Null
    [] lic.status \in {"unpaid", "none"}       -> "unpaid"
    [] lic.status = "suspended"                -> "deactivated"
    [] lic.status \in {"expired", "invalid"}   -> "expired"
    [] lic.status = "unreachable"              ->
         IF WithinGrace(lic.validatedAt, now) THEN Null ELSE "unreachable"
    [] OTHER                                   -> "expired"

Locked(lic, now) == LockdownReason(lic, now) # Null
=============================================================================
