---------------------------- MODULE RequestStore ----------------------------
(***************************************************************************)
(* The attempt and request rows of pipeline/storage/postgres.ts, for the   *)
(* attempts of one production run or experiment and its spending cap.  An  *)
(* operation is one statement or one transaction there and an operator on  *)
(* rows here; the WHERE clauses are the IF conditions.                     *)
(***************************************************************************)
EXTENDS Integers, FiniteSets, Functions, ReceiptLedger

CONSTANTS Cap,          \* cap_nano_usd of the run
          Reservation   \* reservationNanoUsd, reserved per request

ASSUME MoneyAssumption == Cap \in Nat /\ Reservation \in Nat

VARIABLES attempts,     \* attempts.status; "absent" before createAttempt
          rows          \* requests rows; NoRow before reserveRequest

storeVars == <<attempts, rows>>

(* What the saved exchange says, as classify and validate read it; "lost"  *)
(* is an exchange without a response, "none" a row without a payload.      *)
ReplyKinds == {"accepted", "malformed", "retryable", "rejected", "unresolved", "lost"}

NoRow == [status |-> "none", charge |-> "none", amount |-> 0, reply |-> "none"]
ReservedRow == [status |-> "reserved", charge |-> "pending", amount |-> 0, reply |-> "none"]

Rows == [status : {"none", "reserved", "abandoned", "responded", "no_response"},
         charge : {"none", "pending", "known", "unknown"},
         amount : Nat, reply : ReplyKinds \cup {"none"}]

Terminal == {"valid", "invalid", "failed", "uncertain", "response_lost", "verification_unresolved"}

StoreTypeOK == /\ attempts \in [Attempts -> Terminal \cup {"absent", "pending"}]
               /\ rows \in [Requests -> Rows]

StoreInit == /\ attempts = [a \in Attempts |-> "absent"]
             /\ rows = [r \in Requests |-> NoRow]

Settled(row) == row.status \in {"responded", "no_response"}
Physical(row) == row.status \in {"reserved", "responded", "no_response"}

(* readAttempt: the attempt's own rows. *)
RowsOf(a) == [r \in Requests |-> IF r[1] = a THEN rows[r] ELSE NoRow]

(* The committed sum of reserveRequest. *)
CommittedIfPriced(row) == IF row.charge = "known" THEN row.amount    \* mutant: drops unknown
                          ELSE IF row.charge = "pending" THEN Reservation ELSE 0
Committed(row) == IF row.charge = "known" THEN row.amount
                  ELSE IF row.charge \in {"pending", "unknown"} THEN Reservation ELSE 0
CommittedSpend == SumFunction([r \in Requests |-> Committed(rows[r])])
FitsCap == CommittedSpend + Reservation <= Cap

(* abandonRequest *)
AbandonedRow(row, cancelled) ==
  IF \/ row.status = "reserved"
     \/ cancelled /\ row.status = "no_response" /\ row.charge = "unknown" /\ row.reply = "none"
  THEN [row EXCEPT !.status = "abandoned", !.charge = "none"]
  ELSE row
Abandon(r, cancelled) == rows' = [rows EXCEPT ![r] = AbandonedRow(@, cancelled)]

(* reconcileRequestAccounting *)
ReconciledRow(row, c) ==
  IF Settled(row) /\ row.charge = "unknown"
  THEN [row EXCEPT !.charge = "known", !.amount = c] ELSE row
AccountingConflict(row, c) == row.charge = "known" /\ row.amount # c
Reconcile(r, c) == rows' = [rows EXCEPT ![r] = ReconciledRow(@, c)]

(* recordOutcome, with its fallback to reconcileRequestAccounting when the *)
(* row is no longer reserved.                                              *)
NullAmountRow(row, status, c, reply) ==  \* mutant: stores a missing charge as it is
  IF row.status = "reserved"
  THEN [status |-> status, charge |-> IF c = Unknown THEN "unknown" ELSE "known",
        amount |-> c, reply |-> reply]
  ELSE IF c = Unknown THEN row ELSE ReconciledRow(row, c)
ZeroAmountRow(row, status, c, reply) ==  \* mutant: takes a missing charge for a free request
  IF row.status = "reserved"
  THEN [status |-> status, charge |-> "known", amount |-> IF c = Unknown THEN 0 ELSE c,
        reply |-> reply]
  ELSE IF c = Unknown THEN row ELSE ReconciledRow(row, c)
RecordedRow(row, status, c, reply) ==
  IF row.status = "reserved"
  THEN [status |-> status, charge |-> IF c = Unknown THEN "unknown" ELSE "known",
        amount |-> IF c = Unknown THEN 0 ELSE c, reply |-> reply]
  ELSE IF c = Unknown THEN row ELSE ReconciledRow(row, c)
RecordConflict(row, c) == row.status # "reserved" /\ c # Unknown /\ AccountingConflict(row, c)
Record(r, status, c, reply) == rows' = [rows EXCEPT ![r] = RecordedRow(@, status, c, reply)]

(* finishAttempt: only a pending attempt takes an outcome. *)
FinishedStatus(status, outcome) == IF status = "pending" THEN outcome ELSE status
FinishAttempt(a, outcome) == attempts' = [attempts EXCEPT ![a] = FinishedStatus(@, outcome)]
=============================================================================
