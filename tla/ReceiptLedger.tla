---------------------------- MODULE ReceiptLedger ----------------------------
(***************************************************************************)
(* The accounting ledger of pipeline/storage/receipts.ts: an append-only   *)
(* file, fsynced per event, kept apart from PostgreSQL.  Readers look a    *)
(* receipt up by its type and request, or take the first cancellation of   *)
(* an attempt (here: any), so the file is the set of its complete lines.   *)
(* An append refuses to write behind a torn last line, which a reader      *)
(* ignores.                                                                *)
(***************************************************************************)
EXTENDS Integers

CONSTANTS Attempts,     \* attempt identities of one run or experiment
          MaxRequests   \* largest request sequence (a smallint column)

ASSUME MaxRequestsAssumption == MaxRequests \in Nat

VARIABLES ledger,       \* complete receipts in the file
          torn          \* the file ends in an incomplete line

ledgerVars == <<ledger, torn>>

(* A physical request is named by its attempt and sequence number. *)
Requests == Attempts \X (1 .. MaxRequests)

(* A charge the provider's reply did not state: null in the code. *)
Unknown == -1
Charge == Nat \cup {Unknown}

Intent(r) == [type |-> "dispatch_intent", req |-> r, outcome |-> "none", charge |-> Unknown]
Cancelled(r) == [type |-> "dispatch_cancelled", req |-> r, outcome |-> "none", charge |-> Unknown]
Outcome(r, status, c) == [type |-> "request_outcome", req |-> r, outcome |-> status, charge |-> c]

Receipts ==
  [type : {"dispatch_intent", "dispatch_cancelled"}, req : Requests, outcome : {"none"}, charge : {Unknown}]
  \cup [type : {"request_outcome"}, req : Requests, outcome : {"responded", "no_response"}, charge : Charge]

LedgerTypeOK == /\ ledger \subseteq Receipts
                /\ torn \in BOOLEAN

LedgerInit == /\ ledger = {}
              /\ torn = FALSE

(* append: the event is on disk and the caller is told so. *)
Append(e) == /\ ~torn
             /\ ledger' = ledger \cup {e}
             /\ UNCHANGED torn

(* append throws accounting_unavailable because of the torn line. *)
AppendRefused == torn /\ UNCHANGED ledgerVars

(* append throws after a file error: before the write, after a partial     *)
(* line, or after the whole line (the sync failed).                        *)
AppendFaulted(e) == /\ ~torn
                    /\ \/ UNCHANGED ledgerVars
                       \/ torn' = TRUE /\ UNCHANGED ledger
                       \/ ledger' = ledger \cup {e} /\ UNCHANGED torn

HasOutcome(receipts, r) == \E e \in receipts : e.type = "request_outcome" /\ e.req = r
=============================================================================
