------------------------- MODULE StageExecutorProofs -------------------------
(***************************************************************************)
(* Proofs about StageExecutor, for every number of attempts, processes,    *)
(* requests, retries and faults, every cap, reservation and bill: what is  *)
(* charged, that it stays within the cap, that StageExecutor implements    *)
(* PaidAttempts if no process outlives its lock while it recovers or       *)
(* between its last check and the send, and what a process tells its       *)
(* caller if none outlives its lock: then at most one call is active, and  *)
(* all it knows is current.                                                *)
(***************************************************************************)
EXTENDS StageExecutor, FiniteSetTheorems, WellFoundedInduction, TLAPS

(* The places where the local request has not been sent yet, and those     *)
(* where there is a local request.                                         *)
Unsent == {"intent", "abandon", "check", "cancel", "send"}
Busy == Unsent \cup {"cancelled", "await", "outcome", "record"}

(* What TypeOK needs of the locals to be inductive: only outcome receipts  *)
(* are imported or restored, and only stated charges imported.             *)
TodoOK(place, l) == \A e \in l.todo : /\ e.type = "request_outcome"
                                      /\ place = "reconcile" => e.charge # Unknown
PlaceOK(place, l, status) ==
  /\ TodoOK(place, l)
  /\ place \in Busy => l.cur \in Requests
  /\ place = "finish" => l.goal \in Terminal
  /\ place \in Active \ {"read", "create"} => status[l.att] # "absent"
LocalsOK == \A p \in Procs : PlaceOK(pc[p], loc[p], attempts)

TypeInv == TypeOK /\ LocalsOK

(* An unsent local request has a row, is nobody else's and is not at the   *)
(* provider.                                                               *)
CurOwned ==
  \A p \in Procs : pc[p] \in Unsent =>
    /\ rows[loc[p].cur].status # "none"
    /\ loc[p].cur \notin sent
    /\ \A q \in Procs : q # p /\ pc[q] \in Unsent => loc[q].cur # loc[p].cur

(* The receipts a process has written, and those it has not.               *)
Recorded ==
  \A p \in Procs :
    /\ pc[p] \in {"check", "send"} => Intent(loc[p].cur) \in ledger
    /\ pc[p] \in {"intent", "check", "send"} => Cancelled(loc[p].cur) \notin ledger

(* Requests at the provider or cancelled have rows.                        *)
Rowed ==
  /\ \A r \in sent : rows[r].status # "none"
  /\ \A r \in Requests : Cancelled(r) \in ledger => rows[r].status # "none"

SendInv == TypeInv /\ CurOwned /\ Recorded /\ Rowed /\ SendsAreRecorded

(* Requests at the provider or on their way to it.                         *)
Gone == sent \cup {loc[p].cur : p \in {q \in Procs : pc[q] = "send"}}

(* A recovery holds the lock, and knows every request of its attempt that  *)
(* is gone from what it read.                                              *)
RecoveryOwns == \A p \in Procs : pc[p] \in PreLoop => owner = p
Knows(place, l, receipts, gone) ==
  /\ l.recs \subseteq receipts
  /\ \A r \in Requests : l.view[r].status # "none" => r[1] = l.att
  /\ \A r \in gone : r[1] = l.att =>
       /\ place = "receipts" => l.view[r].status # "none"
       /\ place \in {"reconcile", "restore", "open"} => Intent(r) \in l.recs
RecoveryKnows == \A p \in Procs : Knows(pc[p], loc[p], ledger, Gone)

(* A row is released only when its request is not gone and will not go.    *)
LiveRows ==
  /\ \A r \in Gone : rows[r].status # "abandoned"
  /\ \A p \in Procs : pc[p] \in {"intent", "check"} /\ owner = p =>
                        rows[loc[p].cur].status # "abandoned"
  /\ \A p \in Procs : pc[p] = "cancelled" => Cancelled(loc[p].cur) \in ledger

ReleaseInv == SendInv /\ RecoveryOwns /\ RecoveryKnows /\ LiveRows
-----------------------------------------------------------------------------
(* Lemmas about the operators of the model. *)

LEMMA IdleType == Idle \in Locals
<1>1. PICK a \in Attempts : TRUE
  BY ExecutorAssumption
<1>2. (CHOOSE b \in Attempts : TRUE) \in Attempts
  BY <1>1
<1>3. NoRow \in Rows
  BY DEF NoRow, Rows
<1> QED
  BY <1>2, <1>3 DEF Idle, Locals, Terminal, Charge, Receipts

LEMMA ReceiptTypes ==
  ASSUME NEW r \in Requests, NEW c \in Charge, NEW status \in {"responded", "no_response"}
  PROVE  Intent(r) \in Receipts /\ Cancelled(r) \in Receipts /\ Outcome(r, status, c) \in Receipts
BY DEF Intent, Cancelled, Outcome, Receipts, Charge, Unknown

(* What an append leaves: a typed ledger that contains the old one and at  *)
(* most the new receipt more.                                              *)
LEMMA AppendEffect ==
  ASSUME NEW e, Append(e) \/ AppendRefused \/ AppendFaulted(e)
  PROVE  /\ ledger \subseteq ledger' /\ ledger' \subseteq ledger \cup {e}
         /\ LedgerTypeOK /\ e \in Receipts => LedgerTypeOK'
BY DEF Append, AppendRefused, AppendFaulted, ledgerVars, LedgerTypeOK

(* The row operations keep a row's type, and no row disappears; only an    *)
(* abandonment makes a row abandoned.                                      *)
LEMMA RowTypes ==
  ASSUME NEW row \in Rows, NEW c \in Charge, NEW flag \in BOOLEAN,
         NEW status \in {"responded", "no_response"}, NEW reply \in ReplyKinds \cup {"none"}
  PROVE  /\ AbandonedRow(row, flag) \in Rows
         /\ c # Unknown => ReconciledRow(row, c) \in Rows
         /\ RecordedRow(row, status, c, reply) \in Rows
BY DEF AbandonedRow, ReconciledRow, RecordedRow, Rows, Charge, Unknown, Settled

LEMMA RowStatus ==
  ASSUME NEW row \in Rows, NEW c, NEW flag, NEW status \in {"responded", "no_response"}, NEW reply
  PROVE  /\ row.status # "none" => AbandonedRow(row, flag).status # "none"
         /\ row.status = "none" => AbandonedRow(row, flag).status = "none"
         /\ ReconciledRow(row, c).status = row.status
         /\ row.status # "none" => RecordedRow(row, status, c, reply).status # "none"
         /\ row.status # "abandoned" => RecordedRow(row, status, c, reply).status # "abandoned"
BY DEF AbandonedRow, ReconciledRow, RecordedRow, Rows, Settled

LEMMA ViewType == ASSUME StoreTypeOK, NEW a \in Attempts
                  PROVE  RowsOf(a) \in [Requests -> Rows]
BY DEF StoreTypeOK, RowsOf, NoRow, Rows

LEMMA ConcludeType == ASSUME NEW row \in Rows
                      PROVE  Conclude(row) \in Terminal \cup {"pending"}
BY DEF Conclude, Terminal
-----------------------------------------------------------------------------
(* Type correctness. *)

CallOK == /\ pc \in [Procs -> Active \cup {"idle"}]
          /\ loc \in [Procs -> Locals]
          /\ owner \in Procs \cup {NoProc}
          /\ told \in [Attempts -> Terminal \cup {"none"}]

(* A place and locals a call may go on with, and the ways an action ends.  *)
Well(place, l) == place \in Active /\ l \in Locals /\ PlaceOK(place, l, attempts')
Ends(p) == \/ Pause(p)
           \/ \E status \in Terminal : Return(p, status)
           \/ \E place, l : Well(place, l) /\ Continue(p, place, l)
Kept == \A a \in Attempts : attempts[a] # "absent" => attempts'[a] # "absent"

LEMMA EndsType == ASSUME TypeInv, NEW p \in Procs, Ends(p), Kept
                  PROVE  CallOK' /\ LocalsOK'
<1> USE DEF TypeInv, TypeOK, CallOK, LocalsOK
<1>1. CASE Pause(p) \/ \E status \in Terminal : Return(p, status)
  <2>1. Leave(p) /\ told' \in [Attempts -> Terminal \cup {"none"}]
    BY <1>1 DEF Pause, Return
  <2>2. \A q \in Procs : /\ q = p => pc'[q] = "idle"
                         /\ q # p => pc'[q] = pc[q] /\ loc'[q] = loc[q]
    BY <2>1 DEF Leave
  <2>3. PlaceOK("idle", Idle, attempts')
    BY DEF PlaceOK, TodoOK, Idle, Active, PreLoop, InLoop, Busy, Unsent
  <2>4. \A q \in Procs : q # p => PlaceOK(pc[q], loc[q], attempts')
    BY DEF Kept, PlaceOK, Locals
  <2>5. loc'[p] = Idle
    BY <2>1 DEF Leave
  <2>6. LocalsOK'
    BY <2>2, <2>3, <2>4, <2>5
  <2> QED
    BY <2>1, <2>6, IdleType DEF Leave
<1>2. CASE \E place, l : Well(place, l) /\ Continue(p, place, l)
  <2>1. PICK place, l : Well(place, l) /\ Continue(p, place, l)
    BY <1>2
  <2>2. \A q \in Procs : /\ q = p => pc'[q] = place /\ loc'[q] = l
                         /\ q # p => pc'[q] = pc[q] /\ loc'[q] = loc[q]
    BY <2>1 DEF Continue, Goto, Local
  <2>3. CallOK'
    BY <2>1 DEF Continue, Goto, Local, Well
  <2>4. \A q \in Procs : q # p => PlaceOK(pc[q], loc[q], attempts')
    BY DEF Kept, PlaceOK, Locals
  <2>5. LocalsOK'
    BY <2>1, <2>2, <2>4 DEF Well
  <2> QED
    BY <2>3, <2>5
<1> QED
  BY <1>1, <1>2 DEF Ends

LEMMA SettleEnds ==
  ASSUME NEW p \in Procs, NEW l \in Locals, NEW verdict \in Terminal, Settle(p, l, verdict),
         attempts'[l.att] # "absent"
  PROVE  Ends(p)
<1>1. [Idle EXCEPT !.att = l.att, !.acctFailed = l.acctFailed, !.goal = verdict] \in Locals
  BY IdleType DEF Locals
<1>2. [Idle EXCEPT !.att = l.att, !.acctFailed = l.acctFailed, !.goal = verdict].todo = {}
  BY DEF Idle
<1> QED
  BY <1>1, <1>2 DEF Settle, Ends, Well, PlaceOK, Active, InLoop, Busy, Unsent, Locals, TodoOK

LEMMA DispatchEnds ==
  ASSUME NEW p \in Procs, NEW l \in Locals, Dispatch(p, l), attempts'[l.att] # "absent"
  PROVE  Ends(p)
<1>1. [Idle EXCEPT !.att = l.att, !.dispatch = TRUE, !.view = l.view] \in Locals
  BY IdleType DEF Locals
<1>2. [Idle EXCEPT !.att = l.att, !.dispatch = TRUE, !.view = l.view].todo = {}
  BY DEF Idle
<1> QED
  BY <1>1, <1>2 DEF Dispatch, Ends, Well, PlaceOK, Active, InLoop, Busy, Unsent, Locals, TodoOK

LEMMA LoopEnds ==
  ASSUME NEW p \in Procs, NEW l \in Locals, Loop(p, l), attempts'[l.att] # "absent"
  PROVE  Ends(p)
<1>1. CASE Dispatch(p, l) \/ Pause(p)
  BY <1>1, DispatchEnds DEF Ends
<1>2. CASE \E verdict \in Terminal : Settle(p, l, verdict)
  BY <1>2, SettleEnds
<1>3. \A r \in Requests : Conclude(l.view[r]) \in Terminal \cup {"pending"}
  BY ConcludeType DEF Locals
<1> QED
  BY <1>1, <1>2, <1>3 DEF Loop, LastOf, PhysicalOf, Terminal
(* One lemma per group of actions: each ends its call in a typed way and   *)
(* keeps the store and the ledger typed.                                   *)
LEMMA TypeFrame ==
  ASSUME TypeInv, NEW p \in Procs, Ends(p), Kept, StoreTypeOK', LedgerTypeOK',
         sent' \subseteq Requests, bill' \in [Requests -> Nat], faults' \in 0 .. MaxFaults
  PROVE  TypeInv'
BY EndsType DEF TypeInv, TypeOK, CallOK

LEMMA GoOn ==
  ASSUME NEW p \in Procs, NEW place, NEW l, Continue(p, place, l), Well(place, l)
  PROVE  Ends(p)
BY DEF Ends

LEMMA ReadTypes ==
  ASSUME TypeInv, NEW p \in Procs,
         ReadAttempt(p) \/ CreateAttempt(p) \/ ReadReceipts(p) \/ ReadAgain(p)
  PROVE  TypeInv'
<1> USE DEF TypeInv, TypeOK, Well, PlaceOK, Active, PreLoop, InLoop, Busy, Unsent
<1>1. /\ StoreTypeOK' /\ LedgerTypeOK' /\ Kept /\ sent' = sent /\ bill' = bill /\ faults' = faults
  BY DEF ReadAttempt, CreateAttempt, ReadReceipts, ReadAgain, StoreTypeOK, LedgerTypeOK,
       storeVars,
         ledgerVars, Provider, Terminal, Kept
<1>2. loc[p] \in Locals /\ loc[p].att \in Attempts /\ RowsOf(loc[p].att) \in [Requests -> Rows]
  BY ViewType DEF Locals
<1>3. CASE ReadAttempt(p)
  <2>1. [loc[p] EXCEPT !.view = RowsOf(loc[p].att)] \in Locals
    BY <1>2 DEF Locals
  <2>2. Ends(p)
    BY <1>2, <1>3, <2>1, GoOn DEF ReadAttempt, storeVars, Locals, LocalsOK, TodoOK
  <2> QED
    BY <1>1, <2>2, TypeFrame
<1>4. CASE CreateAttempt(p)
  <2>1. Ends(p)
    BY <1>2, <1>4, GoOn DEF CreateAttempt, Ends, LocalsOK, TodoOK
  <2> QED
    BY <1>1, <2>1, TypeFrame
<1>5. CASE ReadReceipts(p)
  <2> DEFINE receipts == IF RecordedOf(loc[p].view) = {} THEN {}
                         ELSE {e \in ledger : e.req[1] = loc[p].att}
             late == {e \in receipts : /\ e.type = "request_outcome" /\ e.charge # Unknown
                                       /\ loc[p].view[e.req].charge = "unknown"}
             new == [loc[p] EXCEPT !.recs = receipts, !.todo = late]
  <2>1. receipts \subseteq Receipts /\ late \subseteq Receipts
    BY DEF LedgerTypeOK
  <2>5. \A e \in late : e.type = "request_outcome" /\ e.charge # Unknown
    OBVIOUS
  <2> HIDE DEF receipts, late
  <2>2. new \in Locals
    BY <1>2, <2>1 DEF Locals
  <2>3. Continue(p, "reconcile", new)
    BY <1>5 DEF ReadReceipts, receipts, late
  <2>4. attempts'[new.att] # "absent"
    BY <1>2, <1>5 DEF ReadReceipts, LocalsOK, storeVars, Locals
  <2>6. TodoOK("reconcile", new)
    BY <1>2, <2>5 DEF TodoOK, Locals
  <2> QED
    BY <1>1, <2>2, <2>3, <2>4, <2>6, GoOn, TypeFrame
<1>6. CASE ReadAgain(p)
  <2> DEFINE view == RowsOf(loc[p].att)
             missing == {r \in Requests : Settled(view[r]) /\ ~HasOutcome(loc[p].recs, r)}
             lost == {Outcome(r, view[r].status, IF view[r].charge = "known" THEN view[r].amount
                                                 ELSE Unknown) : r \in missing}
             new == [loc[p] EXCEPT !.view = view, !.status = attempts[loc[p].att], !.todo = lost]
  <2>1. view \in [Requests -> Rows] /\ attempts[loc[p].att] \in Terminal \cup {"absent", "pending"}
    BY <1>2 DEF StoreTypeOK
  <2>2. lost \subseteq Receipts
    <3> SUFFICES ASSUME NEW r \in missing
                 PROVE  Outcome(r, view[r].status, IF view[r].charge = "known"
                                THEN view[r].amount ELSE Unknown) \in Receipts
      OBVIOUS
    <3>1. view[r].status \in {"responded", "no_response"} /\ view[r].amount \in Nat /\ r \in Requests
      BY <2>1 DEF Settled, Rows
    <3> QED
      BY <3>1, ReceiptTypes DEF Charge
  <2>6. \A e \in lost : e.type = "request_outcome"
    BY DEF Outcome
  <2> HIDE DEF view, lost
  <2>3. new \in Locals
    BY <1>2, <2>1, <2>2 DEF Locals
  <2>4. Continue(p, "restore", new)
    BY <1>6 DEF ReadAgain, view, lost
  <2>5. attempts'[new.att] # "absent"
    BY <1>2, <1>6 DEF ReadAgain, LocalsOK, storeVars, Locals
  <2>7. TodoOK("restore", new)
    BY <1>2, <2>6 DEF TodoOK, Locals
  <2> QED
    BY <1>1, <2>3, <2>4, <2>5, <2>7, GoOn, TypeFrame
<1> QED
  BY <1>3, <1>4, <1>5, <1>6
(* A call goes on with the locals it has, or with fewer receipts to do.    *)
LEMMA KeepGoing ==
  ASSUME TypeInv, NEW p \in Procs, pc[p] \in Active \ {"read", "create"}, NEW place \in Active,
         NEW e, NEW l \in {loc[p], [loc[p] EXCEPT !.todo = @ \ {e}]}, Continue(p, place, l), Kept,
         place \in Busy => pc[p] \in Busy, place = "finish" => pc[p] = "finish",
         place = "reconcile" => pc[p] = "reconcile"
  PROVE  Ends(p)
<1>1. loc[p] \in Locals
  BY DEF TypeInv, TypeOK
<1>2. /\ l \in Locals /\ l.att = loc[p].att /\ l.cur = loc[p].cur /\ l.goal = loc[p].goal
      /\ l.todo \subseteq loc[p].todo /\ l.att \in Attempts
  BY <1>1 DEF Locals
<1>3. PlaceOK(place, l, attempts')
  BY <1>2 DEF PlaceOK, TypeInv, LocalsOK, TodoOK, Kept
<1> QED
  BY <1>2, <1>3, GoOn DEF Well

LEMMA ReconcileType ==
  ASSUME TypeInv, NEW p \in Procs, ReconcileLate(p)
  PROVE  TypeInv'
<1>1. loc[p].todo \subseteq Receipts /\ TodoOK(pc[p], loc[p])
  BY DEF TypeInv, TypeOK, Locals, LocalsOK, PlaceOK
<1>2. PICK e \in loc[p].todo :
        /\ Reconcile(e.req, e.charge)
        /\ Pause(p) \/ Continue(p, "reconcile", [loc[p] EXCEPT !.todo = @ \ {e}])
  BY DEF ReconcileLate
<1>3. attempts' = attempts /\ pc[p] = "reconcile" /\ Kept
  BY DEF ReconcileLate, Kept
<1>4. Ends(p)
  BY <1>2, <1>3, KeepGoing DEF Ends, Active, PreLoop, InLoop, Busy, Unsent
<1>5. e.charge \in Charge /\ e.charge # Unknown
  BY <1>1, <1>2, <1>3 DEF Receipts, TodoOK
<1>6. StoreTypeOK'
  BY <1>2, <1>3, <1>5, RowTypes DEF Reconcile, StoreTypeOK, TypeInv, TypeOK
<1> QED
  BY <1>3, <1>4, <1>6, TypeFrame
     DEF ReconcileLate, ledgerVars, Provider, LedgerTypeOK, TypeInv, TypeOK

LEMMA RestoreType ==
  ASSUME TypeInv, NEW p \in Procs, RestoreReceipt(p)
  PROVE  TypeInv'
<1>1. loc[p].todo \subseteq Receipts
  BY DEF TypeInv, TypeOK, Locals
<1>2. PICK e \in loc[p].todo :
        /\ Append(e) \/ AppendRefused \/ AppendFaulted(e)
        /\ Pause(p) \/ Continue(p, "restore", [loc[p] EXCEPT !.todo = @ \ {e}])
        /\ UNCHANGED faults \/ Fault
  BY DEF RestoreReceipt
<1>3. attempts' = attempts /\ rows' = rows /\ pc[p] = "restore" /\ Kept
  BY DEF RestoreReceipt, Kept, storeVars
<1>4. Ends(p)
  BY <1>2, <1>3, KeepGoing DEF Ends, Active, PreLoop, InLoop, Busy, Unsent
<1>5. e \in Receipts
  BY <1>1, <1>2
<1>6. LedgerTypeOK'
  BY <1>2, <1>5, AppendEffect DEF TypeInv, TypeOK
<1>7. faults' \in 0 .. MaxFaults
  BY <1>2, ExecutorAssumption DEF Fault, TypeInv, TypeOK
<1> QED
  BY <1>3, <1>4, <1>6, <1>7, TypeFrame DEF RestoreReceipt, Provider, StoreTypeOK, TypeInv, TypeOK

LEMMA ResumeTypes ==
  ASSUME TypeInv, NEW p \in Procs,
         ReturnSaved(p) \/ HonourCancellation(p) \/ BeginSettling(p) \/ EndSettling(p)
  PROVE  TypeInv'
<1>1. loc[p] \in Locals /\ loc[p].att \in Attempts /\ PlaceOK(pc[p], loc[p], attempts)
  BY DEF TypeInv, TypeOK, Locals, LocalsOK
<1>2. /\ StoreTypeOK' /\ LedgerTypeOK' /\ sent' = sent /\ bill' = bill /\ faults' = faults
      /\ Kept /\ attempts' = attempts
  BY DEF ReturnSaved, HonourCancellation, BeginSettling, EndSettling, storeVars, ledgerVars,
         Provider, StoreTypeOK, LedgerTypeOK, TypeInv, TypeOK, Kept
<1>3. pc[p] \in {"restore", "open"} /\ attempts'[loc[p].att] # "absent"
  BY <1>1, <1>2 DEF ReturnSaved, HonourCancellation, BeginSettling, EndSettling, Restored,
                    PlaceOK, Active, PreLoop
<1>4. ASSUME ReturnSaved(p)  PROVE Ends(p)
  BY <1>4 DEF ReturnSaved, Ends
<1>5. ASSUME HonourCancellation(p)  PROVE Ends(p)
  <2>1. PICK r \in Requests : Continue(p, "cancelled", [loc[p] EXCEPT !.cur = r])
    BY <1>5 DEF HonourCancellation, CancelledOf
  <2> DEFINE l == [loc[p] EXCEPT !.cur = r]
  <2>2. l \in Locals /\ l.cur \in Requests /\ l.att = loc[p].att /\ l.todo = loc[p].todo
    BY <1>1 DEF Locals
  <2>3. Well("cancelled", l)
    BY <1>1, <1>3, <2>2 DEF Well, PlaceOK, TodoOK, Active, InLoop
  <2> QED
    BY <2>1, <2>3, GoOn
<1>6. ASSUME BeginSettling(p)  PROVE Ends(p)
  BY <1>1, <1>2, <1>3, <1>6, KeepGoing, LoopEnds
     DEF BeginSettling, Active, PreLoop, InLoop, Busy, Unsent
<1>7. ASSUME EndSettling(p)  PROVE Ends(p)
  <2>1. Loop(p, [loc[p] EXCEPT !.view = RowsOf(loc[p].att)])
    BY <1>7 DEF EndSettling
  <2>2. [loc[p] EXCEPT !.view = RowsOf(loc[p].att)] \in Locals
    BY <1>1, ViewType DEF Locals, TypeInv, TypeOK
  <2> QED
    BY <1>1, <1>3, <2>1, <2>2, LoopEnds DEF Locals
<1>8. Ends(p)
  BY <1>4, <1>5, <1>6, <1>7
<1> QED
  BY <1>2, <1>8, TypeFrame DEF TypeInv, TypeOK
LEMMA OpenTypes ==
  ASSUME TypeInv, NEW p \in Procs, AbandonUnsent(p) \/ ImportOutcome(p) \/ MarkUncertain(p)
  PROVE  TypeInv'
<1>1. loc[p] \in Locals /\ PlaceOK(pc[p], loc[p], attempts)
  BY DEF TypeInv, TypeOK, LocalsOK
<1>2. /\ pc[p] = "open" /\ attempts' = attempts /\ LedgerTypeOK' /\ Kept
      /\ sent' = sent /\ bill' = bill /\ faults' = faults
  BY DEF AbandonUnsent, ImportOutcome, MarkUncertain, ledgerVars, Provider, LedgerTypeOK,
         TypeInv, TypeOK, Kept
<1>3. attempts'[loc[p].att] # "absent"
  BY <1>1, <1>2 DEF PlaceOK, Active, PreLoop
<1>4. ASSUME AbandonUnsent(p)  PROVE Ends(p) /\ StoreTypeOK'
  <2>1. PICK r \in Requests :
          /\ Abandon(r, FALSE)
          /\ Continue(p, "open", [loc[p] EXCEPT !.view[r] = AbandonedRow(@, FALSE)])
    BY <1>4 DEF AbandonUnsent, FirstOpen, OpenOf
  <2> DEFINE view == [loc[p].view EXCEPT ![r] = AbandonedRow(@, FALSE)]
             l == [loc[p] EXCEPT !.view = view]
  <2>2. view \in [Requests -> Rows]
    BY <1>1, RowTypes DEF Locals, Charge
  <2> HIDE DEF view
  <2>3. l \in Locals /\ l.att = loc[p].att /\ l.todo = loc[p].todo
    BY <1>1, <2>2 DEF Locals
  <2>4. Continue(p, "open", l)
    BY <2>1 DEF view
  <2>5. Well("open", l)
    BY <1>1, <1>2, <1>3, <2>3 DEF Well, PlaceOK, TodoOK, Active, PreLoop, Busy, Unsent
  <2>6. StoreTypeOK'
    BY <1>2, <2>1, RowTypes DEF Abandon, StoreTypeOK, TypeInv, TypeOK, Charge
  <2> QED
    BY <2>4, <2>5, <2>6, GoOn
<1>5. ASSUME ImportOutcome(p)  PROVE Ends(p) /\ StoreTypeOK'
  <2>1. PICK r \in Requests, e \in loc[p].recs :
          /\ e.type = "request_outcome" /\ e.req = r
          /\ Record(r, e.outcome, e.charge, "none")
          /\ Pause(p) \/ \E verdict \in Terminal : Settle(p, loc[p], verdict)
    BY <1>5 DEF ImportOutcome, FirstOpen, OpenOf, Terminal
  <2>2. Ends(p)
    BY <1>1, <1>3, <2>1, SettleEnds DEF Ends
  <2>3. e \in Receipts
    BY <1>1 DEF Locals
  <2>4. \A row \in Rows : RecordedRow(row, e.outcome, e.charge, "none") \in Rows
    BY <2>3 DEF RecordedRow, ReconciledRow, Rows, Receipts, Charge, Unknown, Settled
  <2> QED
    BY <1>2, <2>1, <2>2, <2>4 DEF Record, StoreTypeOK, TypeInv, TypeOK
<1>6. ASSUME MarkUncertain(p)  PROVE Ends(p) /\ StoreTypeOK'
  <2>1. PICK r \in Requests : /\ Record(r, "no_response", Unknown, "none")
                              /\ Settle(p, loc[p], "uncertain")
    BY <1>6 DEF MarkUncertain, FirstOpen, OpenOf
  <2>2. Ends(p)
    BY <1>1, <1>3, <2>1, SettleEnds DEF Terminal
  <2> QED
    BY <1>2, <2>1, <2>2, RowTypes DEF Record, StoreTypeOK, TypeInv, TypeOK, Charge
<1> QED
  BY <1>2, <1>4, <1>5, <1>6, TypeFrame DEF TypeInv, TypeOK
LEMMA DispatchTypes ==
  ASSUME TypeInv, NEW p \in Procs,
         \/ PreCheck(p) \/ ReserveRequest(p) \/ AbandonUnrecorded(p) \/ CheckAgain(p)
         \/ AbandonCancelled(p) \/ Send(p)
  PROVE  TypeInv'
<1> DEFINE l == loc[p]
<1>1. l \in Locals /\ PlaceOK(pc[p], l, attempts)
  BY DEF TypeInv, TypeOK, LocalsOK
<1>2. attempts' = attempts /\ LedgerTypeOK' /\ Kept /\ faults' = faults
  BY DEF PreCheck, ReserveRequest, AbandonUnrecorded, CheckAgain, AbandonCancelled, Send,
         storeVars, ledgerVars, LedgerTypeOK, TypeInv, TypeOK, Kept
<1>3. pc[p] \in {"precheck", "reserve", "abandon", "check", "cancelled", "send"}
  BY DEF PreCheck, ReserveRequest, AbandonUnrecorded, CheckAgain, AbandonCancelled, Send
<1>4. attempts'[l.att] # "absent"
  BY <1>1, <1>2, <1>3 DEF PlaceOK, Active, InLoop
<1>5. ASSUME ReserveRequest(p)  PROVE Ends(p) /\ StoreTypeOK'
  <2> DEFINE r == <<l.att, NextSequence(l.view)>>
             new == [l EXCEPT !.cur = r, !.view = Idle.view]
  <2>1. CASE UNCHANGED rows /\ Pause(p)
    BY <1>2, <2>1 DEF Ends, StoreTypeOK, TypeInv, TypeOK
  <2>2. CASE r \in Requests /\ rows' = [rows EXCEPT ![r] = ReservedRow] /\ Continue(p, "intent", new)
    <3>1. Idle.view \in [Requests -> Rows]
      BY IdleType DEF Locals
    <3>2. new \in Locals /\ new.cur \in Requests /\ new.att = l.att /\ new.todo = l.todo
      BY <1>1, <2>2, <3>1 DEF Locals
    <3>3. Well("intent", new)
      BY <1>1, <1>4, <3>2 DEF Well, PlaceOK, TodoOK, Active, InLoop
    <3>4. StoreTypeOK'
      BY <1>2, <2>2 DEF StoreTypeOK, TypeInv, TypeOK, Rows, ReservedRow
    <3> QED
      BY <2>2, <3>3, <3>4, GoOn
  <2> QED
    BY <1>5, <2>1, <2>2 DEF ReserveRequest
<1>6. ASSUME PreCheck(p) \/ CheckAgain(p) \/ Send(p)  PROVE Ends(p) /\ StoreTypeOK'
  <2>1. PICK place \in {"reserve", "send", "await"} :
          /\ Pause(p) \/ Continue(p, place, l)
          /\ place # "reserve" => pc[p] \in Busy
    BY <1>6 DEF PreCheck, CheckAgain, Send, Busy, Unsent
  <2>2. Ends(p)
    BY <1>1, <1>2, <1>3, <2>1, KeepGoing DEF Ends, Active, PreLoop, InLoop, Busy, Unsent
  <2> QED
    BY <1>6, <2>2 DEF PreCheck, CheckAgain, Send, storeVars, StoreTypeOK, TypeInv, TypeOK
<1>7. ASSUME AbandonUnrecorded(p) \/ AbandonCancelled(p)  PROVE Ends(p) /\ StoreTypeOK'
  <2>1. Pause(p) \/ Settle(p, l, "failed")
    BY <1>7 DEF AbandonUnrecorded, AbandonCancelled
  <2>2. PICK flag \in BOOLEAN : Abandon(l.cur, flag)
    BY <1>7 DEF AbandonUnrecorded, AbandonCancelled
  <2>3. Ends(p)
    BY <1>1, <1>4, <2>1, SettleEnds DEF Ends, Terminal
  <2>4. StoreTypeOK'
    BY <1>2, <2>2, RowTypes DEF Abandon, StoreTypeOK, TypeInv, TypeOK, Charge
  <2> QED
    BY <2>3, <2>4
<1>8. sent' \subseteq Requests /\ bill' \in [Requests -> Nat]
  <2>1. CASE Send(p)
    <3>1. l.cur \in Requests
      BY <1>1, <2>1 DEF PlaceOK, Send, Busy, Unsent
    <3> QED
      BY <2>1, <3>1, ExecutorAssumption DEF Send, TypeInv, TypeOK
  <2>2. CASE ~Send(p)
    BY <2>2 DEF PreCheck, ReserveRequest, AbandonUnrecorded, CheckAgain, AbandonCancelled,
                Provider, TypeInv, TypeOK
  <2> QED
    BY <2>1, <2>2
<1> QED
  BY <1>2, <1>5, <1>6, <1>7, <1>8, TypeFrame DEF TypeInv, TypeOK

LEMMA LedgerTypes ==
  ASSUME TypeInv, NEW p \in Procs,
         AppendIntent(p) \/ RefuseSend(p) \/ AppendCancelled(p) \/ AppendOutcome(p)
  PROVE  TypeInv'
<1> DEFINE l == loc[p]
<1>1. l \in Locals /\ PlaceOK(pc[p], l, attempts)
  BY DEF TypeInv, TypeOK, LocalsOK
<1>2. /\ StoreTypeOK' /\ sent' = sent /\ bill' = bill /\ Kept /\ attempts' = attempts
      /\ faults' \in 0 .. MaxFaults
  BY ExecutorAssumption
     DEF AppendIntent, RefuseSend, AppendCancelled, AppendOutcome, storeVars, Provider, Fault,
         StoreTypeOK, TypeInv, TypeOK, Kept
<1>3. pc[p] \in {"intent", "check", "cancel", "outcome"} /\ l.cur \in Requests
  BY <1>1 DEF AppendIntent, RefuseSend, AppendCancelled, AppendOutcome, PlaceOK, Busy, Unsent
<1>4. attempts'[l.att] # "absent"
  BY <1>1, <1>2, <1>3 DEF PlaceOK, Active, InLoop
<1>5. PICK place \in {"check", "abandon", "cancel", "cancelled", "record"},
           new \in {l, [l EXCEPT !.acctFailed = TRUE]} : Pause(p) \/ Continue(p, place, new)
  BY DEF AppendIntent, RefuseSend, AppendCancelled, AppendOutcome
<1>6. new \in Locals /\ new.att = l.att /\ new.cur = l.cur /\ new.todo = l.todo
  BY <1>1 DEF Locals
<1>7. Well(place, new)
  BY <1>1, <1>3, <1>4, <1>6 DEF Well, PlaceOK, TodoOK, Active, InLoop
<1>8. Ends(p)
  BY <1>5, <1>7, GoOn DEF Ends
<1>9. Intent(l.cur) \in Receipts /\ Cancelled(l.cur) \in Receipts
      /\ Outcome(l.cur, ExchangeStatus(l), l.charge) \in Receipts
  BY <1>1, <1>3, ReceiptTypes DEF ExchangeStatus, Locals
<1>10. LedgerTypeOK'
  BY <1>9, AppendEffect DEF AppendIntent, RefuseSend, AppendCancelled, AppendOutcome, ledgerVars,
                            LedgerTypeOK, TypeInv, TypeOK
<1> QED
  BY <1>2, <1>8, <1>10, TypeFrame DEF TypeInv, TypeOK

LEMMA OutcomeTypes ==
  ASSUME TypeInv, NEW p \in Procs, Receive(p) \/ RecordOutcome(p) \/ ReadOutcome(p)
  PROVE  TypeInv'
<1> DEFINE l == loc[p]
<1>1. l \in Locals /\ PlaceOK(pc[p], l, attempts)
  BY DEF TypeInv, TypeOK, LocalsOK
<1>2. /\ LedgerTypeOK' /\ sent' = sent /\ bill' = bill /\ Kept /\ attempts' = attempts
      /\ faults' = faults
  BY DEF Receive, RecordOutcome, ReadOutcome, storeVars, ledgerVars, Provider, LedgerTypeOK,
         TypeInv, TypeOK, Kept
<1>3. attempts'[l.att] # "absent"
  BY <1>1, <1>2 DEF Receive, RecordOutcome, ReadOutcome, PlaceOK, Active, InLoop
<1>4. ASSUME Receive(p)  PROVE Ends(p) /\ StoreTypeOK'
  <2>1. PICK kind \in ReplyKinds, c \in {Unknown, bill[l.cur]} :
          Continue(p, "outcome", [l EXCEPT !.reply = kind, !.charge = c])
    BY <1>4 DEF Receive
  <2> DEFINE new == [l EXCEPT !.reply = kind, !.charge = c]
  <2>5. l.cur \in Requests
    BY <1>1, <1>4 DEF Receive, PlaceOK, Busy
  <2>6. bill[l.cur] \in Nat
    BY <2>5 DEF TypeInv, TypeOK
  <2>2. l.cur \in Requests /\ c \in Charge
    BY <2>1, <2>5, <2>6 DEF Charge
  <2>3. new \in Locals /\ new.att = l.att /\ new.cur = l.cur /\ new.todo = l.todo
    BY <1>1, <2>2 DEF Locals
  <2>4. Well("outcome", new)
    BY <1>1, <1>3, <2>2, <2>3 DEF Well, PlaceOK, TodoOK, Active, InLoop
  <2> QED
    BY <1>4, <2>1, <2>4, GoOn DEF Receive, storeVars, StoreTypeOK, TypeInv, TypeOK
<1>5. ASSUME RecordOutcome(p)  PROVE Ends(p) /\ StoreTypeOK'
  <2> DEFINE new == [l EXCEPT !.cur = NoRequest, !.reply = "none", !.charge = Unknown]
  <2>1. Pause(p) \/ Continue(p, "after", new)
    BY <1>5 DEF RecordOutcome
  <2>2. new \in Locals /\ new.att = l.att /\ new.todo = l.todo
    BY <1>1 DEF Locals, Charge
  <2>3. Well("after", new)
    BY <1>1, <1>3, <2>2 DEF Well, PlaceOK, TodoOK, Active, InLoop, Busy, Unsent
  <2>4. ExchangeStatus(l) \in {"responded", "no_response"} /\ l.charge \in Charge
        /\ l.reply \in ReplyKinds \cup {"none"}
    BY <1>1 DEF ExchangeStatus, Locals
  <2>5. StoreTypeOK'
    BY <1>2, <1>5, <2>4, RowTypes DEF RecordOutcome, Record, StoreTypeOK, TypeInv, TypeOK
  <2>6. Ends(p)
    BY <2>1, <2>3, GoOn DEF Ends
  <2> QED
    BY <2>5, <2>6
<1>6. ASSUME ReadOutcome(p)  PROVE Ends(p) /\ StoreTypeOK'
  <2> DEFINE new == [l EXCEPT !.view = RowsOf(l.att)]
  <2>1. RowsOf(l.att) \in [Requests -> Rows]
    BY <1>1, ViewType DEF Locals, TypeInv, TypeOK
  <2>2. new \in Locals /\ new.att = l.att
    BY <1>1, <2>1 DEF Locals
  <2>3. \A r \in Requests : Conclude(new.view[r]) \in Terminal \cup {"pending"}
    BY <2>2, ConcludeType DEF Locals
  <2>4. Pause(p) \/ (\E verdict \in Terminal : Settle(p, new, verdict)) \/ Loop(p, new)
    <3> HIDE DEF l
    <3>1. PICK last \in LastOf(RecordedOf(new.view)) :
            \/ Pause(p)
            \/ /\ Conclude(new.view[last]) # "pending"
               /\ Settle(p, new, Conclude(new.view[last]))
            \/ Loop(p, new)
      BY <1>6 DEF ReadOutcome, l
    <3>2. last \in Requests
      BY <3>1 DEF LastOf, RecordedOf
    <3> QED
      BY <2>3, <3>1, <3>2
  <2>5. Ends(p)
    BY <1>3, <2>2, <2>4, SettleEnds, LoopEnds DEF Ends
  <2> QED
    BY <1>6, <2>5 DEF ReadOutcome, storeVars, StoreTypeOK, TypeInv, TypeOK
<1> QED
  BY <1>2, <1>4, <1>5, <1>6, TypeFrame DEF TypeInv, TypeOK
LEMMA FinishType ==
  ASSUME TypeInv, NEW p \in Procs, Finish(p)
  PROVE  TypeInv'
<1> DEFINE l == loc[p]
<1>1. l.att \in Attempts /\ PlaceOK(pc[p], l, attempts)
  BY DEF TypeInv, TypeOK, Locals, LocalsOK
<1>2. attempts[l.att] \in Terminal \cup {"pending"} /\ l.goal \in Terminal
  BY <1>1 DEF Finish, PlaceOK, Active, InLoop, StoreTypeOK, TypeInv, TypeOK
<1>3. FinishedStatus(attempts[l.att], l.goal) \in Terminal
  BY <1>2 DEF FinishedStatus
<1>4. attempts' \in {attempts, [attempts EXCEPT ![l.att] = FinishedStatus(@, l.goal)]}
  BY DEF Finish, FinishAttempt
<1>5. StoreTypeOK' /\ Kept
  BY <1>1, <1>3, <1>4 DEF Finish, StoreTypeOK, TypeInv, TypeOK, Kept, Terminal
<1>6. Ends(p)
  BY <1>3 DEF Finish, Ends
<1>7. /\ LedgerTypeOK' /\ sent' = sent /\ bill' = bill /\ faults' \in 0 .. MaxFaults
  BY ExecutorAssumption DEF Finish, Fault, ledgerVars, Provider, LedgerTypeOK, TypeInv, TypeOK
<1> QED
  BY <1>5, <1>6, <1>7, TypeFrame DEF TypeInv, TypeOK

LEMMA CallTypes ==
  ASSUME TypeInv, NEW p \in Procs,
         (\E a \in Attempts, d \in BOOLEAN : Start(p, a, d)) \/ Stop(p) \/ LoseLock(p)
  PROVE  TypeInv'
<1>1. CASE \E a \in Attempts, d \in BOOLEAN : Start(p, a, d)
  <2>1. PICK a \in Attempts, d \in BOOLEAN : Start(p, a, d)
    BY <1>1
  <2> DEFINE l == [Idle EXCEPT !.att = a, !.dispatch = d]
  <2>2. l \in Locals /\ l.todo = {}
    BY IdleType DEF Locals, Idle
  <2>3. PlaceOK("read", l, attempts)
    BY <2>2 DEF PlaceOK, TodoOK, Busy, Unsent
  <2>4. \A q \in Procs : /\ q = p => pc'[q] = "read" /\ loc'[q] = l
                         /\ q # p => pc'[q] = pc[q] /\ loc'[q] = loc[q]
    BY <2>1 DEF Start, Goto, Local, TypeInv, TypeOK
  <2>5. LocalsOK'
    BY <2>1, <2>3, <2>4 DEF LocalsOK, TypeInv, Start, storeVars
  <2>6. TypeOK'
    BY <2>1, <2>2 DEF Start, Goto, Local, TypeInv, TypeOK, StoreTypeOK, LedgerTypeOK, storeVars,
                      ledgerVars, Provider, Active, PreLoop
  <2> QED
    BY <2>5, <2>6 DEF TypeInv
<1>2. CASE Stop(p)
  BY <1>2, TypeFrame, ExecutorAssumption
     DEF Stop, Ends, Fault, storeVars, ledgerVars, Provider, StoreTypeOK, LedgerTypeOK, TypeInv,
         TypeOK, Kept
<1>3. CASE LoseLock(p)
  BY <1>3, ExecutorAssumption
     DEF LoseLock, Fault, storeVars, ledgerVars, Provider, StoreTypeOK, LedgerTypeOK, TypeInv,
         TypeOK, LocalsOK
<1> QED
  BY <1>1, <1>2, <1>3

LEMMA TypeInit == Init => TypeInv
<1> SUFFICES ASSUME Init  PROVE TypeInv
  OBVIOUS
<1>1. PlaceOK("idle", Idle, attempts)
  BY DEF PlaceOK, TodoOK, Idle, Active, PreLoop, InLoop, Busy, Unsent
<1>2. LocalsOK
  BY <1>1 DEF LocalsOK, Init
<1>3. StoreTypeOK /\ LedgerTypeOK
  <2>1. NoRow \in Rows
    BY DEF NoRow, Rows
  <2> QED
    BY <2>1 DEF Init, StoreInit, LedgerInit, StoreTypeOK, LedgerTypeOK
<1>4. faults \in 0 .. MaxFaults
  BY ExecutorAssumption DEF Init
<1> QED
  BY <1>2, <1>3, <1>4, IdleType DEF Init, TypeInv, TypeOK

LEMMA TypeStep == TypeInv /\ [Next]_vars => TypeInv'
<1> SUFFICES ASSUME TypeInv, [Next]_vars  PROVE TypeInv'
  OBVIOUS
<1>1. CASE UNCHANGED vars
  <2>1. LocalsOK'
    BY <1>1 DEF vars, TypeInv, LocalsOK
  <2> QED
    BY <1>1, <2>1 DEF vars, TypeInv, TypeOK, StoreTypeOK, LedgerTypeOK
<1>2. ASSUME NEW p \in Procs, Recover(p)  PROVE TypeInv'
  BY <1>2, ReadTypes, ReconcileType, RestoreType, ResumeTypes, OpenTypes DEF Recover
<1>3. ASSUME NEW p \in Procs, DispatchLoop(p)  PROVE TypeInv'
  BY <1>3, DispatchTypes, LedgerTypes, OutcomeTypes, FinishType DEF DispatchLoop
<1> QED
  BY <1>1, <1>2, <1>3, CallTypes DEF Next, Step

(* Every variable of the executor keeps its type, whatever the processes   *)
(* and faults do; in particular a terminal write never meets an attempt    *)
(* that does not exist, and no receipt or row has an impossible charge.    *)
THEOREM ExecutorTypes == Spec => []TypeOK
<1>1. TypeInv => TypeOK
  BY DEF TypeInv
<1> QED
  BY <1>1, TypeInit, TypeStep, PTL DEF Spec
-----------------------------------------------------------------------------
(* Nothing is sent without its intent in the ledger. *)

(* What a step of p does to the calls: the others' are left alone, and a   *)
(* quiet step leaves p without an unsent request.                          *)
Others(p) == \A q \in Procs : q # p => pc'[q] = pc[q] /\ loc'[q] = loc[q]
Quiet(p) == \/ Pause(p)
            \/ \E status : Return(p, status)
            \/ \E place, l : place \notin Unsent /\ Continue(p, place, l)
RowsKept == \A r \in Requests : rows[r].status # "none" => rows'[r].status # "none"

LEMMA ContinueEffect ==
  ASSUME TypeInv, NEW p \in Procs, NEW place, NEW l, Continue(p, place, l)
  PROVE  Others(p) /\ pc'[p] = place /\ loc'[p] = l /\ owner' = owner
BY DEF Continue, Goto, Local, Others, TypeInv, TypeOK

LEMMA LeaveEffect ==
  ASSUME TypeInv, NEW p \in Procs, Leave(p)
  PROVE  Others(p) /\ pc'[p] = "idle" /\ loc'[p] = Idle
         /\ owner' = IF owner = p THEN NoProc ELSE owner
BY DEF Leave, Others, TypeInv, TypeOK

LEMMA QuietEffect ==
  ASSUME TypeInv, NEW p \in Procs, Quiet(p)
  PROVE  Others(p) /\ pc'[p] \notin Unsent
<1>1. CASE Leave(p)
  BY <1>1, LeaveEffect DEF Unsent
<1>2. CASE \E place, l : place \notin Unsent /\ Continue(p, place, l)
  BY <1>2, ContinueEffect
<1> QED
  BY <1>1, <1>2 DEF Quiet, Pause, Return

LEMMA LoopQuiet ==
  ASSUME NEW p \in Procs, NEW l, Loop(p, l) \/ \E verdict : Settle(p, l, verdict)
  PROVE  Quiet(p)
BY DEF Loop, Dispatch, Settle, Quiet, Unsent

(* A quiet step that sends nothing, loses no row and writes no             *)
(* cancellation keeps the invariant.                                       *)
LEMMA QuietSend ==
  ASSUME SendInv, TypeInv', NEW p \in Procs, Others(p), pc'[p] \notin Unsent, sent' = sent,
         RowsKept,
         ledger \subseteq ledger', \A r \in Requests : Cancelled(r) \in ledger' => Cancelled(r) \in ledger
  PROVE  SendInv'
<1> USE DEF SendInv
<1>2. \A q \in Procs : pc[q] \in Unsent => loc[q].cur \in Requests
  BY DEF TypeInv, LocalsOK, PlaceOK, Busy
<1>3. \A q \in Procs : pc'[q] \in Unsent =>
          q # p /\ pc[q] \in Unsent /\ pc'[q] = pc[q] /\ loc'[q] = loc[q] /\ loc[q].cur \in Requests
  BY <1>2 DEF Others
<1>4. CurOwned'
  BY <1>3 DEF CurOwned, RowsKept
<1>5. Recorded'
  <2>1. \A q \in Procs : pc'[q] \in {"intent", "check", "send"} => pc'[q] \in Unsent
    BY DEF Unsent
  <2> QED
    BY <1>3, <2>1 DEF Recorded, Intent, Cancelled
<1>6. Rowed' /\ SendsAreRecorded'
  BY DEF Rowed, SendsAreRecorded, RowsKept, Intent, Cancelled, TypeInv, TypeOK
<1> QED
  BY <1>4, <1>5, <1>6

LEMMA RowsKeptBy ==
  ASSUME TypeInv,
         \/ rows' = rows
         \/ \E r, flag : Abandon(r, flag)
         \/ \E r, c : Reconcile(r, c)
         \/ \E r, c, reply : \E status \in {"responded", "no_response"} : Record(r, status, c, reply)
  PROVE  RowsKept
<1>1. rows \in [Requests -> Rows]
  BY DEF TypeInv, TypeOK, StoreTypeOK
<1>2. CASE \E r, flag : Abandon(r, flag)
  BY <1>1, <1>2, RowStatus DEF Abandon, RowsKept
<1>3. CASE \E r, c : Reconcile(r, c)
  BY <1>1, <1>3, RowStatus DEF Reconcile, RowsKept
<1>4. CASE \E r, c, reply : \E status \in {"responded", "no_response"} : Record(r, status, c, reply)
  BY <1>1, <1>4, RowStatus DEF Record, RowsKept
<1> QED
  BY <1>2, <1>3, <1>4 DEF RowsKept

(* A kept ledger, or one with an outcome receipt more, has no new          *)
(* cancellation.                                                           *)
LEMMA OutcomeAppended ==
  ASSUME NEW e, e.type = "request_outcome", Append(e) \/ AppendRefused \/ AppendFaulted(e)
  PROVE  /\ ledger \subseteq ledger'
         /\ \A r \in Requests : Cancelled(r) \in ledger' => Cancelled(r) \in ledger
BY DEF Append, AppendRefused, AppendFaulted, ledgerVars, Cancelled
(* The steps that write at most outcome receipts and leave no unsent       *)
(* request with the process are quiet.                                     *)
QuietSteps(p) ==
  \/ Recover(p) \/ PreCheck(p) \/ AbandonUnrecorded(p) \/ AbandonCancelled(p) \/ Receive(p)
  \/ AppendOutcome(p) \/ RecordOutcome(p) \/ ReadOutcome(p) \/ Finish(p) \/ Stop(p)

LEMMA RecoverQuiet ==
  ASSUME TypeInv, NEW p \in Procs, Recover(p)
  PROVE  Quiet(p) /\ RowsKept
<1>1. ASSUME ReadAttempt(p) \/ CreateAttempt(p) \/ ReadReceipts(p) \/ ReadAgain(p) \/
             ReturnSaved(p)
             \/ HonourCancellation(p) \/ BeginSettling(p) \/ EndSettling(p)
      PROVE  Quiet(p) /\ rows' = rows
  BY <1>1, LoopQuiet DEF ReadAttempt, CreateAttempt, ReadReceipts, ReadAgain, ReturnSaved,
     HonourCancellation, BeginSettling, EndSettling, Quiet, Unsent, storeVars
<1>2. ASSUME RestoreReceipt(p)  PROVE Quiet(p) /\ rows' = rows
  BY <1>2 DEF RestoreReceipt, Quiet, Unsent, storeVars
<1>3. ASSUME ReconcileLate(p)
      PROVE  Quiet(p) /\ \E r, c : Reconcile(r, c)
  BY <1>3 DEF ReconcileLate, Quiet, Unsent
<1>4. ASSUME AbandonUnsent(p)
      PROVE  Quiet(p) /\ \E r, flag : Abandon(r, flag)
  BY <1>4 DEF AbandonUnsent, Quiet, Unsent
<1>5. ASSUME ImportOutcome(p)
      PROVE  Quiet(p) /\ RowsKept
  <2>1. PICK r \in Requests, e \in loc[p].recs :
          /\ e.type = "request_outcome"
          /\ Record(r, e.outcome, e.charge, "none")
          /\ Pause(p) \/ \E verdict : Settle(p, loc[p], verdict)
    BY <1>5 DEF ImportOutcome, FirstOpen, OpenOf
  <2>2. e.outcome \in {"responded", "no_response"}
    BY <2>1 DEF TypeInv, TypeOK, Locals, Receipts
  <2>3. RowsKept
    BY <2>1, <2>2, RowsKeptBy
  <2> QED
    BY <2>1, <2>3, LoopQuiet DEF Quiet
<1>6. ASSUME MarkUncertain(p)
      PROVE  Quiet(p) /\ \E r : Record(r, "no_response", Unknown, "none")
  BY <1>6, LoopQuiet DEF MarkUncertain
<1> QED
  BY <1>1, <1>2, <1>3, <1>4, <1>5, <1>6, RowsKeptBy DEF Recover

LEMMA DispatchQuiet ==
  ASSUME TypeInv, NEW p \in Procs, QuietSteps(p), ~Recover(p)
  PROVE  Quiet(p) /\ RowsKept
<1>1. ASSUME PreCheck(p) \/ Receive(p) \/ AppendOutcome(p) \/ ReadOutcome(p) \/ Finish(p) \/
             Stop(p)
      PROVE  Quiet(p) /\ rows' = rows
  <2>1. CASE PreCheck(p) \/ Receive(p)
    BY <2>1 DEF PreCheck, Receive, Quiet, Unsent, storeVars
  <2>2. CASE AppendOutcome(p)
    BY <2>2 DEF AppendOutcome, Quiet, Unsent, storeVars
  <2>3. CASE ReadOutcome(p)
    BY <2>3, LoopQuiet DEF ReadOutcome, Quiet, storeVars
  <2>4. CASE Finish(p) \/ Stop(p)
    BY <2>4 DEF Finish, Stop, Quiet, storeVars
  <2> QED
    BY <1>1, <2>1, <2>2, <2>3, <2>4
<1>2. ASSUME AbandonUnrecorded(p) \/ AbandonCancelled(p)
      PROVE  Quiet(p) /\ \E r, flag : Abandon(r, flag)
  BY <1>2, LoopQuiet DEF AbandonUnrecorded, AbandonCancelled, Quiet
<1>3. ASSUME RecordOutcome(p)
      PROVE  Quiet(p) /\ RowsKept
  <2>1. Record(loc[p].cur, ExchangeStatus(loc[p]), loc[p].charge, loc[p].reply)
    BY <1>3 DEF RecordOutcome
  <2>2. ExchangeStatus(loc[p]) \in {"responded", "no_response"}
    BY DEF ExchangeStatus
  <2> QED
    BY <1>3, <2>1, <2>2, RowsKeptBy DEF RecordOutcome, Quiet, Unsent
<1> QED
  BY <1>1, <1>2, <1>3, RowsKeptBy DEF QuietSteps

LEMMA QuietLedger ==
  ASSUME TypeInv, NEW p \in Procs, QuietSteps(p)
  PROVE  /\ sent' = sent /\ ledger \subseteq ledger'
         /\ \A r \in Requests : Cancelled(r) \in ledger' => Cancelled(r) \in ledger
<1>1. CASE RestoreReceipt(p)
  <2>1. PICK e \in loc[p].todo : Append(e) \/ AppendRefused \/ AppendFaulted(e)
    BY <1>1 DEF RestoreReceipt
  <2>2. e.type = "request_outcome"
    BY <2>1 DEF TypeInv, LocalsOK, PlaceOK, TodoOK
  <2> QED
    BY <1>1, <2>1, <2>2, OutcomeAppended DEF RestoreReceipt, Provider
<1>2. CASE AppendOutcome(p)
  <2>1. \E e : e.type = "request_outcome" /\ (Append(e) \/ AppendRefused \/ AppendFaulted(e))
    BY <1>2 DEF AppendOutcome, Outcome
  <2> QED
    BY <1>2, <2>1, OutcomeAppended DEF AppendOutcome, Provider
<1>3. CASE ~RestoreReceipt(p) /\ ~AppendOutcome(p)
  <2>1. ledger' = ledger /\ sent' = sent
    BY <1>3 DEF QuietSteps, Recover, ReadAttempt, CreateAttempt, ReadReceipts, ReadAgain,
       ReconcileLate, ReturnSaved, HonourCancellation, BeginSettling, EndSettling, AbandonUnsent,
       ImportOutcome, MarkUncertain, PreCheck, AbandonUnrecorded, AbandonCancelled, Receive,
       RecordOutcome, ReadOutcome, Finish, Stop, ledgerVars, Provider
  <2> QED
    BY <2>1
<1> QED
  BY <1>1, <1>2, <1>3
(* The other steps: the request is reserved, its receipts are written, it  *)
(* is sent.                                                                *)
LEMMA StartSend ==
  ASSUME SendInv, TypeInv', NEW p \in Procs, NEW a, NEW d, Start(p, a, d)
  PROVE  SendInv'
<1>1. Others(p) /\ pc'[p] = "read"
  BY DEF Start, Goto, Local, Others, SendInv, TypeInv, TypeOK
<1>2. sent' = sent /\ ledger' = ledger /\ RowsKept
  BY DEF Start, storeVars, ledgerVars, Provider, RowsKept
<1>3. "read" \notin Unsent
  BY DEF Unsent
<1> QED
  BY <1>1, <1>2, <1>3, QuietSend

LEMMA ReserveSend ==
  ASSUME SendInv, TypeInv', NEW p \in Procs, ReserveRequest(p)
  PROVE  SendInv'
<1> USE DEF SendInv
<1> DEFINE r == <<loc[p].att, NextSequence(loc[p].view)>>
           new == [loc[p] EXCEPT !.cur = r, !.view = Idle.view]
<1>1. sent' = sent /\ ledger' = ledger
  BY DEF ReserveRequest, ledgerVars, Provider
<1>2. CASE UNCHANGED rows /\ Pause(p)
  <2>1. Quiet(p) /\ RowsKept
    BY <1>2 DEF Quiet, RowsKept
  <2> QED
    BY <1>1, <2>1, QuietEffect, QuietSend
<1>3. CASE /\ r \in Requests /\ rows[r] = NoRow /\ rows' = [rows EXCEPT ![r] = ReservedRow]
           /\ Continue(p, "intent", new)
  <2> HIDE DEF r
  <2>1. Others(p) /\ pc'[p] = "intent" /\ loc'[p].cur = r
    <3>1. Others(p) /\ pc'[p] = "intent" /\ loc'[p] = new
      BY <1>3, ContinueEffect
    <3>2. loc[p] \in Locals
      BY DEF TypeInv, TypeOK
    <3> QED
      BY <3>1, <3>2 DEF Locals
  <2>2. \A q \in Requests : /\ q = r => rows'[q].status = "reserved"
                            /\ q # r => rows'[q] = rows[q]
    BY <1>3 DEF ReservedRow, TypeInv, TypeOK, StoreTypeOK
  <2>3. rows[r].status = "none"
    BY <1>3 DEF NoRow
  <2>4. r \notin sent /\ Cancelled(r) \notin ledger
    BY <1>3, <2>3 DEF Rowed
  <2>5. \A q \in Procs : q # p /\ pc'[q] \in Unsent =>
            pc'[q] = pc[q] /\ loc'[q] = loc[q] /\ loc[q].cur \in Requests /\ loc[q].cur # r
    <3>1. \A q \in Procs : q # p /\ pc'[q] \in Unsent =>
            pc'[q] = pc[q] /\ loc'[q] = loc[q] /\ pc[q] \in Unsent
      BY <2>1 DEF Others
    <3>2. \A q \in Procs : pc[q] \in Unsent => loc[q].cur \in Requests /\ loc[q].cur # r
      BY <2>3 DEF CurOwned, TypeInv, LocalsOK, PlaceOK, Busy
    <3> QED
      BY <3>1, <3>2
  <2>6. CurOwned'
    BY <1>1, <1>3, <2>1, <2>2, <2>4, <2>5 DEF CurOwned
  <2>7. Recorded'
    <3>3. \A q \in Procs : pc'[q] \in {"intent", "check", "send"} => pc'[q] \in Unsent
      BY DEF Unsent
    <3>4. \A q \in Procs : q # p => /\ pc'[q] \in {"check", "send"} => Intent(loc'[q].cur) \in ledger'
                                    /\ pc'[q] \in {"intent", "check", "send"} =>
                                          Cancelled(loc'[q].cur) \notin ledger'
      BY <1>1, <2>5, <3>3 DEF Recorded
    <3>6. /\ pc'[p] \in {"check", "send"} => Intent(loc'[p].cur) \in ledger'
          /\ pc'[p] \in {"intent", "check", "send"} => Cancelled(loc'[p].cur) \notin ledger'
      BY <1>1, <2>1, <2>4
    <3> HIDE DEF new, SendInv
    <3>7. \A q \in Procs : /\ pc'[q] \in {"check", "send"} => Intent(loc'[q].cur) \in ledger'
                           /\ pc'[q] \in {"intent", "check", "send"} =>
                                Cancelled(loc'[q].cur) \notin ledger'
      BY <3>4, <3>6
    <3> QED
      BY <3>7 DEF Recorded, Intent, Cancelled
  <2>8. Rowed' /\ SendsAreRecorded'
    BY <1>1, <1>3, <2>2 DEF Rowed, SendsAreRecorded, Intent, Cancelled, TypeInv, TypeOK
  <2> QED
    BY <2>6, <2>7, <2>8
<1> QED
  BY <1>2, <1>3 DEF ReserveRequest

LEMMA CheckSend ==
  ASSUME SendInv, TypeInv', NEW p \in Procs,
         AppendIntent(p) \/ CheckAgain(p) \/ RefuseSend(p) \/ AppendCancelled(p)
  PROVE  SendInv'
<1> USE DEF SendInv
<1> DEFINE r == loc[p].cur
<1>1. pc[p] \in {"intent", "check", "cancel"} /\ pc[p] \in Unsent /\ r \in Requests
  BY DEF AppendIntent, CheckAgain, RefuseSend, AppendCancelled, TypeInv, LocalsOK, PlaceOK, Busy,
       Unsent
<1>2. rows' = rows /\ sent' = sent
  BY DEF AppendIntent, CheckAgain, RefuseSend, AppendCancelled, storeVars, Provider
<1>3. /\ Others(p)
      /\ \/ pc'[p] \notin Unsent
         \/ pc'[p] \in {"check", "abandon", "send", "cancel"} /\ loc'[p] = loc[p]
  <2>1. CASE Quiet(p)
    BY <2>1, QuietEffect
  <2>2. CASE \E place \in {"check", "abandon", "send", "cancel"} : Continue(p, place, loc[p])
    BY <2>2, ContinueEffect
  <2> QED
    BY <2>1, <2>2 DEF AppendIntent, CheckAgain, RefuseSend, AppendCancelled, Quiet, Unsent
<1>4. ledger \subseteq ledger'
  BY DEF AppendIntent, CheckAgain, RefuseSend, AppendCancelled, Append, AppendRefused,
         AppendFaulted, ledgerVars
<1>5. \A q \in Requests : q # r /\ Cancelled(q) \in ledger' => Cancelled(q) \in ledger
  BY DEF AppendIntent, CheckAgain, RefuseSend, AppendCancelled, Append, AppendRefused,
         AppendFaulted, ledgerVars, Intent, Cancelled
<1>6. pc'[p] \in {"check", "send"} => Intent(r) \in ledger' /\ ledger' \subseteq ledger \cup {Intent(r)}
                                     /\ Cancelled(r) \notin ledger
  <2>1. CASE AppendIntent(p)
    BY <1>1, <2>1, ContinueEffect DEF AppendIntent, Append, Recorded
  <2>2. CASE CheckAgain(p)
    BY <1>1, <2>2, ContinueEffect DEF CheckAgain, ledgerVars, Recorded
  <2>3. CASE RefuseSend(p)
    BY <2>3, ContinueEffect DEF RefuseSend
  <2>4. CASE AppendCancelled(p)
    BY <2>4, ContinueEffect, LeaveEffect DEF AppendCancelled, Pause
  <2> QED
    BY <2>1, <2>2, <2>3, <2>4
<1>7. \A q \in Procs : q # p /\ pc'[q] \in Unsent =>
          /\ pc'[q] = pc[q] /\ loc'[q] = loc[q] /\ loc[q].cur \in Requests /\ loc[q].cur # r
  BY <1>1, <1>3 DEF Others, CurOwned, TypeInv, LocalsOK, PlaceOK, Busy
<1>8. CurOwned'
  BY <1>1, <1>2, <1>3, <1>7 DEF CurOwned
<1>9. Recorded'
  <2>1. \A q \in Procs : pc'[q] \in {"intent", "check", "send"} => pc'[q] \in Unsent
    BY DEF Unsent
  <2>2. \A q \in Procs : q # p =>
          /\ pc'[q] \in {"check", "send"} => Intent(loc'[q].cur) \in ledger'
          /\ pc'[q] \in {"intent", "check", "send"} => Cancelled(loc'[q].cur) \notin ledger'
    BY <1>4, <1>5, <1>7, <2>1 DEF Recorded
  <2>3. /\ pc'[p] \in {"check", "send"} => Intent(loc'[p].cur) \in ledger'
        /\ pc'[p] \in {"intent", "check", "send"} => Cancelled(loc'[p].cur) \notin ledger'
    BY <1>3, <1>6, <2>1 DEF Intent, Cancelled
  <2>4. \A q \in Procs : Intent(loc[q].cur)' = Intent(loc'[q].cur)
                         /\ Cancelled(loc[q].cur)' = Cancelled(loc'[q].cur)
    BY DEF Intent, Cancelled
  <2> QED
    BY <2>2, <2>3, <2>4 DEF Recorded
<1>10. Rowed'
  BY <1>1, <1>2, <1>5 DEF Rowed, CurOwned, Cancelled
<1>11. SendsAreRecorded'
  BY <1>1, <1>2, <1>4, <1>5 DEF SendsAreRecorded, CurOwned, Intent, Cancelled, TypeInv, TypeOK
<1> QED
  BY <1>8, <1>9, <1>10, <1>11

LEMMA SendSend ==
  ASSUME SendInv, TypeInv', NEW p \in Procs, Send(p)
  PROVE  SendInv'
<1> USE DEF SendInv
<1> DEFINE r == loc[p].cur
<1>1. pc[p] = "send" /\ sent' = sent \cup {r} /\ rows' = rows /\ ledger' = ledger
  BY DEF Send, storeVars, ledgerVars
<1>2. Others(p) /\ pc'[p] = "await"
  BY ContinueEffect DEF Send
<1>3. Intent(r) \in ledger /\ Cancelled(r) \notin ledger /\ rows[r].status # "none" /\ r \in Requests
  BY <1>1 DEF Recorded, CurOwned, TypeInv, LocalsOK, PlaceOK, Busy, Unsent
<1>4. \A q \in Procs : pc'[q] \in Unsent =>
          q # p /\ pc'[q] = pc[q] /\ loc'[q] = loc[q] /\ loc[q].cur # r
  BY <1>1, <1>2 DEF Others, CurOwned, Unsent
<1>5. CurOwned'
  BY <1>1, <1>4 DEF CurOwned
<1>6. Recorded'
  <2>1. \A q \in Procs : pc'[q] \in {"intent", "check", "send"} => pc'[q] \in Unsent
    BY DEF Unsent
  <2> QED
    BY <1>1, <1>4, <2>1 DEF Recorded, Intent, Cancelled
<1>7. Rowed' /\ SendsAreRecorded'
  BY <1>1, <1>3 DEF Rowed, SendsAreRecorded, Intent, Cancelled
<1> QED
  BY <1>5, <1>6, <1>7

LEMMA SendInit == Init => SendInv
<1> SUFFICES ASSUME Init  PROVE SendInv
  OBVIOUS
<1>1. TypeInv
  BY TypeInit
<1>2. \A p \in Procs : pc[p] = "idle"
  BY DEF Init
<1> QED
  BY <1>1, <1>2 DEF Init, StoreInit, LedgerInit, SendInv, CurOwned, Recorded, Rowed,
       SendsAreRecorded, Unsent

LEMMA SendStep == SendInv /\ [Next]_vars => SendInv'
<1> SUFFICES ASSUME SendInv, [Next]_vars  PROVE SendInv'
  OBVIOUS
<1>1. TypeInv /\ TypeInv'
  BY TypeStep DEF SendInv
<1>2. ASSUME attempts' = attempts, rows' = rows, ledger' = ledger, sent' = sent, pc' = pc, loc'
             = loc
      PROVE  SendInv'
  BY <1>1, <1>2 DEF SendInv, CurOwned, Recorded, Rowed, SendsAreRecorded, Intent, Cancelled
<1>3. ASSUME NEW p \in Procs, QuietSteps(p)  PROVE SendInv'
  <2>1. Quiet(p) /\ RowsKept
    BY <1>1, <1>3, RecoverQuiet, DispatchQuiet
  <2> QED
    BY <1>1, <1>3, <2>1, QuietEffect, QuietLedger, QuietSend
<1>4. ASSUME NEW p \in Procs, LoseLock(p)  PROVE SendInv'
  BY <1>2, <1>4 DEF LoseLock, storeVars, ledgerVars, Provider
<1>5. CASE UNCHANGED vars
  BY <1>2, <1>5 DEF vars
<1>6. ASSUME NEW p \in Procs, Step(p) \/ Stop(p)  PROVE SendInv'
  BY <1>1, <1>3, <1>6, ReserveSend, CheckSend, SendSend DEF Step, DispatchLoop, QuietSteps
<1> QED
  BY <1>1, <1>4, <1>5, <1>6, StartSend DEF Next

(* A request leaves a process only with its dispatch_intent durable, and a *)
(* durable dispatch_cancelled excludes that it ever leaves: wherever       *)
(* processes lose their lock, appends fail or calls are cut short.         *)
THEOREM IntentBeforeSend == Spec => []SendsAreRecorded
<1>1. SendInv => SendsAreRecorded
  BY DEF SendInv
<1> QED
  BY <1>1, SendInit, SendStep, PTL DEF Spec
-----------------------------------------------------------------------------
(* No released request is sent, unless a process loses its lock while it   *)
(* recovers.                                                               *)

(* The rows a step of p may abandon, and what it does to the lock.         *)
Dead(p, x) == /\ x \notin Gone
              /\ \A q \in Procs : q # p /\ pc[q] \in {"intent", "check"} /\ owner = q =>
                                    loc[q].cur # x
RowsAlive(p) ==
  \A x \in Requests : rows'[x].status = "abandoned" => rows[x].status = "abandoned" \/ Dead(p, x)
OwnerStep(p) == \/ owner' = owner
                \/ owner = p /\ owner' = NoProc
                \/ owner = NoProc /\ owner' = p

LEMMA KnowsMore ==
  ASSUME NEW place, NEW l, NEW led, NEW more, NEW gone, NEW fewer, Knows(place, l, led, gone),
         led \subseteq more, fewer \subseteq gone
  PROVE  Knows(place, l, more, fewer)
BY DEF Knows

LEMMA GoneShrinks ==
  ASSUME NEW p \in Procs, Others(p), pc'[p] # "send",
         sent' = sent \/ (pc[p] = "send" /\ sent' = sent \cup {loc[p].cur})
  PROVE  Gone' \subseteq Gone
BY DEF Others, Gone

(* Knows(pc', loc', ledger', Gone') is RecoveryKnows' for one process.     *)
LEMMA ReleaseFrame ==
  ASSUME ReleaseInv, SendInv', NEW p \in Procs, Others(p), OwnerStep(p), RowsAlive(p),
         ledger \subseteq ledger', Gone' \subseteq Gone,
         pc'[p] \in PreLoop => owner' = p,
         Knows(pc'[p], loc'[p], ledger', Gone'),
         pc'[p] \in {"intent", "check"} /\ owner' = p => rows'[loc'[p].cur].status # "abandoned",
         pc'[p] = "cancelled" => Cancelled(loc'[p].cur) \in ledger'
  PROVE  ReleaseInv'
<1> USE DEF ReleaseInv
<1>1. \A q \in Procs : q # p => /\ pc'[q] = pc[q] /\ loc'[q] = loc[q]
                                /\ owner = q <=> owner' = q
  BY ExecutorAssumption DEF Others, OwnerStep
<1>2. RecoveryOwns'
  BY <1>1 DEF RecoveryOwns
<1>3. RecoveryKnows'
  <2>1. \A q \in Procs : q # p => Knows(pc'[q], loc'[q], ledger', Gone')
    BY <1>1, KnowsMore DEF RecoveryKnows
  <2> QED
    BY <2>1 DEF RecoveryKnows
<1>4. Gone' \subseteq Requests
  <2>1. \A q \in Procs : pc[q] = "send" => loc[q].cur \in Requests
    BY DEF SendInv, TypeInv, LocalsOK, PlaceOK, Busy, Unsent
  <2> QED
    BY <2>1 DEF Gone, SendInv, TypeInv, TypeOK
<1>5. \A r \in Gone' : rows'[r].status # "abandoned"
  BY <1>4 DEF LiveRows, RowsAlive, Dead
<1>6. \A q \in Procs : q # p /\ pc'[q] \in {"intent", "check"} /\ owner' = q =>
                         rows'[loc'[q].cur].status # "abandoned"
  <2>1. \A q \in Procs : pc[q] \in {"intent", "check"} => loc[q].cur \in Requests
    BY DEF SendInv, TypeInv, LocalsOK, PlaceOK, Busy, Unsent
  <2> QED
    BY <1>1, <2>1 DEF LiveRows, RowsAlive, Dead
<1>7. \A q \in Procs : q # p /\ pc'[q] = "cancelled" => Cancelled(loc'[q].cur) \in ledger'
  BY <1>1 DEF LiveRows
<1>8. LiveRows'
  BY <1>5, <1>6, <1>7 DEF LiveRows, Cancelled
<1> QED
  BY <1>2, <1>3, <1>8

(* The ways a call ends leave locals that know nothing wrong.              *)
LEMMA IdleKnows == ASSUME NEW led, NEW gone
                   PROVE  Knows("idle", Idle, led, gone)
BY DEF Knows, Idle, NoRow

LEMMA EndKnows ==
  ASSUME TypeInv, NEW p \in Procs, NEW led, NEW gone,
         Pause(p) \/ (\E status : Return(p, status)) \/ (\E l, verdict : Settle(p, l, verdict))
  PROVE  /\ pc'[p] \in {"idle", "finish"} /\ Others(p) /\ OwnerStep(p)
         /\ Knows(pc'[p], loc'[p], led, gone)
<1>1. CASE Leave(p)
  BY <1>1, LeaveEffect, IdleKnows DEF OwnerStep
<1>2. CASE \E l, verdict : Settle(p, l, verdict)
  <2>1. PICK l, verdict : Settle(p, l, verdict)
    BY <1>2
  <2> DEFINE new == [Idle EXCEPT !.att = l.att, !.acctFailed = l.acctFailed, !.goal = verdict]
  <2>2. Others(p) /\ pc'[p] = "finish" /\ loc'[p] = new /\ owner' = owner
    BY <2>1, ContinueEffect DEF Settle
  <2>3. new.recs = {} /\ new.view = [r \in Requests |-> NoRow]
    BY DEF Idle
  <2>4. Knows("finish", new, led, gone)
    BY <2>3 DEF Knows, NoRow
  <2> QED
    BY <2>2, <2>4 DEF OwnerStep
<1> QED
  BY <1>1, <1>2 DEF Pause, Return

LEMMA LoopKnows ==
  ASSUME TypeInv, NEW p \in Procs, NEW led, NEW gone, NEW l, Loop(p, l),
         \A r \in Requests : l.view[r].status # "none" => r[1] = l.att
  PROVE  /\ pc'[p] \in {"idle", "finish", "precheck"} /\ Others(p) /\ OwnerStep(p)
         /\ Knows(pc'[p], loc'[p], led, gone)
<1>1. CASE Pause(p) \/ \E verdict : Settle(p, l, verdict)
  BY <1>1, EndKnows
<1>2. CASE l.dispatch /\ Dispatch(p, l)
  <2> DEFINE new == [Idle EXCEPT !.att = l.att, !.dispatch = TRUE, !.view = l.view]
  <2>1. Others(p) /\ pc'[p] = "precheck" /\ loc'[p] = new /\ owner' = owner
    BY <1>2, ContinueEffect DEF Dispatch
  <2>2. new.recs = {} /\ new.view = l.view /\ new.att = l.att
    BY DEF Idle
  <2>3. Knows("precheck", new, led, gone)
    BY <2>2 DEF Knows
  <2> QED
    BY <2>1, <2>3 DEF OwnerStep
<1> QED
  BY <1>1, <1>2 DEF Loop, Dispatch
LEMMA RowsOfOwn ==
  ASSUME NEW a
  PROVE  /\ \A r \in Requests : RowsOf(a)[r].status # "none" => r[1] = a
         /\ \A r \in Requests : r[1] = a => RowsOf(a)[r] = rows[r]
BY DEF RowsOf, NoRow

LEMMA GoneRecorded ==
  ASSUME SendInv
  PROVE  \A r \in Gone : /\ r \in Requests /\ rows[r].status # "none"
                         /\ Intent(r) \in ledger /\ Cancelled(r) \notin ledger
<1>1. \A p \in Procs : pc[p] = "send" =>
        /\ loc[p].cur \in Requests /\ rows[loc[p].cur].status # "none"
        /\ Intent(loc[p].cur) \in ledger /\ Cancelled(loc[p].cur) \notin ledger
  BY DEF SendInv, TypeInv, LocalsOK, PlaceOK, Busy, Unsent, CurOwned, Recorded
<1> QED
  BY <1>1 DEF Gone, SendInv, Rowed, SendsAreRecorded, TypeInv, TypeOK

(* Steps that leave the rows alone, or let none become abandoned.          *)
LEMMA RowsAliveBy ==
  ASSUME TypeInv, NEW p \in Procs,
         \/ rows' = rows
         \/ \E r, c : Reconcile(r, c)
         \/ \E r, c, reply : \E status \in {"responded", "no_response"} : Record(r, status, c, reply)
  PROVE  RowsAlive(p)
<1>1. rows \in [Requests -> Rows]
  BY DEF TypeInv, TypeOK, StoreTypeOK
<1>2. CASE \E r, c : Reconcile(r, c)
  BY <1>1, <1>2, RowStatus DEF Reconcile, RowsAlive
<1>3. CASE \E r, c, reply : \E status \in {"responded", "no_response"} : Record(r, status, c, reply)
  BY <1>1, <1>3, RowStatus DEF Record, RowsAlive
<1> QED
  BY <1>2, <1>3 DEF RowsAlive

LEMMA RowsAliveAbandon ==
  ASSUME NEW p \in Procs, NEW r, NEW flag, Abandon(r, flag), Dead(p, r), TypeInv
  PROVE  RowsAlive(p)
BY DEF Abandon, RowsAlive, TypeInv, TypeOK, StoreTypeOK

(* A step that ends the call or goes back to the loop.                     *)
LEMMA EndRelease ==
  ASSUME ReleaseInv, SendInv', NEW p \in Procs, RowsAlive(p), ledger \subseteq ledger', sent' =
         sent,
         \/ Pause(p) \/ (\E status : Return(p, status)) \/ (\E l, verdict : Settle(p, l, verdict))
         \/ \E l : Loop(p, l) /\ \A r \in Requests : l.view[r].status # "none" => r[1] = l.att
  PROVE  ReleaseInv'
<1>1. TypeInv
  BY DEF ReleaseInv, SendInv
<1>2. /\ pc'[p] \in {"idle", "finish", "precheck"} /\ Others(p) /\ OwnerStep(p)
      /\ Knows(pc'[p], loc'[p], ledger', Gone')
  BY <1>1, EndKnows, LoopKnows
<1>3. pc'[p] \notin PreLoop /\ pc'[p] \notin {"intent", "check", "send", "cancelled"}
  BY <1>2 DEF PreLoop
<1>4. Gone' \subseteq Gone
  BY <1>2, <1>3, GoneShrinks
<1> QED
  BY <1>2, <1>3, <1>4, ReleaseFrame

(* A recovery goes on with locals that know as much.                       *)
LEMMA RecoveryRelease ==
  ASSUME ReleaseInv, SendInv', NEW p \in Procs, RowsAlive(p), ledger \subseteq ledger', sent' =
         sent,
         pc[p] \in PreLoop, NEW place \in PreLoop, NEW l, Continue(p, place, l),
         Knows(place, l, ledger', Gone)
  PROVE  ReleaseInv'
<1>1. Others(p) /\ pc'[p] = place /\ loc'[p] = l /\ owner' = owner /\ OwnerStep(p)
  BY ContinueEffect DEF ReleaseInv, SendInv, OwnerStep
<1>2. place \notin {"intent", "check", "send", "cancelled"}
  BY DEF PreLoop
<1>3. Gone' \subseteq Gone
  BY <1>1, <1>2, GoneShrinks
<1>4. Knows(pc'[p], loc'[p], ledger', Gone')
  BY <1>1, <1>3, KnowsMore
<1>5. owner' = p
  BY <1>1 DEF ReleaseInv, RecoveryOwns
<1> QED
  BY <1>1, <1>2, <1>3, <1>4, <1>5, ReleaseFrame

LEMMA ReadRelease ==
  ASSUME ReleaseInv, SendInv', NEW p \in Procs,
         ReadAttempt(p) \/ CreateAttempt(p) \/ ReadReceipts(p) \/ ReadAgain(p)
  PROVE  ReleaseInv'
<1> DEFINE l == loc[p]
<1>1. SendInv /\ TypeInv /\ l \in Locals /\ Knows(pc[p], l, ledger, Gone)
  BY DEF ReleaseInv, SendInv, TypeInv, TypeOK, RecoveryKnows
<1>2. /\ rows' = rows /\ ledger' = ledger /\ sent' = sent /\ pc[p] \in PreLoop
      /\ RowsAlive(p)
  BY DEF ReadAttempt, CreateAttempt, ReadReceipts, ReadAgain, storeVars, ledgerVars, Provider,
         PreLoop, RowsAlive
<1>3. CASE CreateAttempt(p)
  <2>1. CASE Pause(p)
    BY <1>2, <2>1, EndRelease
  <2>2. CASE Continue(p, "read", l)
    <3>1. Knows("read", l, ledger', Gone)
      BY <1>1, <1>2 DEF Knows
    <3> QED
      BY <1>2, <2>2, <3>1, RecoveryRelease DEF PreLoop
  <2> QED
    BY <1>3, <2>1, <2>2 DEF CreateAttempt
<1>4. CASE ReadAttempt(p)
  <2>1. CASE Continue(p, "create", l)
    <3>1. Knows("create", l, ledger', Gone)
      BY <1>1, <1>2 DEF Knows
    <3> QED
      BY <1>2, <2>1, <3>1, RecoveryRelease DEF PreLoop
  <2>2. CASE Continue(p, "receipts", [l EXCEPT !.view = RowsOf(l.att)])
    <3> DEFINE new == [l EXCEPT !.view = RowsOf(l.att)]
    <3>1. new.recs = l.recs /\ new.view = RowsOf(l.att) /\ new.att = l.att
      BY <1>1 DEF Locals
    <3>2. l.recs \subseteq ledger'
      BY <1>1, <1>2 DEF Knows
    <3>3. Knows("receipts", new, ledger', Gone)
      BY <1>1, <3>1, <3>2, RowsOfOwn, GoneRecorded DEF Knows
    <3> QED
      BY <1>2, <2>2, <3>3, RecoveryRelease DEF PreLoop
  <2> QED
    BY <1>4, <2>1, <2>2 DEF ReadAttempt
<1>5. CASE ReadReceipts(p)
  <2>1. PICK new :
          /\ Continue(p, "reconcile", new)
          /\ new.att = l.att /\ new.view = l.view
          /\ new.recs = IF RecordedOf(l.view) = {} THEN {} ELSE {e \in ledger : e.req[1] = l.att}
    <3> DEFINE recs == IF RecordedOf(l.view) = {} THEN {} ELSE {e \in ledger : e.req[1] = l.att}
               late == {e \in recs : /\ e.type = "request_outcome" /\ e.charge # Unknown
                                     /\ l.view[e.req].charge = "unknown"}
               new == [l EXCEPT !.recs = recs, !.todo = late]
    <3>1. Continue(p, "reconcile", new)
      BY <1>5 DEF ReadReceipts
    <3> HIDE DEF recs, late
    <3>2. new.att = l.att /\ new.view = l.view /\ new.recs = recs
      BY <1>1 DEF Locals
    <3> QED
      BY <3>1, <3>2 DEF recs
  <2>2. \A r \in Gone : r[1] = l.att => /\ r \in RecordedOf(l.view) /\ Intent(r) \in ledger
                                        /\ Intent(r).req = r
    BY <1>1, <1>5, GoneRecorded DEF ReadReceipts, Knows, RecordedOf, Intent
  <2>3. Knows("reconcile", new, ledger', Gone)
    BY <1>1, <1>2, <2>1, <2>2 DEF Knows
  <2> QED
    BY <1>2, <2>1, <2>3, RecoveryRelease DEF PreLoop
<1>6. CASE ReadAgain(p)
  <2>1. PICK new : /\ Continue(p, "restore", new)
                   /\ new.att = l.att /\ new.view = RowsOf(l.att) /\ new.recs = l.recs
    <3>1. PICK lost : Continue(p, "restore", [l EXCEPT !.view = RowsOf(l.att),
                                                !.status = attempts[l.att], !.todo = lost])
      BY <1>6 DEF ReadAgain
    <3> DEFINE new == [l EXCEPT !.view = RowsOf(l.att), !.status = attempts[l.att], !.todo = lost]
    <3>2. new.att = l.att /\ new.view = RowsOf(l.att) /\ new.recs = l.recs
      BY <1>1 DEF Locals
    <3> QED
      BY <3>1, <3>2
  <2>2. Knows("restore", new, ledger', Gone)
    BY <1>1, <1>2, <1>6, <2>1, RowsOfOwn DEF ReadAgain, Knows
  <2> QED
    BY <1>2, <2>1, <2>2, RecoveryRelease DEF PreLoop
<1> QED
  BY <1>3, <1>4, <1>5, <1>6
(* A call that goes on with fewer receipts to do knows as much.            *)
LEMMA KeepRelease ==
  ASSUME ReleaseInv, SendInv', NEW p \in Procs, RowsAlive(p), ledger \subseteq ledger', sent' =
         sent,
         pc[p] \in {"reconcile", "restore", "open"}, NEW place \in {"reconcile", "restore", "open"},
         NEW e, NEW l \in {loc[p], [loc[p] EXCEPT !.todo = @ \ {e}]}, Continue(p, place, l)
  PROVE  ReleaseInv'
<1>1. loc[p] \in Locals /\ Knows(pc[p], loc[p], ledger, Gone)
  BY DEF ReleaseInv, SendInv, TypeInv, TypeOK, RecoveryKnows
<1>2. l.recs = loc[p].recs /\ l.view = loc[p].view /\ l.att = loc[p].att
  BY <1>1 DEF Locals
<1>3. Knows(place, l, ledger', Gone)
  BY <1>1, <1>2 DEF Knows
<1> QED
  BY <1>3, RecoveryRelease DEF PreLoop

LEMMA ResumeRelease ==
  ASSUME ReleaseInv, SendInv', NEW p \in Procs,
         \/ ReconcileLate(p) \/ RestoreReceipt(p) \/ ReturnSaved(p) \/ HonourCancellation(p)
         \/ BeginSettling(p) \/ EndSettling(p)
  PROVE  ReleaseInv'
<1> DEFINE l == loc[p]
<1>1. SendInv /\ TypeInv /\ l \in Locals /\ Knows(pc[p], l, ledger, Gone)
  BY DEF ReleaseInv, SendInv, TypeInv, TypeOK, RecoveryKnows
<1>2. sent' = sent /\ ledger \subseteq ledger'
  BY <1>1, QuietLedger DEF QuietSteps, Recover
<1>3. CASE ReconcileLate(p)
  <2>1. PICK e \in l.todo : Pause(p) \/ Continue(p, "reconcile", [l EXCEPT !.todo = @ \ {e}])
    BY <1>3 DEF ReconcileLate
  <2>2. pc[p] = "reconcile" /\ \E r, c : Reconcile(r, c)
    BY <1>3 DEF ReconcileLate
  <2>3. RowsAlive(p)
    BY <1>1, <2>2, RowsAliveBy
  <2> QED
    BY <1>2, <2>1, <2>2, <2>3, EndRelease, KeepRelease
<1>4. CASE RestoreReceipt(p)
  <2>1. PICK e \in l.todo : Pause(p) \/ Continue(p, "restore", [l EXCEPT !.todo = @ \ {e}])
    BY <1>4 DEF RestoreReceipt
  <2>2. pc[p] = "restore" /\ rows' = rows
    BY <1>4 DEF RestoreReceipt, storeVars
  <2>3. RowsAlive(p)
    BY <1>1, <2>2, RowsAliveBy
  <2> QED
    BY <1>2, <2>1, <2>2, <2>3, EndRelease, KeepRelease
<1>5. ASSUME ReturnSaved(p) \/ HonourCancellation(p) \/ BeginSettling(p) \/ EndSettling(p)
      PROVE  RowsAlive(p) /\ pc[p] \in {"restore", "open"} /\ ledger' = ledger
  BY <1>5 DEF ReturnSaved, HonourCancellation, BeginSettling, EndSettling, Restored, storeVars,
              ledgerVars, RowsAlive
<1>6. CASE ReturnSaved(p)
  BY <1>2, <1>5, <1>6, EndRelease DEF ReturnSaved
<1>7. CASE HonourCancellation(p)
  <2>1. PICK r \in Requests : Cancelled(r) \in l.recs /\ Continue(p, "cancelled", [l EXCEPT !.cur = r])
    BY <1>7 DEF HonourCancellation, CancelledOf
  <2> DEFINE new == [l EXCEPT !.cur = r]
  <2>2. new.recs = l.recs /\ new.view = l.view /\ new.att = l.att /\ new.cur = r
    BY <1>1 DEF Locals
  <2>3. Others(p) /\ pc'[p] = "cancelled" /\ loc'[p] = new /\ OwnerStep(p)
    BY <1>1, <2>1, ContinueEffect DEF OwnerStep
  <2>4. Gone' \subseteq Gone
    BY <1>2, <2>3, GoneShrinks
  <2>5. Knows("cancelled", new, ledger', Gone')
    BY <1>1, <1>5, <1>7, <2>2, <2>4 DEF Knows
  <2>6. Cancelled(r) \in ledger'
    BY <1>1, <1>5, <1>7, <2>1 DEF Knows
  <2> QED
    BY <1>2, <1>5, <1>7, <2>2, <2>3, <2>4, <2>5, <2>6, ReleaseFrame DEF PreLoop
<1>8. CASE BeginSettling(p)
  <2>1. Continue(p, "open", l) \/ Loop(p, l)
    BY <1>8 DEF BeginSettling
  <2>2. \A r \in Requests : l.view[r].status # "none" => r[1] = l.att
    BY <1>1 DEF Knows
  <2> QED
    BY <1>2, <1>5, <1>8, <2>1, <2>2, EndRelease, KeepRelease
<1>9. CASE EndSettling(p)
  <2> DEFINE new == [l EXCEPT !.view = RowsOf(l.att)]
  <2>1. new.view = RowsOf(l.att) /\ new.att = l.att
    BY <1>1 DEF Locals
  <2>2. Loop(p, new) /\ \A r \in Requests : new.view[r].status # "none" => r[1] = new.att
    BY <1>9, <2>1, RowsOfOwn DEF EndSettling
  <2> QED
    BY <1>2, <1>5, <1>9, <2>2, EndRelease
<1> QED
  BY <1>3, <1>4, <1>6, <1>7, <1>8, <1>9

LEMMA OpenRelease ==
  ASSUME ReleaseInv, SendInv', NEW p \in Procs, AbandonUnsent(p) \/ ImportOutcome(p) \/
         MarkUncertain(p)
  PROVE  ReleaseInv'
<1> DEFINE l == loc[p]
<1>1. SendInv /\ TypeInv /\ l \in Locals /\ Knows("open", l, ledger, Gone) /\ pc[p] = "open"
  BY DEF ReleaseInv, SendInv, TypeInv, TypeOK, RecoveryKnows, AbandonUnsent, ImportOutcome,
       MarkUncertain
<1>2. sent' = sent /\ ledger' = ledger
  BY DEF AbandonUnsent, ImportOutcome, MarkUncertain, ledgerVars, Provider
<1>3. CASE AbandonUnsent(p)
  <2>1. PICK r \in Requests :
          /\ l.view[r].status = "reserved" /\ Intent(r) \notin l.recs
          /\ Abandon(r, FALSE)
          /\ Continue(p, "open", [l EXCEPT !.view[r] = AbandonedRow(@, FALSE)])
    BY <1>3 DEF AbandonUnsent, FirstOpen, OpenOf
  <2>2. r \notin Gone
    BY <1>1, <2>1 DEF Knows
  <2>3. \A q \in Procs : q # p => owner # q
    BY <1>1 DEF ReleaseInv, RecoveryOwns, PreLoop
  <2>4. RowsAlive(p)
    BY <1>1, <2>1, <2>2, <2>3, RowsAliveAbandon DEF Dead
  <2> DEFINE view == [l.view EXCEPT ![r] = AbandonedRow(@, FALSE)]
             new == [l EXCEPT !.view = view]
  <2>5. \A x \in Requests : view[x].status # "none" => l.view[x].status # "none"
    BY <1>1, <2>1 DEF Locals
  <2> HIDE DEF view
  <2>6. new.recs = l.recs /\ new.view = view /\ new.att = l.att
    BY <1>1 DEF Locals
  <2>7. Knows("open", new, ledger', Gone)
    BY <1>1, <1>2, <2>5, <2>6 DEF Knows
  <2>8. Continue(p, "open", new)
    BY <2>1 DEF view
  <2> QED
    BY <1>1, <1>2, <2>4, <2>7, <2>8, RecoveryRelease DEF PreLoop
<1>4. CASE ImportOutcome(p)
  <2>1. PICK r \in Requests, e \in l.recs :
          /\ e.type = "request_outcome"
          /\ Record(r, e.outcome, e.charge, "none")
          /\ Pause(p) \/ \E verdict : Settle(p, l, verdict)
    BY <1>4 DEF ImportOutcome, FirstOpen, OpenOf
  <2>2. e.outcome \in {"responded", "no_response"}
    BY <1>1, <2>1 DEF Locals, Receipts
  <2>3. RowsAlive(p)
    BY <1>1, <2>1, <2>2, RowsAliveBy
  <2> QED
    BY <1>2, <2>1, <2>3, EndRelease
<1>5. CASE MarkUncertain(p)
  <2>1. (\E r : Record(r, "no_response", Unknown, "none")) /\ Settle(p, l, "uncertain")
    BY <1>5 DEF MarkUncertain
  <2>2. RowsAlive(p)
    BY <1>1, <2>1, RowsAliveBy
  <2> QED
    BY <1>2, <2>1, <2>2, EndRelease
<1> QED
  BY <1>3, <1>4, <1>5
(* A call goes on in the dispatch loop.                                    *)
LEMMA DispatchOn ==
  ASSUME ReleaseInv, SendInv', NEW p \in Procs, RowsAlive(p), ledger \subseteq ledger',
         sent' = sent \/ (pc[p] = "send" /\ sent' = sent \cup {loc[p].cur}),
         NEW place \in InLoop \ {"send"}, NEW l, Continue(p, place, l),
         l.recs = loc[p].recs, l.att = loc[p].att,
         l.view = loc[p].view \/ \A r \in Requests : l.view[r].status = "none",
         place \in {"intent", "check"} /\ owner = p => rows'[l.cur].status # "abandoned",
         place = "cancelled" => Cancelled(l.cur) \in ledger'
  PROVE  ReleaseInv'
<1>1. Knows(pc[p], loc[p], ledger, Gone)
  BY DEF ReleaseInv, RecoveryKnows
<1>2. Others(p) /\ pc'[p] = place /\ loc'[p] = l /\ owner' = owner /\ OwnerStep(p)
  BY ContinueEffect DEF ReleaseInv, SendInv, OwnerStep
<1>3. Gone' \subseteq Gone
  BY <1>2, GoneShrinks
<1>4. place \notin PreLoop
  BY DEF InLoop, PreLoop
<1>5. Knows(place, l, ledger', Gone')
  BY <1>1, <1>4 DEF Knows, PreLoop
<1> QED
  BY <1>2, <1>3, <1>4, <1>5, ReleaseFrame

LEMMA CheckRelease ==
  ASSUME ReleaseInv, SendInv', NEW p \in Procs,
         \/ PreCheck(p) \/ ReserveRequest(p) \/ AppendIntent(p) \/ RefuseSend(p) \/ AppendCancelled(p)
  PROVE  ReleaseInv'
<1> DEFINE l == loc[p]
<1>1. SendInv /\ TypeInv /\ l \in Locals
  BY DEF ReleaseInv, SendInv, TypeInv, TypeOK
<1>2. sent' = sent /\ ledger \subseteq ledger'
  BY DEF PreCheck, ReserveRequest, AppendIntent, RefuseSend, AppendCancelled, Append,
       AppendRefused,
         AppendFaulted, ledgerVars, Provider
<1>3. ~ReserveRequest(p) => rows' = rows /\ RowsAlive(p)
  BY DEF PreCheck, AppendIntent, RefuseSend, AppendCancelled, storeVars, RowsAlive
<1>4. CASE PreCheck(p) /\ ~ReserveRequest(p)
  <2>1. Pause(p) \/ Continue(p, "reserve", l)
    BY <1>4 DEF PreCheck
  <2> QED
    BY <1>2, <1>3, <1>4, <2>1, EndRelease, DispatchOn DEF InLoop
<1>5. CASE ReserveRequest(p)
  <2> DEFINE r == <<l.att, NextSequence(l.view)>>
             new == [l EXCEPT !.cur = r, !.view = Idle.view]
  <2>1. CASE UNCHANGED rows /\ Pause(p)
    <3>1. RowsAlive(p)
      BY <2>1 DEF RowsAlive
    <3> QED
      BY <1>2, <2>1, <3>1, EndRelease
  <2>2. CASE r \in Requests /\ rows' = [rows EXCEPT ![r] = ReservedRow] /\ Continue(p, "intent", new)
    <3>1. \A x \in Requests : /\ x = r => rows'[x].status = "reserved"
                              /\ x # r => rows'[x] = rows[x]
      BY <1>1, <2>2 DEF ReservedRow, TypeInv, TypeOK, StoreTypeOK
    <3>2. RowsAlive(p)
      BY <3>1 DEF RowsAlive
    <3>3. Idle.view = [x \in Requests |-> NoRow]
      BY DEF Idle
    <3> HIDE DEF r
    <3>4. /\ new.recs = l.recs /\ new.att = l.att /\ new.cur = r
          /\ \A x \in Requests : new.view[x].status = "none"
      BY <1>1, <3>3 DEF Locals, NoRow
    <3>5. rows'[new.cur].status # "abandoned"
      BY <2>2, <3>1, <3>4
    <3> HIDE DEF new
    <3> QED
      BY <1>2, <2>2, <3>2, <3>4, <3>5, DispatchOn DEF InLoop
  <2> QED
    BY <1>5, <2>1, <2>2 DEF ReserveRequest
<1>6. CASE AppendIntent(p) /\ ~ReserveRequest(p)
  <2>1. pc[p] = "intent" /\ \E place \in {"check", "abandon"} : Continue(p, place, l)
    BY <1>6 DEF AppendIntent
  <2>2. owner = p => rows'[l.cur].status # "abandoned"
    BY <1>3, <1>6, <2>1 DEF ReleaseInv, LiveRows
  <2> QED
    BY <1>2, <1>3, <1>6, <2>1, <2>2, DispatchOn DEF InLoop
<1>7. CASE RefuseSend(p) /\ ~ReserveRequest(p)
  BY <1>2, <1>3, <1>7, DispatchOn DEF InLoop, RefuseSend
<1>8. CASE AppendCancelled(p) /\ ~ReserveRequest(p)
  <2>1. CASE Pause(p)
    BY <1>2, <1>3, <1>8, <2>1, EndRelease
  <2>2. CASE Append(Cancelled(l.cur)) /\ Continue(p, "cancelled", l)
    <3>1. Cancelled(l.cur) \in ledger'
      BY <2>2 DEF Append
    <3> QED
      BY <1>2, <1>3, <1>8, <2>2, <3>1, DispatchOn DEF InLoop
  <2> QED
    BY <1>8, <2>1, <2>2 DEF AppendCancelled
<1> QED
  BY <1>4, <1>5, <1>6, <1>7, <1>8

(* The check holds the lock, so no recovery is under way and the row is    *)
(* not abandoned when the request goes.                                    *)
LEMMA CheckAgainRelease ==
  ASSUME ReleaseInv, SendInv', NEW p \in Procs, CheckAgain(p)
  PROVE  ReleaseInv'
<1> DEFINE l == loc[p]
<1>1. SendInv /\ TypeInv /\ Knows("check", l, ledger, Gone)
  BY DEF ReleaseInv, SendInv, RecoveryKnows, CheckAgain
<1>2. /\ pc[p] = "check" /\ owner = p /\ rows' = rows /\ ledger' = ledger /\ sent' = sent
      /\ owner' = owner /\ Others(p) /\ pc'[p] = "send" /\ loc'[p] = l
  BY <1>1, ContinueEffect DEF CheckAgain, storeVars, ledgerVars, Provider
<1>3. Gone' \subseteq Gone \cup {l.cur}
  BY <1>2 DEF Gone, Others
<1>4. \A q \in Procs : pc[q] \notin PreLoop
  BY <1>2 DEF ReleaseInv, RecoveryOwns, PreLoop
<1>5. \A q \in Procs : pc'[q] \notin PreLoop
  BY <1>2, <1>4 DEF Others, PreLoop
<1>6. RecoveryOwns'
  BY <1>5 DEF RecoveryOwns
<1>7. RecoveryKnows'
  <2>1. \A q \in Procs : loc'[q] = loc[q] /\ Knows(pc[q], loc[q], ledger, Gone)
    BY <1>2 DEF Others, ReleaseInv, RecoveryKnows
  <2>2. \A q \in Procs : Knows(pc'[q], loc'[q], ledger', Gone')
    BY <1>2, <1>5, <2>1 DEF Knows, PreLoop
  <2> QED
    BY <2>2 DEF RecoveryKnows
<1>8. LiveRows'
  <2>1. rows[l.cur].status # "abandoned"
    BY <1>2 DEF ReleaseInv, LiveRows
  <2>2. \A r \in Gone' : rows'[r].status # "abandoned"
    BY <1>2, <1>3, <2>1 DEF ReleaseInv, LiveRows
  <2>3. \A q \in Procs : q # p => pc'[q] = pc[q] /\ loc'[q] = loc[q]
    BY <1>2 DEF Others
  <2> QED
    BY <1>2, <2>2, <2>3 DEF ReleaseInv, LiveRows, Cancelled
<1> QED
  BY <1>6, <1>7, <1>8 DEF ReleaseInv
LEMMA AbandonRelease ==
  ASSUME ReleaseInv, SendInv', NEW p \in Procs, AbandonUnrecorded(p) \/ AbandonCancelled(p)
  PROVE  ReleaseInv'
<1> DEFINE r == loc[p].cur
<1>1. SendInv /\ TypeInv
  BY DEF ReleaseInv, SendInv
<1>2. sent' = sent /\ ledger' = ledger /\ \E flag : Abandon(r, flag)
  BY DEF AbandonUnrecorded, AbandonCancelled, ledgerVars, Provider
<1>3. Pause(p) \/ \E l, verdict : Settle(p, l, verdict)
  BY DEF AbandonUnrecorded, AbandonCancelled
<1>4. Dead(p, r)
  <2>1. CASE AbandonUnrecorded(p)
    BY <1>1, <2>1 DEF AbandonUnrecorded, Dead, Gone, SendInv, CurOwned, Unsent
  <2>2. CASE AbandonCancelled(p)
    <3>1. pc[p] = "cancelled" /\ Cancelled(r) \in ledger
      BY <2>2 DEF AbandonCancelled, ReleaseInv, LiveRows
    <3>2. r \notin sent
      BY <1>1, <3>1 DEF SendInv, SendsAreRecorded
    <3>3. \A q \in Procs : pc[q] \in {"intent", "check", "send"} => loc[q].cur # r
      BY <1>1, <3>1 DEF SendInv, Recorded
    <3> QED
      BY <3>2, <3>3 DEF Dead, Gone
  <2> QED
    BY <2>1, <2>2
<1>5. RowsAlive(p)
  BY <1>1, <1>2, <1>4, RowsAliveAbandon
<1> QED
  BY <1>2, <1>3, <1>5, EndRelease

LEMMA ExchangeRelease ==
  ASSUME ReleaseInv, SendInv', NEW p \in Procs,
         \/ Send(p) \/ Receive(p) \/ AppendOutcome(p) \/ RecordOutcome(p) \/ ReadOutcome(p)
  PROVE  ReleaseInv'
<1> DEFINE l == loc[p]
<1>1. SendInv /\ TypeInv /\ l \in Locals
  BY DEF ReleaseInv, SendInv, TypeInv, TypeOK
<1>2. /\ ledger \subseteq ledger'
      /\ sent' = sent \/ (pc[p] = "send" /\ sent' = sent \cup {l.cur})
  BY DEF Send, Receive, AppendOutcome, RecordOutcome, ReadOutcome, Append, AppendRefused,
         AppendFaulted, ledgerVars, Provider
<1>3. RowsAlive(p)
  <2>1. CASE RecordOutcome(p)
    <3>1. ExchangeStatus(l) \in {"responded", "no_response"}
      BY DEF ExchangeStatus
    <3> QED
      BY <1>1, <2>1, <3>1, RowsAliveBy DEF RecordOutcome
  <2>2. CASE ~RecordOutcome(p)
    BY <2>2 DEF Send, Receive, AppendOutcome, ReadOutcome, storeVars, RowsAlive
  <2> QED
    BY <2>1, <2>2
<1>4. CASE Send(p)
  BY <1>2, <1>3, <1>4, DispatchOn DEF Send, InLoop
<1>5. CASE Receive(p)
  <2>1. PICK kind, c : Continue(p, "outcome", [l EXCEPT !.reply = kind, !.charge = c])
    BY <1>5 DEF Receive
  <2> DEFINE new == [l EXCEPT !.reply = kind, !.charge = c]
  <2>2. new.recs = l.recs /\ new.view = l.view /\ new.att = l.att
    BY <1>1 DEF Locals
  <2> QED
    BY <1>2, <1>3, <2>1, <2>2, DispatchOn DEF InLoop
<1>6. CASE AppendOutcome(p)
  <2>1. PICK new \in {l, [l EXCEPT !.acctFailed = TRUE]} : Continue(p, "record", new)
    BY <1>6 DEF AppendOutcome
  <2>2. new.recs = l.recs /\ new.view = l.view /\ new.att = l.att
    BY <1>1 DEF Locals
  <2> QED
    BY <1>2, <1>3, <2>1, <2>2, DispatchOn DEF InLoop
<1>7. CASE RecordOutcome(p)
  <2> DEFINE new == [l EXCEPT !.cur = NoRequest, !.reply = "none", !.charge = Unknown]
  <2>1. Pause(p) \/ Continue(p, "after", new)
    BY <1>7 DEF RecordOutcome
  <2>2. new.recs = l.recs /\ new.view = l.view /\ new.att = l.att
    BY <1>1 DEF Locals
  <2>3. sent' = sent
    BY <1>7 DEF RecordOutcome, Provider
  <2> QED
    BY <1>2, <1>3, <2>1, <2>2, <2>3, EndRelease, DispatchOn DEF InLoop
<1>8. CASE ReadOutcome(p)
  <2> DEFINE new == [l EXCEPT !.view = RowsOf(l.att)]
  <2>1. new.view = RowsOf(l.att) /\ new.att = l.att
    BY <1>1 DEF Locals
  <2>2. \A r \in Requests : new.view[r].status # "none" => r[1] = new.att
    BY <2>1, RowsOfOwn
  <2>3. sent' = sent /\ (Pause(p) \/ (\E verdict : Settle(p, new, verdict)) \/ Loop(p, new))
    BY <1>8 DEF ReadOutcome, Provider
  <2> QED
    BY <1>2, <1>3, <2>2, <2>3, EndRelease
<1> QED
  BY <1>4, <1>5, <1>6, <1>7, <1>8

LEMMA CallRelease ==
  ASSUME StallPoints \cap PreLoop = {}, ReleaseInv, SendInv', NEW p \in Procs,
         Finish(p) \/ Stop(p) \/ LoseLock(p) \/ \E a \in Attempts, d \in BOOLEAN : Start(p, a, d)
  PROVE  ReleaseInv'
<1>1. /\ rows' = rows /\ ledger' = ledger /\ sent' = sent /\ RowsAlive(p)
      /\ Knows(pc[p], loc[p], ledger, Gone)
  BY DEF Finish, Stop, LoseLock, Start, storeVars, ledgerVars, Provider, RowsAlive, ReleaseInv,
         RecoveryKnows
<1>2. CASE Finish(p) \/ Stop(p)
  BY <1>1, <1>2, EndRelease DEF Finish, Stop
<1>3. CASE LoseLock(p)
  <2>1. pc' = pc /\ loc' = loc /\ owner = p /\ owner' = NoProc /\ pc[p] \notin PreLoop
    BY <1>3 DEF LoseLock
  <2>2. Gone' = Gone
    BY <1>1, <2>1 DEF Gone
  <2>3. Others(p) /\ OwnerStep(p) /\ owner' # p
    BY <2>1, ExecutorAssumption DEF Others, OwnerStep
  <2> QED
    BY <1>1, <2>1, <2>2, <2>3, ReleaseFrame DEF ReleaseInv, LiveRows
<1>4. CASE \E a \in Attempts, d \in BOOLEAN : Start(p, a, d)
  <2>1. PICK a \in Attempts, d \in BOOLEAN : Start(p, a, d)
    BY <1>4
  <2> DEFINE new == [Idle EXCEPT !.att = a, !.dispatch = d]
  <2>2. Others(p) /\ pc'[p] = "read" /\ loc'[p] = new /\ owner = NoProc /\ owner' = p
    BY <2>1 DEF Start, Goto, Local, Others, ReleaseInv, SendInv, TypeInv, TypeOK
  <2>3. new.recs = {} /\ new.view = [r \in Requests |-> NoRow]
    BY DEF Idle
  <2>4. Gone' \subseteq Gone
    BY <1>1, <2>2, GoneShrinks
  <2>5. Knows("read", new, ledger', Gone')
    BY <2>3 DEF Knows, NoRow
  <2> QED
    BY <1>1, <2>2, <2>4, <2>5, ReleaseFrame DEF OwnerStep
<1> QED
  BY <1>2, <1>3, <1>4

LEMMA ReleaseInit == Init => ReleaseInv
<1> SUFFICES ASSUME Init  PROVE ReleaseInv
  OBVIOUS
<1>1. SendInv /\ Gone = {}
  BY SendInit DEF Init, Gone
<1>2. \A p \in Procs : pc[p] = "idle" /\ loc[p] = Idle
  BY DEF Init
<1>3. RecoveryKnows
  BY <1>2, IdleKnows DEF RecoveryKnows
<1> QED
  BY <1>1, <1>2, <1>3 DEF ReleaseInv, RecoveryOwns, LiveRows, PreLoop

LEMMA ReleaseStep ==
  ASSUME StallPoints \cap PreLoop = {}
  PROVE  ReleaseInv /\ [Next]_vars => ReleaseInv'
<1> SUFFICES ASSUME ReleaseInv, [Next]_vars  PROVE ReleaseInv'
  OBVIOUS
<1>1. SendInv'
  BY SendStep DEF ReleaseInv
<1>2. CASE UNCHANGED vars
  BY <1>1, <1>2 DEF vars, ReleaseInv, RecoveryOwns, RecoveryKnows, LiveRows, Knows, Gone, Intent,
       Cancelled
<1>3. ASSUME NEW p \in Procs, Recover(p)  PROVE ReleaseInv'
  BY <1>1, <1>3, ReadRelease, ResumeRelease, OpenRelease DEF Recover
<1>4. ASSUME NEW p \in Procs, DispatchLoop(p)  PROVE ReleaseInv'
  BY <1>1, <1>4, CheckRelease, CheckAgainRelease, AbandonRelease, ExchangeRelease, CallRelease
     DEF DispatchLoop
<1> QED
  BY <1>1, <1>2, <1>3, <1>4, CallRelease DEF Next, Step

(* "A reservation with no intent or a durable cancellation was never       *)
(* sent": if a process loses its lock only after it has settled what it    *)
(* found, a request whose row is abandoned is never at the provider.       *)
THEOREM ReleasedIsUnsent ==
  ASSUME StallPoints \cap PreLoop = {}
  PROVE  Spec => []AbandonedNeverSent
<1>1. ReleaseInv => AbandonedNeverSent
  BY DEF ReleaseInv, SendInv, Rowed, LiveRows, Gone, AbandonedNeverSent
<1>2. ReleaseInv /\ [Next]_vars => ReleaseInv'
  BY ReleaseStep
<1> QED
  BY <1>1, <1>2, ReleaseInit, PTL DEF Spec

-----------------------------------------------------------------------------
(* Charges: what rows and receipts say of money is what the provider      *)
(* billed, wherever processes lose their locks.                            *)

(* A charge that is stated for a request is its bill, and a request that   *)
(* has one is gone to the provider.                                        *)
Billed(gone, cost, r, c) == r \in gone /\ c = cost[r]
TrueReceipt(gone, cost, e) == e.charge # Unknown => Billed(gone, cost, e.req, e.charge)
TrueRow(gone, cost, r, row) == row.charge = "known" => Billed(gone, cost, r, row.amount)

(* The same of what a process has read of the ledger, is about to import   *)
(* or restore, and got from the provider.                                  *)
InExchange == {"await", "outcome", "record"}
TrueLocals(gone, cost, place, l) ==
  /\ \A e \in l.recs \cup l.todo : TrueReceipt(gone, cost, e)
  /\ place \in InExchange => l.cur \in gone
  /\ place \in {"outcome", "record"} => l.charge \in {Unknown, cost[l.cur]}

TrueRows == \A r \in Requests : TrueRow(sent, bill, r, rows[r])
TrueLedger == \A e \in ledger : TrueReceipt(sent, bill, e)
TrueCalls == \A p \in Procs : TrueLocals(sent, bill, pc[p], loc[p])

ChargeInv == SendInv /\ TrueRows /\ TrueLedger /\ TrueCalls

-----------------------------------------------------------------------------
(* Lemmas about the operators of the model. *)

(* What is true stays true while bills stand, and those of sent requests   *)
(* always do.                                                              *)
BillsStand == /\ sent \subseteq sent'
              /\ \A r \in sent : bill'[r] = bill[r]

LEMMA TrueStands ==
  ASSUME BillsStand
  PROVE  /\ \A e : TrueReceipt(sent, bill, e) => TrueReceipt(sent', bill', e)
         /\ \A r, row : TrueRow(sent, bill, r, row) => TrueRow(sent', bill', r, row)
         /\ \A place, l : TrueLocals(sent, bill, place, l) => TrueLocals(sent', bill', place, l)
<1>1. \A r, c : Billed(sent, bill, r, c) => Billed(sent', bill', r, c)
  BY DEF BillsStand, Billed
<1>2. \A e : TrueReceipt(sent, bill, e) => TrueReceipt(sent', bill', e)
  BY <1>1 DEF TrueReceipt
<1> QED
  BY <1>1, <1>2 DEF BillsStand, TrueRow, TrueLocals, InExchange

(* The statements that write a row keep it true if what they import is.    *)
LEMMA RowsStayTrue ==
  ASSUME TypeInv, TrueRows,
         \/ rows' = rows
         \/ \E r, flag : Abandon(r, flag)
         \/ \E r, c : Billed(sent, bill, r, c) /\ Reconcile(r, c)
         \/ \E r, c, status, reply : /\ c = Unknown \/ Billed(sent, bill, r, c)
                                     /\ Record(r, status, c, reply)
  PROVE  \A r \in Requests : TrueRow(sent, bill, r, rows'[r])
<1>1. rows \in [Requests -> Rows]
  BY DEF TypeInv, TypeOK, StoreTypeOK
<1>2. CASE \E r, flag : Abandon(r, flag)
  BY <1>1, <1>2 DEF Abandon, AbandonedRow, TrueRows, TrueRow, Rows
<1>3. CASE \E r, c : Billed(sent, bill, r, c) /\ Reconcile(r, c)
  BY <1>1, <1>3 DEF Reconcile, ReconciledRow, TrueRows, TrueRow, Rows
<1>4. CASE \E r, c, status, reply : /\ c = Unknown \/ Billed(sent, bill, r, c)
                                    /\ Record(r, status, c, reply)
  <2>1. PICK r, c, status, reply : /\ c = Unknown \/ Billed(sent, bill, r, c)
                                   /\ Record(r, status, c, reply)
    BY <1>4
  <2>2. \A x \in Requests : /\ x # r => rows'[x] = rows[x]
                            /\ x = r => rows'[x] = RecordedRow(rows[x], status, c, reply)
    BY <1>1, <2>1 DEF Record
  <2>3. \A x \in Requests : x = r => TrueRow(sent, bill, x, RecordedRow(rows[x], status, c, reply))
    BY <1>1, <2>1 DEF RecordedRow, ReconciledRow, TrueRows, TrueRow, Rows
  <2> QED
    BY <2>2, <2>3 DEF TrueRows
<1> QED
  BY <1>2, <1>3, <1>4 DEF TrueRows

LEMMA LedgerStaysTrue ==
  ASSUME TrueLedger, NEW e, TrueReceipt(sent, bill, e),
         Append(e) \/ AppendRefused \/ AppendFaulted(e) \/ ledger' = ledger
  PROVE  \A x \in ledger' : TrueReceipt(sent, bill, x)
BY DEF Append, AppendRefused, AppendFaulted, ledgerVars, TrueLedger

(* A call that ends, is about to finish or begins to dispatch has read     *)
(* nothing that it still uses.                                             *)
Ending(p) == \/ Pause(p)
             \/ \E status : Return(p, status)
             \/ \E l, verdict : Settle(p, l, verdict)
             \/ \E l : Loop(p, l)

LEMMA EndTrue ==
  ASSUME TypeInv, NEW p \in Procs, Ending(p), NEW gone, NEW cost
  PROVE  Others(p) /\ TrueLocals(gone, cost, pc'[p], loc'[p])
<1>1. CASE Leave(p)
  <2>1. Others(p) /\ pc'[p] = "idle" /\ loc'[p] = Idle
    BY <1>1, LeaveEffect
  <2>2. Idle.recs = {} /\ Idle.todo = {}
    BY DEF Idle
  <2> QED
    BY <2>1, <2>2 DEF TrueLocals, InExchange
<1>2. CASE \E l, verdict : Settle(p, l, verdict)
  <2>1. PICK l, verdict : Settle(p, l, verdict)
    BY <1>2
  <2> DEFINE new == [Idle EXCEPT !.att = l.att, !.acctFailed = l.acctFailed, !.goal = verdict]
  <2>2. new.recs = {} /\ new.todo = {}
    BY DEF Idle
  <2>3. Others(p) /\ pc'[p] = "finish" /\ loc'[p] = new
    BY <2>1, ContinueEffect DEF Settle
  <2> QED
    BY <2>2, <2>3 DEF TrueLocals, InExchange
<1>3. CASE \E l : Dispatch(p, l) /\ ~Pause(p)
  <2>1. PICK l : Dispatch(p, l) /\ ~Pause(p)
    BY <1>3
  <2> DEFINE new == [Idle EXCEPT !.att = l.att, !.dispatch = TRUE, !.view = l.view]
  <2>2. new.recs = {} /\ new.todo = {}
    BY DEF Idle
  <2>3. Others(p) /\ pc'[p] = "precheck" /\ loc'[p] = new
    BY <2>1, ContinueEffect DEF Dispatch
  <2> QED
    BY <2>2, <2>3 DEF TrueLocals, InExchange
<1> QED
  BY <1>1, <1>2, <1>3 DEF Ending, Pause, Return, Loop

(* A call goes on outside an exchange with at most the receipts it has.    *)
LEMMA KeepTrue ==
  ASSUME ChargeInv, NEW p \in Procs, NEW place, NEW l, Continue(p, place, l),
         l.recs \subseteq loc[p].recs, l.todo \subseteq loc[p].todo,
         place \in Active \ InExchange
  PROVE  Others(p) /\ TrueLocals(sent, bill, pc'[p], loc'[p])
<1>1. Others(p) /\ pc'[p] = place /\ loc'[p] = l
  BY ContinueEffect DEF ChargeInv, SendInv
<1>2. TrueLocals(sent, bill, pc[p], loc[p])
  BY DEF ChargeInv, TrueCalls
<1> QED
  BY <1>1, <1>2 DEF TrueLocals, InExchange

-----------------------------------------------------------------------------
(* One step keeps the invariant if what it leaves is true; a step that     *)
(* sends nothing may use the bills as they are.                            *)
LEMMA ChargeFrame ==
  ASSUME ChargeInv, SendInv', NEW p \in Procs, Others(p), UNCHANGED <<sent, bill>>,
         \A r \in Requests : TrueRow(sent, bill, r, rows'[r]),
         \A e \in ledger' : TrueReceipt(sent, bill, e),
         TrueLocals(sent, bill, pc'[p], loc'[p])
  PROVE  ChargeInv'
<1>1. TrueRows' /\ TrueLedger'
  BY DEF TrueRows, TrueLedger, TrueReceipt, TrueRow, Billed
<1>2. \A q \in Procs : TrueLocals(sent, bill, pc'[q], loc'[q])
  BY DEF Others, ChargeInv, TrueCalls
<1>3. TrueCalls'
  BY <1>2 DEF TrueCalls
<1> QED
  BY <1>1, <1>3 DEF ChargeInv

LEMMA SentFixed ==
  ASSUME NEW p \in Procs, Recover(p) \/ (DispatchLoop(p) /\ ~Send(p)) \/ Stop(p) \/ LoseLock(p)
                          \/ \E a \in Attempts, d \in BOOLEAN : Start(p, a, d)
  PROVE  UNCHANGED <<sent, bill>>
BY DEF Recover, DispatchLoop, ReadAttempt, CreateAttempt, ReadReceipts, ReconcileLate, ReadAgain,
       RestoreReceipt, ReturnSaved, HonourCancellation, BeginSettling, AbandonUnsent, ImportOutcome,
       MarkUncertain, EndSettling, PreCheck, ReserveRequest, AppendIntent, AbandonUnrecorded,
       CheckAgain, RefuseSend, AppendCancelled, AbandonCancelled, Receive, AppendOutcome,
       RecordOutcome, ReadOutcome, Finish, Stop, LoseLock, Start, Provider

(* Reading: what comes from the ledger or the rows is true.                *)
LEMMA ReadCharges ==
  ASSUME ChargeInv, SendInv', NEW p \in Procs,
         ReadAttempt(p) \/ CreateAttempt(p) \/ ReadReceipts(p) \/ ReadAgain(p)
  PROVE  ChargeInv'
<1> DEFINE l == loc[p]
<1>1. TypeInv /\ l \in Locals /\ TrueLocals(sent, bill, pc[p], l) /\ TrueRows /\ TrueLedger
  BY DEF ChargeInv, SendInv, TypeInv, TypeOK, TrueCalls
<1>2. UNCHANGED <<sent, bill, ledger>>
  BY SentFixed DEF Recover, ReadAttempt, CreateAttempt, ReadReceipts, ReadAgain, ledgerVars
<1>3. rows' = rows
  BY DEF ReadAttempt, CreateAttempt, ReadReceipts, ReadAgain, storeVars
<1>4. (\A r \in Requests : TrueRow(sent, bill, r, rows'[r])) /\ \A e \in ledger' : TrueReceipt(sent, bill, e)
  BY <1>1, <1>2, <1>3 DEF TrueRows, TrueLedger
<1>5. ASSUME ReadAttempt(p) \/ CreateAttempt(p)
      PROVE  Others(p) /\ TrueLocals(sent, bill, pc'[p], loc'[p])
  <2> DEFINE new == [l EXCEPT !.view = RowsOf(l.att)]
  <2>1. new.recs = l.recs /\ new.todo = l.todo
    BY <1>1 DEF Locals
  <2>2. PICK place \in {"create", "read", "receipts"}, x \in {l, new} : Pause(p) \/ Continue(p, place, x)
    BY <1>5 DEF ReadAttempt, CreateAttempt
  <2> QED
    BY <1>1, <2>1, <2>2, EndTrue, KeepTrue DEF Ending, InExchange, Active, PreLoop, InLoop
<1>6. ASSUME ReadReceipts(p)
      PROVE  Others(p) /\ TrueLocals(sent, bill, pc'[p], loc'[p])
  <2> DEFINE receipts == IF RecordedOf(l.view) = {} THEN {} ELSE {e \in ledger : e.req[1] = l.att}
             late == {e \in receipts : /\ e.type = "request_outcome" /\ e.charge # Unknown
                                       /\ l.view[e.req].charge = "unknown"}
             new == [l EXCEPT !.recs = receipts, !.todo = late]
  <2>1. Continue(p, "reconcile", new)
    BY <1>6 DEF ReadReceipts
  <2>2. receipts \subseteq ledger /\ late \subseteq ledger
    OBVIOUS
  <2> HIDE DEF receipts, late
  <2>3. new.recs = receipts /\ new.todo = late
    BY <1>1 DEF Locals
  <2> HIDE DEF new
  <2>4. Others(p) /\ pc'[p] = "reconcile" /\ loc'[p] = new
    BY <1>1, <2>1, ContinueEffect
  <2> QED
    BY <1>1, <2>2, <2>3, <2>4 DEF TrueLocals, TrueLedger, InExchange
<1>7. ASSUME ReadAgain(p)
      PROVE  Others(p) /\ TrueLocals(sent, bill, pc'[p], loc'[p])
  <2> DEFINE view == RowsOf(l.att)
             missing == {r \in Requests : Settled(view[r]) /\ ~HasOutcome(l.recs, r)}
             lost == {Outcome(r, view[r].status, IF view[r].charge = "known" THEN view[r].amount
                                                 ELSE Unknown) : r \in missing}
             new == [l EXCEPT !.view = view, !.status = attempts[l.att], !.todo = lost]
  <2>1. Continue(p, "restore", new)
    BY <1>7 DEF ReadAgain
  <2>2. \A r \in Requests : TrueRow(sent, bill, r, view[r])
    BY <1>1 DEF RowsOf, TrueRows, TrueRow, NoRow
  <2>3. \A e \in lost : TrueReceipt(sent, bill, e)
    BY <2>2 DEF TrueReceipt, TrueRow, Outcome
  <2> HIDE DEF view, lost
  <2>4. new.recs = l.recs /\ new.todo = lost
    BY <1>1 DEF Locals
  <2> HIDE DEF new
  <2>5. Others(p) /\ pc'[p] = "restore" /\ loc'[p] = new
    BY <1>1, <2>1, ContinueEffect
  <2> QED
    BY <1>1, <2>3, <2>4, <2>5 DEF TrueLocals, InExchange
<1> QED
  BY <1>2, <1>4, <1>5, <1>6, <1>7, ChargeFrame

(* Recovery: charges are imported from receipts the call has read, and     *)
(* receipts restored from rows it has read.                                *)
LEMMA ImportCharges ==
  ASSUME ChargeInv, SendInv', NEW p \in Procs, ReconcileLate(p) \/ ImportOutcome(p)
  PROVE  ChargeInv'
<1> DEFINE l == loc[p]
<1>1. TypeInv /\ l \in Locals /\ TrueLocals(sent, bill, pc[p], l) /\ TrueRows /\ TrueLedger
  BY DEF ChargeInv, SendInv, TypeInv, TypeOK, TrueCalls
<1>2. UNCHANGED <<sent, bill, ledger>>
  BY SentFixed DEF Recover, ReconcileLate, ImportOutcome, ledgerVars
<1>3. \A e \in ledger' : TrueReceipt(sent, bill, e)
  BY <1>1, <1>2 DEF TrueLedger
<1>4. CASE ReconcileLate(p)
  <2>1. PICK e \in l.todo : /\ Reconcile(e.req, e.charge)
                            /\ Pause(p) \/ Continue(p, "reconcile", [l EXCEPT !.todo = @ \ {e}])
    BY <1>4 DEF ReconcileLate
  <2>2. e.charge # Unknown
    BY <1>1, <1>4, <2>1 DEF ReconcileLate, TypeInv, LocalsOK, PlaceOK, TodoOK
  <2>3. Billed(sent, bill, e.req, e.charge)
    BY <1>1, <2>1, <2>2 DEF TrueLocals, TrueReceipt
  <2>4. \A r \in Requests : TrueRow(sent, bill, r, rows'[r])
    BY <1>1, <2>1, <2>3, RowsStayTrue
  <2> DEFINE new == [l EXCEPT !.todo = @ \ {e}]
  <2>5. new.recs = l.recs /\ new.todo \subseteq l.todo
    BY <1>1 DEF Locals
  <2> HIDE DEF new
  <2>6. Others(p) /\ TrueLocals(sent, bill, pc'[p], loc'[p])
    BY <1>1, <2>1, <2>5, EndTrue, KeepTrue DEF Ending, InExchange, Active, PreLoop, InLoop, new
  <2> QED
    BY <1>2, <1>3, <2>4, <2>6, ChargeFrame
<1>5. CASE ImportOutcome(p)
  <2>1. PICK r \in Requests, e \in l.recs :
          /\ e.req = r
          /\ Record(r, e.outcome, e.charge, "none")
          /\ Pause(p) \/ \E verdict : Settle(p, l, verdict)
    BY <1>5 DEF ImportOutcome, FirstOpen, OpenOf
  <2>2. e.charge = Unknown \/ Billed(sent, bill, r, e.charge)
    BY <1>1, <2>1 DEF TrueLocals, TrueReceipt
  <2>3. \A x \in Requests : TrueRow(sent, bill, x, rows'[x])
    BY <1>1, <2>1, <2>2, RowsStayTrue
  <2>4. Others(p) /\ TrueLocals(sent, bill, pc'[p], loc'[p])
    BY <1>1, <2>1, EndTrue DEF Ending
  <2> QED
    BY <1>2, <1>3, <2>3, <2>4, ChargeFrame
<1> QED
  BY <1>4, <1>5

LEMMA RecoverCharges ==
  ASSUME ChargeInv, SendInv', NEW p \in Procs,
         \/ RestoreReceipt(p) \/ ReturnSaved(p) \/ HonourCancellation(p) \/ BeginSettling(p)
         \/ AbandonUnsent(p) \/ MarkUncertain(p) \/ EndSettling(p)
  PROVE  ChargeInv'
<1> DEFINE l == loc[p]
<1>1. TypeInv /\ l \in Locals /\ TrueLocals(sent, bill, pc[p], l) /\ TrueRows /\ TrueLedger
  BY DEF ChargeInv, SendInv, TypeInv, TypeOK, TrueCalls
<1>2. UNCHANGED <<sent, bill>>
  BY SentFixed DEF Recover
<1>3. \A r \in Requests : TrueRow(sent, bill, r, rows'[r])
  <2>1. \/ rows' = rows \/ (\E r, flag : Abandon(r, flag))
        \/ \E r : Record(r, "no_response", Unknown, "none")
    BY DEF RestoreReceipt, ReturnSaved, HonourCancellation, BeginSettling, AbandonUnsent,
           MarkUncertain, EndSettling, storeVars
  <2> QED
    BY <1>1, <2>1, RowsStayTrue
<1>4. \A e \in ledger' : TrueReceipt(sent, bill, e)
  <2>1. CASE ledger' = ledger
    BY <1>1, <2>1 DEF TrueLedger
  <2>2. CASE RestoreReceipt(p)
    <3>1. PICK e \in l.todo : Append(e) \/ AppendRefused \/ AppendFaulted(e)
      BY <2>2 DEF RestoreReceipt
    <3>2. TrueReceipt(sent, bill, e)
      BY <1>1, <3>1 DEF TrueLocals
    <3> QED
      BY <1>1, <3>1, <3>2, LedgerStaysTrue
  <2> QED
    BY <2>1, <2>2 DEF ReturnSaved, HonourCancellation, BeginSettling, AbandonUnsent,
         MarkUncertain,
                      EndSettling, ledgerVars
<1>5. PICK e, r, view : \/ Ending(p)
                        \/ Continue(p, "restore", [l EXCEPT !.todo = @ \ {e}])
                        \/ Continue(p, "cancelled", [l EXCEPT !.cur = r])
                        \/ Continue(p, "open", l)
                        \/ Continue(p, "open", [l EXCEPT !.view = view])
  BY DEF RestoreReceipt, ReturnSaved, HonourCancellation, BeginSettling, AbandonUnsent,
         MarkUncertain, EndSettling, Ending
<1>6. \A x \in {l, [l EXCEPT !.todo = @ \ {e}], [l EXCEPT !.cur = r], [l EXCEPT !.view = view]} :
        x.recs = l.recs /\ x.todo \subseteq l.todo
  BY <1>1 DEF Locals
<1>7. Others(p) /\ TrueLocals(sent, bill, pc'[p], loc'[p])
  BY <1>1, <1>5, <1>6, EndTrue, KeepTrue DEF InExchange, Active, PreLoop, InLoop
<1> QED
  BY <1>2, <1>3, <1>4, <1>7, ChargeFrame

-----------------------------------------------------------------------------
(* The dispatch loop before a request is sent, and after its outcome.      *)
LEMMA DispatchCharges ==
  ASSUME ChargeInv, SendInv', NEW p \in Procs,
         \/ PreCheck(p) \/ ReserveRequest(p) \/ AppendIntent(p) \/ AbandonUnrecorded(p)
         \/ CheckAgain(p) \/ RefuseSend(p) \/ AppendCancelled(p) \/ AbandonCancelled(p)
         \/ ReadOutcome(p) \/ Finish(p)
  PROVE  ChargeInv'
<1> DEFINE l == loc[p]
<1>1. TypeInv /\ l \in Locals /\ TrueRows /\ TrueLedger
  BY DEF ChargeInv, SendInv, TypeInv, TypeOK
<1>2. UNCHANGED <<sent, bill>>
  BY SentFixed DEF DispatchLoop, PreCheck, ReserveRequest, AppendIntent, AbandonUnrecorded,
       CheckAgain,
         RefuseSend, AppendCancelled, AbandonCancelled, ReadOutcome, Finish, Provider
<1>3. \A r \in Requests : TrueRow(sent, bill, r, rows'[r])
  <2>1. CASE rows' = rows \/ \E r, flag : Abandon(r, flag)
    BY <1>1, <2>1, RowsStayTrue
  <2>2. CASE \E r : rows' = [rows EXCEPT ![r] = ReservedRow]
    BY <1>1, <2>2 DEF TrueRows, TrueRow, ReservedRow, TypeInv, TypeOK, StoreTypeOK
  <2> QED
    BY <2>1, <2>2 DEF PreCheck, ReserveRequest, AppendIntent, AbandonUnrecorded, CheckAgain,
         RefuseSend, AppendCancelled, AbandonCancelled, ReadOutcome, Finish, storeVars
<1>4. \A e \in ledger' : TrueReceipt(sent, bill, e)
  <2>1. TrueReceipt(sent, bill, Intent(l.cur)) /\ TrueReceipt(sent, bill, Cancelled(l.cur))
    BY DEF TrueReceipt, Intent, Cancelled
  <2>2. \/ ledger' = ledger
        \/ \E e \in {Intent(l.cur), Cancelled(l.cur)} : Append(e) \/ AppendRefused \/ AppendFaulted(e)
    BY DEF PreCheck, ReserveRequest, AppendIntent, AbandonUnrecorded, CheckAgain,
         RefuseSend, AppendCancelled, AbandonCancelled, ReadOutcome, Finish, ledgerVars
  <2> QED
    BY <1>1, <2>1, <2>2, LedgerStaysTrue DEF TrueLedger
<1>5. \/ Ending(p)
      \/ \E place \in {"reserve", "check", "abandon", "send", "cancel", "cancelled"} : Continue(p, place, l)
      \/ \E r : Continue(p, "intent", [l EXCEPT !.cur = r, !.view = Idle.view])
  BY DEF PreCheck, ReserveRequest, AppendIntent, AbandonUnrecorded, CheckAgain,
         RefuseSend, AppendCancelled, AbandonCancelled, ReadOutcome, Finish, Ending
<1>6. \A r : LET new == [l EXCEPT !.cur = r, !.view = Idle.view]
             IN  new.recs = l.recs /\ new.todo = l.todo
  BY <1>1 DEF Locals
<1>7. Others(p) /\ TrueLocals(sent, bill, pc'[p], loc'[p])
  BY <1>1, <1>5, <1>6, EndTrue, KeepTrue DEF InExchange, Active, PreLoop, InLoop
<1> QED
  BY <1>2, <1>3, <1>4, <1>7, ChargeFrame

(* A request is sent once, so its bill is written once.                    *)
LEMMA SendCharges ==
  ASSUME ChargeInv, SendInv', NEW p \in Procs, Send(p)
  PROVE  ChargeInv'
<1> DEFINE l == loc[p]
<1>1. TypeInv /\ pc[p] = "send" /\ l \in Locals /\ l.cur \in Requests /\ l.cur \notin sent
  BY DEF ChargeInv, SendInv, TypeInv, TypeOK, LocalsOK, PlaceOK, CurOwned, Send, Busy, Unsent
<1>2. PICK cost \in Bills : bill' = [bill EXCEPT ![l.cur] = cost]
  BY DEF Send
<1>3. sent' = sent \cup {l.cur} /\ rows' = rows /\ ledger' = ledger
  BY DEF Send, storeVars, ledgerVars
<1>4. BillsStand
  BY <1>1, <1>2, <1>3 DEF BillsStand, TypeInv, TypeOK
<1>5. Others(p) /\ pc'[p] = "await" /\ loc'[p] = l
  BY <1>1, ContinueEffect DEF Send
<1>6. TrueRows' /\ TrueLedger'
  BY <1>3, <1>4, TrueStands DEF ChargeInv, TrueRows, TrueLedger
<1>7. TrueLocals(sent', bill', pc[p], l)
  BY <1>4, TrueStands DEF ChargeInv, TrueCalls
<1>8. TrueLocals(sent', bill', "await", l)
  BY <1>3, <1>7 DEF TrueLocals
<1>9. \A q \in Procs : TrueLocals(sent', bill', pc'[q], loc'[q])
  BY <1>4, <1>5, <1>8, TrueStands DEF Others, ChargeInv, TrueCalls
<1>10. TrueCalls'
  BY <1>9 DEF TrueCalls
<1> QED
  BY <1>6, <1>10 DEF ChargeInv

(* A reply states the bill or nothing, and so do its receipt and its row.  *)
LEMMA ExchangeCharges ==
  ASSUME ChargeInv, SendInv', NEW p \in Procs, Receive(p) \/ AppendOutcome(p) \/ RecordOutcome(p)
  PROVE  ChargeInv'
<1> DEFINE l == loc[p]
<1>1. TypeInv /\ l \in Locals /\ TrueLocals(sent, bill, pc[p], l) /\ TrueRows /\ TrueLedger
  BY DEF ChargeInv, SendInv, TypeInv, TypeOK, TrueCalls
<1>2. UNCHANGED <<sent, bill>> /\ l.cur \in sent
  BY <1>1, SentFixed DEF DispatchLoop, Receive, AppendOutcome, RecordOutcome, Provider,
       TrueLocals,
                         InExchange
<1>3. pc[p] \in {"outcome", "record"} => l.charge = Unknown \/ Billed(sent, bill, l.cur, l.charge)
  BY <1>1, <1>2 DEF TrueLocals, Billed
<1>4. CASE Receive(p)
  <2>1. PICK kind \in ReplyKinds, c \in {Unknown, bill[l.cur]} :
          Continue(p, "outcome", [l EXCEPT !.reply = kind, !.charge = c])
    BY <1>4 DEF Receive
  <2> DEFINE new == [l EXCEPT !.reply = kind, !.charge = c]
  <2>2. new.recs = l.recs /\ new.todo = l.todo /\ new.cur = l.cur /\ new.charge = c
    BY <1>1 DEF Locals
  <2> HIDE DEF new
  <2>3. Others(p) /\ pc'[p] = "outcome" /\ loc'[p] = new
    BY <1>1, <2>1, ContinueEffect DEF new
  <2>4. TrueLocals(sent, bill, "outcome", new)
    BY <1>1, <1>2, <2>2 DEF TrueLocals
  <2>5. rows' = rows /\ ledger' = ledger
    BY <1>4 DEF Receive, storeVars, ledgerVars
  <2> QED
    BY <1>1, <1>2, <2>3, <2>4, <2>5, ChargeFrame DEF TrueRows, TrueLedger
<1>5. CASE AppendOutcome(p)
  <2> DEFINE e == Outcome(l.cur, ExchangeStatus(l), l.charge)
             failed == [l EXCEPT !.acctFailed = TRUE]
  <2>1. PICK new \in {l, failed} : Continue(p, "record", new)
    BY <1>5 DEF AppendOutcome
  <2>2. new.recs = l.recs /\ new.todo = l.todo /\ new.cur = l.cur /\ new.charge = l.charge
    BY <1>1, <2>1 DEF Locals
  <2>3. Others(p) /\ pc'[p] = "record" /\ loc'[p] = new
    BY <1>1, <2>1, ContinueEffect
  <2>4. TrueLocals(sent, bill, "record", new)
    BY <1>1, <1>2, <1>5, <2>2 DEF TrueLocals, AppendOutcome
  <2>5. TrueReceipt(sent, bill, e)
    BY <1>3, <1>5 DEF TrueReceipt, Outcome, AppendOutcome
  <2>6. \A x \in ledger' : TrueReceipt(sent, bill, x)
    BY <1>1, <1>5, <2>5, LedgerStaysTrue DEF AppendOutcome
  <2>7. rows' = rows
    BY <1>5 DEF AppendOutcome, storeVars
  <2> QED
    BY <1>1, <1>2, <2>3, <2>4, <2>6, <2>7, ChargeFrame DEF TrueRows
<1>6. CASE RecordOutcome(p)
  <2> DEFINE new == [l EXCEPT !.cur = NoRequest, !.reply = "none", !.charge = Unknown]
  <2>1. new.recs = l.recs /\ new.todo = l.todo
    BY <1>1 DEF Locals
  <2>2. Pause(p) \/ Continue(p, "after", new)
    BY <1>6 DEF RecordOutcome
  <2>3. Others(p) /\ TrueLocals(sent, bill, pc'[p], loc'[p])
    BY <1>1, <2>1, <2>2, EndTrue, KeepTrue DEF Ending, InExchange, Active, PreLoop, InLoop
  <2>4. Record(l.cur, ExchangeStatus(l), l.charge, l.reply) /\ pc[p] = "record" /\ ledger' = ledger
    BY <1>6 DEF RecordOutcome, ledgerVars
  <2>5. \A r \in Requests : TrueRow(sent, bill, r, rows'[r])
    BY <1>1, <1>3, <2>4, RowsStayTrue
  <2> QED
    BY <1>1, <1>2, <2>3, <2>4, <2>5, ChargeFrame DEF TrueLedger
<1> QED
  BY <1>4, <1>5, <1>6

LEMMA CallCharges ==
  ASSUME ChargeInv, SendInv', NEW p \in Procs,
         Stop(p) \/ LoseLock(p) \/ \E a \in Attempts, d \in BOOLEAN : Start(p, a, d)
  PROVE  ChargeInv'
<1>1. TypeInv /\ TrueRows /\ TrueLedger /\ TrueLocals(sent, bill, pc[p], loc[p])
  BY DEF ChargeInv, SendInv, TrueCalls
<1>2. UNCHANGED <<sent, bill, rows, ledger>>
  BY DEF Stop, LoseLock, Start, Provider, storeVars, ledgerVars
<1>3. ASSUME Stop(p)
      PROVE  Others(p) /\ TrueLocals(sent, bill, pc'[p], loc'[p])
  BY <1>1, <1>3, EndTrue DEF Stop, Ending
<1>4. ASSUME LoseLock(p)
      PROVE  Others(p) /\ TrueLocals(sent, bill, pc'[p], loc'[p])
  BY <1>1, <1>4 DEF LoseLock, Others
<1>5. ASSUME \E a \in Attempts, d \in BOOLEAN : Start(p, a, d)
      PROVE  Others(p) /\ TrueLocals(sent, bill, pc'[p], loc'[p])
  <2>1. PICK a \in Attempts, d \in BOOLEAN : Start(p, a, d)
    BY <1>5
  <2> DEFINE new == [Idle EXCEPT !.att = a, !.dispatch = d]
  <2>2. new.recs = {} /\ new.todo = {}
    BY DEF Idle
  <2>3. Others(p) /\ pc'[p] = "read" /\ loc'[p] = new
    BY <1>1, <2>1 DEF Start, Goto, Local, Others, TypeInv, TypeOK
  <2> QED
    BY <2>2, <2>3 DEF TrueLocals, InExchange
<1>6. Others(p) /\ TrueLocals(sent, bill, pc'[p], loc'[p])
  BY <1>3, <1>4, <1>5
<1> QED
  BY <1>1, <1>2, <1>6, ChargeFrame DEF TrueRows, TrueLedger

LEMMA ChargeInit == Init => ChargeInv
<1> SUFFICES ASSUME Init  PROVE ChargeInv
  OBVIOUS
<1>1. SendInv
  BY SendInit
<1>2. TrueRows /\ TrueLedger
  BY DEF Init, StoreInit, LedgerInit, TrueRows, TrueRow, TrueLedger, NoRow
<1>3. TrueCalls
  BY DEF Init, TrueCalls, TrueLocals, Idle, InExchange
<1> QED
  BY <1>1, <1>2, <1>3 DEF ChargeInv

LEMMA ChargeStep == ChargeInv /\ [Next]_vars => ChargeInv'
<1> SUFFICES ASSUME ChargeInv, [Next]_vars  PROVE ChargeInv'
  OBVIOUS
<1>1. SendInv'
  BY SendStep DEF ChargeInv
<1>2. CASE UNCHANGED vars
  BY <1>1, <1>2 DEF vars, ChargeInv, TrueRows, TrueLedger, TrueCalls
<1>3. ASSUME NEW p \in Procs, Recover(p)  PROVE ChargeInv'
  BY <1>1, <1>3, ReadCharges, ImportCharges, RecoverCharges DEF Recover
<1>4. ASSUME NEW p \in Procs, DispatchLoop(p)  PROVE ChargeInv'
  BY <1>1, <1>4, DispatchCharges, SendCharges, ExchangeCharges DEF DispatchLoop
<1> QED
  BY <1>1, <1>2, <1>3, <1>4, CallCharges DEF Next, Step

(* A charge saved as known, in a row or in a receipt, is what the provider *)
(* billed for that request: receipts are restored from rows and rows       *)
(* priced from receipts, each from what an earlier call had read, and      *)
(* neither makes up a price, wherever processes lose their locks.          *)
THEOREM SavedChargesAreBills == Spec => []ChargesAreBills
<1>1. ChargeInv => ChargesAreBills
  BY DEF ChargeInv, TrueRows, TrueRow, TrueLedger, TrueReceipt, Billed, ChargesAreBills
<1> QED
  BY <1>1, ChargeInit, ChargeStep, PTL DEF Spec
-----------------------------------------------------------------------------
(* Sums of functions with a finite domain: the library defines them by     *)
(* taking one element after another out of the domain.                     *)

(* A set of numbers has a least element.                                   *)
LEMMA LeastNumber ==
  ASSUME NEW V, V \subseteq Nat, V # {}
  PROVE  \E i \in V : \A j \in V : i <= j
<1> DEFINE less == OpToRel(<, Nat)
<1>1. \A x, y \in Nat : <<x, y>> \in less <=> x < y
  BY DEF OpToRel
<1>2. IsWellFoundedOn(less, Nat)
  BY NatLessThanWellFounded
<1> HIDE DEF less
<1>3. PICK i \in V : \A j \in V : ~ (<<j, i>> \in less)
  BY <1>2, WFMin
<1>4. \A j \in V : ~(j < i)
  BY <1>1, <1>3
<1> QED
  BY <1>4

(* The element at which a sum takes a set apart, and its partial sums.     *)
AnElement(s) == CHOOSE x \in s : TRUE
Summing(g, f, D) ==
  g = [s \in SUBSET D |-> IF s = {} THEN 0 ELSE f[AnElement(s)] + g[s \ {AnElement(s)}]]

(* The partial sums of the subsets of up to n elements.                    *)
Small(D, n) == {s \in SUBSET D : Cardinality(s) <= n}
SummingTo(g, f, D, n) ==
  g = [s \in Small(D, n) |-> IF s = {} THEN 0 ELSE f[AnElement(s)] + g[s \ {AnElement(s)}]]

LEMMA RestIsSmaller ==
  ASSUME NEW D, IsFiniteSet(D), NEW s \in SUBSET D, s # {}
  PROVE  /\ AnElement(s) \in s /\ s \ {AnElement(s)} \in SUBSET D
         /\ Cardinality(s) \in Nat /\ Cardinality(s \ {AnElement(s)}) = Cardinality(s) - 1
         /\ Cardinality(s) - 1 \in Nat
<1>1. AnElement(s) \in s
  BY DEF AnElement
<1>2. IsFiniteSet(s) /\ Cardinality(s) \in Nat
  BY FS_Subset, FS_CardinalityType
<1>3. Cardinality(s \ {AnElement(s)}) = Cardinality(s) - 1
  BY <1>1, <1>2, FS_RemoveElement
<1>4. IsFiniteSet(s \ {AnElement(s)})
  BY <1>2, FS_Subset
<1>5. Cardinality(s \ {AnElement(s)}) \in Nat
  BY <1>4, FS_CardinalityType
<1> QED
  BY <1>1, <1>2, <1>3, <1>5

LEMMA SumsExist ==
  ASSUME NEW D, IsFiniteSet(D), NEW f
  PROVE  \E g : Summing(g, f, D)
<1> DEFINE bad == {n \in Nat : ~ \E g : SummingTo(g, f, D, n)}
<1>1. ASSUME bad # {} PROVE FALSE
  <2>1. PICK n \in bad : \A m \in bad : n <= m
    BY <1>1, LeastNumber
  <2>2. n # 0
    <3> DEFINE g == [s \in Small(D, 0) |-> 0]
    <3>1. \A s \in Small(D, 0) : s = {}
      <4> TAKE s \in Small(D, 0)
      <4>1. s \in SUBSET D /\ Cardinality(s) <= 0
        BY DEF Small
      <4>2. ASSUME s # {} PROVE FALSE
        <5>1. Cardinality(s) \in Nat /\ Cardinality(s) - 1 \in Nat
          BY <4>1, <4>2, RestIsSmaller
        <5> QED
          BY <4>1, <5>1
      <4> QED
        BY <4>2
    <3>2. SummingTo(g, f, D, 0)
      BY <3>1 DEF SummingTo
    <3> QED
      BY <3>2
  <2>3. PICK h : SummingTo(h, f, D, n - 1)
    <3>1. n - 1 \in Nat /\ n - 1 \notin bad
      BY <2>1, <2>2
    <3> QED
      BY <3>1
  <2> DEFINE g == [s \in Small(D, n) |-> IF s = {} THEN 0 ELSE f[AnElement(s)] + h[s \ {AnElement(s)}]]
  <2>4. ASSUME NEW s \in Small(D, n), s # {} PROVE s \ {AnElement(s)} \in Small(D, n - 1)
    <3>1. s \in SUBSET D /\ Cardinality(s) <= n
      BY DEF Small
    <3>2. /\ s \ {AnElement(s)} \in SUBSET D /\ Cardinality(s) \in Nat
          /\ Cardinality(s \ {AnElement(s)}) = Cardinality(s) - 1
      BY <2>4, <3>1, RestIsSmaller
    <3> QED
      BY <3>1, <3>2 DEF Small
  <2>5. ASSUME NEW s \in Small(D, n - 1) PROVE s \in Small(D, n) /\ g[s] = h[s]
    <3>1. s \in SUBSET D /\ Cardinality(s) <= n - 1
      BY DEF Small
    <3>2. IsFiniteSet(s) /\ Cardinality(s) \in Nat
      BY <3>1, FS_Subset, FS_CardinalityType
    <3>3. s \in Small(D, n)
      BY <3>1, <3>2 DEF Small
    <3> QED
      BY <2>3, <3>3 DEF SummingTo
  <2>6. SummingTo(g, f, D, n)
    <3>1. ASSUME NEW s \in Small(D, n)
          PROVE  g[s] = IF s = {} THEN 0 ELSE f[AnElement(s)] + g[s \ {AnElement(s)}]
      <4>1. CASE s = {}
        BY <4>1
      <4>2. CASE s # {}
        <5>1. g[s \ {AnElement(s)}] = h[s \ {AnElement(s)}]
          BY <2>4, <2>5, <4>2
        <5>2. g[s] = f[AnElement(s)] + h[s \ {AnElement(s)}]
          BY <4>2
        <5> HIDE DEF g
        <5> QED
          BY <4>2, <5>1, <5>2
      <4> QED
        BY <4>1, <4>2
    <3>2. g = [s \in Small(D, n) |-> g[s]]
      OBVIOUS
    <3> HIDE DEF g
    <3> QED
      BY <3>1, <3>2 DEF SummingTo
  <2> QED
    BY <2>1, <2>6
<1>2. Cardinality(D) \in Nat
  BY FS_CardinalityType
<1>3. PICK g : SummingTo(g, f, D, Cardinality(D))
  BY <1>1, <1>2
<1>4. Small(D, Cardinality(D)) = SUBSET D
  BY FS_Subset DEF Small
<1> QED
  BY <1>3, <1>4 DEF SummingTo, Summing

(* The sum of a function, taken apart.                                     *)
LEMMA SumIsPartialSum ==
  ASSUME NEW f, IsFiniteSet(DOMAIN f)
  PROVE  \E g : Summing(g, f, DOMAIN f) /\ SumFunction(f) = g[DOMAIN f]
<1> DEFINE h == CHOOSE g : g = [s \in SUBSET (DOMAIN f) |->
                  IF s = {} THEN 0 ELSE f[CHOOSE x \in s : TRUE] + g[s \ {CHOOSE x \in s : TRUE}]]
<1>1. \E g : g = [s \in SUBSET (DOMAIN f) |->
                  IF s = {} THEN 0 ELSE f[CHOOSE x \in s : TRUE] + g[s \ {CHOOSE x \in s : TRUE}]]
  <2>1. PICK g : Summing(g, f, DOMAIN f)
    BY SumsExist
  <2>2. g = [s \in SUBSET (DOMAIN f) |->
                  IF s = {} THEN 0 ELSE f[CHOOSE x \in s : TRUE] + g[s \ {CHOOSE x \in s : TRUE}]]
    BY <2>1 DEF Summing, AnElement
  <2> QED
    BY <2>2
<1>2. h = [s \in SUBSET (DOMAIN f) |->
                  IF s = {} THEN 0 ELSE f[CHOOSE x \in s : TRUE] + h[s \ {CHOOSE x \in s : TRUE}]]
  BY <1>1
<1>3. SumFunction(f) = h[DOMAIN f]
  BY DEF SumFunction, SumFunctionOnSet, FoldFunctionOnSet, MapThenFoldSet
<1> HIDE DEF h
<1> QED
  BY <1>2, <1>3 DEF Summing, AnElement

(* What holds of the empty set, and of a set if of the rest of it, holds   *)
(* of every subset.                                                        *)
LEMMA SubsetsHave ==
  ASSUME NEW D, IsFiniteSet(D), NEW P, {} \in P,
         \A s \in SUBSET D : s # {} /\ s \ {AnElement(s)} \in P => s \in P
  PROVE  SUBSET D \subseteq P
<1> DEFINE bad == {Cardinality(s) : s \in (SUBSET D) \ P}
<1>1. ASSUME bad # {} PROVE FALSE
  <2>1. bad \subseteq Nat
    BY FS_Subset, FS_CardinalityType
  <2>2. PICK n \in bad : \A m \in bad : n <= m
    BY <1>1, <2>1, LeastNumber
  <2>3. PICK s \in (SUBSET D) \ P : n = Cardinality(s)
    OBVIOUS
  <2>4. s # {}
    BY <2>3
  <2>5. /\ s \ {AnElement(s)} \in SUBSET D /\ Cardinality(s) \in Nat
        /\ Cardinality(s \ {AnElement(s)}) = Cardinality(s) - 1
    BY <2>3, <2>4, RestIsSmaller
  <2>6. s \ {AnElement(s)} \in P
    <3>1. Cardinality(s \ {AnElement(s)}) \notin bad
      BY <2>2, <2>3, <2>5
    <3> QED
      BY <2>5, <3>1
  <2> QED
    BY <2>3, <2>4, <2>6
<1> QED
  BY <1>1

LEMMA EmptySum ==
  ASSUME NEW D, NEW f, NEW g, Summing(g, f, D)
  PROVE  g[{}] = 0
<1>1. {} \in SUBSET D
  OBVIOUS
<1> QED
  BY <1>1 DEF Summing

LEMMA PartialSum ==
  ASSUME NEW D, IsFiniteSet(D), NEW f, NEW g, Summing(g, f, D), NEW s \in SUBSET D
  PROVE  s # {} => AnElement(s) \in s /\ g[s] = f[AnElement(s)] + g[s \ {AnElement(s)}]
  BY RestIsSmaller DEF Summing

(* A sum of numbers is one, and no summand exceeds it.                     *)
LEMMA SumBounds ==
  ASSUME NEW D, IsFiniteSet(D), NEW f \in [D -> Nat]
  PROVE  SumFunction(f) \in Nat /\ \A x \in D : f[x] <= SumFunction(f)
<1>1. PICK g : Summing(g, f, D) /\ SumFunction(f) = g[D]
  BY SumIsPartialSum
<1> DEFINE P == {s \in SUBSET D : g[s] \in Nat /\ \A x \in s : f[x] <= g[s]}
<1>2. {} \in P
  BY <1>1, EmptySum
<1>3. ASSUME NEW s \in SUBSET D, s # {}, s \ {AnElement(s)} \in P PROVE s \in P
  <2>1. AnElement(s) \in s /\ g[s] = f[AnElement(s)] + g[s \ {AnElement(s)}]
    <3>1. s # {}
      BY <1>3
    <3> HIDE DEF P
    <3> QED
      BY <1>1, <3>1, PartialSum
  <2>2. f[AnElement(s)] \in Nat /\ g[s \ {AnElement(s)}] \in Nat
    BY <1>3, <2>1
  <2>3. ASSUME NEW x \in s PROVE f[x] <= g[s]
    <3>1. CASE x = AnElement(s)
      BY <2>1, <2>2, <3>1
    <3>2. CASE x # AnElement(s)
      <4>1. f[x] \in Nat /\ f[x] <= g[s \ {AnElement(s)}]
        BY <1>3, <3>2
      <4> QED
        BY <2>1, <2>2, <4>1
    <3> QED
      BY <3>1, <3>2
  <2> QED
    BY <2>1, <2>2, <2>3
<1> HIDE DEF P
<1>4. D \in P
  BY <1>2, <1>3, SubsetsHave
<1> QED
  BY <1>1, <1>4 DEF P

LEMMA SumOfNothing ==
  ASSUME NEW D, IsFiniteSet(D)
  PROVE  SumFunction([x \in D |-> 0]) = 0
<1>1. PICK f : f = [x \in D |-> 0]
  OBVIOUS
<1>2. PICK g : Summing(g, f, D) /\ SumFunction(f) = g[D]
  BY <1>1, SumIsPartialSum
<1> DEFINE P == {s \in SUBSET D : g[s] = 0}
<1>3. {} \in P
  BY <1>2, EmptySum
<1>4. ASSUME NEW s \in SUBSET D, s # {}, s \ {AnElement(s)} \in P PROVE s \in P
  BY <1>1, <1>2, <1>4, PartialSum
<1> HIDE DEF P
<1>5. D \in P
  BY <1>3, <1>4, SubsetsHave
<1> QED
  BY <1>1, <1>2, <1>5 DEF P

LEMMA SumGrows ==
  ASSUME NEW D, IsFiniteSet(D), NEW f \in [D -> Nat], NEW h \in [D -> Nat], \A x \in D : f[x] <= h[x]
  PROVE  SumFunction(f) <= SumFunction(h)
<1>1. PICK g : Summing(g, f, D) /\ SumFunction(f) = g[D]
  BY SumIsPartialSum
<1>2. PICK k : Summing(k, h, D) /\ SumFunction(h) = k[D]
  BY SumIsPartialSum
<1> DEFINE P == {s \in SUBSET D : g[s] \in Nat /\ k[s] \in Nat /\ g[s] <= k[s]}
<1>3. {} \in P
  BY <1>1, <1>2, EmptySum
<1>4. ASSUME NEW s \in SUBSET D, s # {}, s \ {AnElement(s)} \in P PROVE s \in P
  <2>1. /\ AnElement(s) \in s /\ g[s] = f[AnElement(s)] + g[s \ {AnElement(s)}]
        /\ k[s] = h[AnElement(s)] + k[s \ {AnElement(s)}]
    <3>1. AnElement(s) \in s /\ g[s] = f[AnElement(s)] + g[s \ {AnElement(s)}]
      BY <1>1, <1>4, PartialSum
    <3>2. k[s] = h[AnElement(s)] + k[s \ {AnElement(s)}]
      BY <1>2, <1>4, PartialSum
    <3> QED
      BY <3>1, <3>2
  <2>2. f[AnElement(s)] \in Nat /\ h[AnElement(s)] \in Nat /\ f[AnElement(s)] <= h[AnElement(s)]
    BY <2>1
  <2> QED
    BY <1>4, <2>1, <2>2
<1> HIDE DEF P
<1>5. D \in P
  BY <1>3, <1>4, SubsetsHave
<1> QED
  BY <1>1, <1>2, <1>5 DEF P

LEMMA SumExcept ==
  ASSUME NEW D, IsFiniteSet(D), NEW f \in [D -> Nat], NEW x \in D, NEW v \in Nat
  PROVE  SumFunction([f EXCEPT ![x] = v]) = SumFunction(f) - f[x] + v
<1>1. PICK h : h = [f EXCEPT ![x] = v]
  OBVIOUS
<1>2. h \in [D -> Nat] /\ h[x] = v /\ \A y \in D : y # x => h[y] = f[y]
  BY <1>1
<1>3. PICK g : Summing(g, f, D) /\ SumFunction(f) = g[D]
  BY SumIsPartialSum
<1>4. PICK k : Summing(k, h, D) /\ SumFunction(h) = k[D]
  BY <1>2, SumIsPartialSum
<1> DEFINE P == {s \in SUBSET D : /\ g[s] \in Nat /\ k[s] \in Nat
                                 /\ k[s] = IF x \in s THEN g[s] - f[x] + v ELSE g[s]}
<1>5. {} \in P
  BY <1>3, <1>4, EmptySum
<1>6. ASSUME NEW s \in SUBSET D, s # {}, s \ {AnElement(s)} \in P PROVE s \in P
  <2>1. /\ AnElement(s) \in s /\ g[s] = f[AnElement(s)] + g[s \ {AnElement(s)}]
        /\ k[s] = h[AnElement(s)] + k[s \ {AnElement(s)}]
    BY <1>3, <1>4, <1>6, PartialSum
  <2>2. f[AnElement(s)] \in Nat /\ h[AnElement(s)] \in Nat /\ f[x] \in Nat
    BY <1>2, <2>1
  <2>3. CASE AnElement(s) = x
    BY <1>2, <1>6, <2>1, <2>2, <2>3
  <2>4. CASE AnElement(s) # x
    <3>1. h[AnElement(s)] = f[AnElement(s)] /\ (x \in s <=> x \in s \ {AnElement(s)})
      BY <1>2, <2>1, <2>4
    <3> QED
      BY <1>6, <2>1, <2>2, <3>1
  <2> QED
    BY <2>3, <2>4
<1> HIDE DEF P
<1>7. D \in P
  BY <1>5, <1>6, SubsetsHave
<1> QED
  BY <1>1, <1>3, <1>4, <1>7 DEF P

-----------------------------------------------------------------------------
(* The cap: what the provider bills stays within it, wherever processes    *)
(* lose their locks after they settled what they found.                    *)

(* A reserved row holds its reservation, and only a row that is not or no  *)
(* longer there holds nothing.                                             *)
Held(row) == /\ row.status = "reserved" => row.charge = "pending"
             /\ row.charge = "none" => row.status \in {"none", "abandoned"}
RowsBacked == \A r \in Requests : Held(rows[r])

(* Only sent requests are billed, none above its reservation.              *)
BillsReserved ==
  \A r \in Requests : bill[r] <= Reservation /\ (r \notin sent => bill[r] = 0)

CapInv == ReleaseInv /\ ChargeInv /\ RowsBacked /\ BillsReserved /\ CommittedSpend <= Cap

(* The steps that write a row, but for the reservation.                    *)
RowWrite ==
  \/ rows' = rows
  \/ \E r, flag : Abandon(r, flag)
  \/ \E r, c : Reconcile(r, c)
  \/ \E r, c, reply : \E status \in {"responded", "no_response"} : Record(r, status, c, reply)
NewRow(row, new) ==
  \/ new = row
  \/ \E flag : new = AbandonedRow(row, flag)
  \/ \E c : new = ReconciledRow(row, c)
  \/ \E c, reply : \E status \in {"responded", "no_response"} :
       new = RecordedRow(row, status, c, reply)

LEMMA RecoverWrites ==
  ASSUME TypeInv, NEW p \in Procs, Recover(p)
  PROVE  RowWrite /\ UNCHANGED <<sent, bill>>
<1>1. CASE ReconcileLate(p)
  BY <1>1 DEF ReconcileLate, RowWrite, Provider
<1>2. CASE AbandonUnsent(p)
  BY <1>2 DEF AbandonUnsent, RowWrite, Provider
<1>3. CASE ImportOutcome(p)
  <2>1. PICK r \in Requests, e \in loc[p].recs :
          e.type = "request_outcome" /\ Record(r, e.outcome, e.charge, "none")
    BY <1>3 DEF ImportOutcome, FirstOpen, OpenOf
  <2>2. e.outcome \in {"responded", "no_response"}
    BY <2>1 DEF TypeInv, TypeOK, Locals, Receipts
  <2> QED
    BY <1>3, <2>1, <2>2 DEF ImportOutcome, RowWrite, Provider
<1>4. CASE MarkUncertain(p)
  BY <1>4 DEF MarkUncertain, RowWrite, Provider
<1>5. CASE ~ReconcileLate(p) /\ ~AbandonUnsent(p) /\ ~ImportOutcome(p) /\ ~MarkUncertain(p)
  BY <1>5 DEF Recover, ReadAttempt, CreateAttempt, ReadReceipts, ReadAgain, RestoreReceipt,
     ReturnSaved, HonourCancellation, BeginSettling, EndSettling, RowWrite, storeVars, Provider
<1> QED
  BY <1>1, <1>2, <1>3, <1>4, <1>5

LEMMA DispatchWrites ==
  ASSUME NEW p \in Procs, DispatchLoop(p), ~ReserveRequest(p)
  PROVE  RowWrite /\ (Send(p) \/ UNCHANGED <<sent, bill>>)
<1>1. CASE AbandonUnrecorded(p) \/ AbandonCancelled(p)
  BY <1>1 DEF AbandonUnrecorded, AbandonCancelled, RowWrite, Provider
<1>2. CASE RecordOutcome(p)
  <2>1. Record(loc[p].cur, ExchangeStatus(loc[p]), loc[p].charge, loc[p].reply)
    BY <1>2 DEF RecordOutcome
  <2>2. ExchangeStatus(loc[p]) \in {"responded", "no_response"}
    BY DEF ExchangeStatus
  <2> QED
    BY <1>2, <2>1, <2>2 DEF RecordOutcome, RowWrite, Provider
<1>3. CASE Send(p)
  BY <1>3 DEF Send, RowWrite, storeVars
<1>4. CASE ~AbandonUnrecorded(p) /\ ~AbandonCancelled(p) /\ ~RecordOutcome(p) /\ ~Send(p)
  BY <1>4 DEF DispatchLoop, PreCheck, AppendIntent, CheckAgain, RefuseSend, AppendCancelled,
     Receive, AppendOutcome, ReadOutcome, Finish, RowWrite, storeVars, Provider
<1> QED
  BY <1>1, <1>2, <1>3, <1>4

(* A step writes at most one row, which then stands for no more than       *)
(* before, or reserves a request within the cap; only a send bills.        *)
LEMMA StepWrites ==
  ASSUME TypeInv, [Next]_vars
  PROVE  /\ RowWrite \/ \E p \in Procs : ReserveRequest(p)
         /\ (\E p \in Procs : Send(p)) \/ UNCHANGED <<sent, bill>>
<1>1. CASE UNCHANGED vars
  BY <1>1 DEF vars, RowWrite
<1>2. ASSUME NEW p \in Procs, Stop(p) \/ LoseLock(p) \/ \E a \in Attempts, d \in BOOLEAN : Start(p, a, d)
      PROVE  RowWrite /\ UNCHANGED <<sent, bill>>
  BY <1>2 DEF Stop, LoseLock, Start, RowWrite, storeVars, Provider
<1>3. ASSUME NEW p \in Procs, ReserveRequest(p)
      PROVE  UNCHANGED <<sent, bill>>
  BY <1>3 DEF ReserveRequest, Provider
<1> QED
  BY <1>1, <1>2, <1>3, RecoverWrites, DispatchWrites DEF Next, Step

LEMMA WrittenRows ==
  ASSUME TypeInv, RowWrite
  PROVE  \A r \in Requests : NewRow(rows[r], rows'[r])
<1>1. rows \in [Requests -> Rows]
  BY DEF TypeInv, TypeOK, StoreTypeOK
<1>2. CASE \E r, flag : Abandon(r, flag)
  BY <1>1, <1>2 DEF Abandon, NewRow
<1>3. CASE \E r, c : Reconcile(r, c)
  BY <1>1, <1>3 DEF Reconcile, NewRow
<1>4. CASE \E r, c, reply : \E status \in {"responded", "no_response"} : Record(r, status, c, reply)
  BY <1>1, <1>4 DEF Record, NewRow
<1> QED
  BY <1>2, <1>3, <1>4 DEF RowWrite, NewRow

(* No write makes a row stand for more, if it is priced within the         *)
(* reservation: dropped reservations stand for nothing, unknown charges    *)
(* for the whole reservation.                                              *)
LEMMA NewRowHeld ==
  ASSUME NEW row \in Rows, Held(row), NEW new \in Rows, NewRow(row, new),
         new.charge = "known" => new.amount <= Reservation
  PROVE  Held(new) /\ Committed(new) <= Committed(row)
<1> USE MoneyAssumption
<1>1. CASE new = row
  BY <1>1 DEF Committed, Rows
<1>2. CASE \E flag : new = AbandonedRow(row, flag)
  BY <1>2 DEF AbandonedRow, Committed, Rows, Held
<1>3. CASE \E c : new = ReconciledRow(row, c)
  BY <1>3 DEF ReconciledRow, Committed, Rows, Held, Settled
<1>4. CASE \E c, reply : \E status \in {"responded", "no_response"} :
             new = RecordedRow(row, status, c, reply)
  <2> PICK c, reply : \E status \in {"responded", "no_response"} :
                        new = RecordedRow(row, status, c, reply)
    BY <1>4
  <2>1. PICK status \in {"responded", "no_response"} : new = RecordedRow(row, status, c, reply)
    OBVIOUS
  <2>2. CASE row.status = "reserved"
    BY <2>1, <2>2 DEF RecordedRow, Committed, Rows, Held
  <2>3. CASE row.status # "reserved"
    BY <2>1, <2>3 DEF RecordedRow, ReconciledRow, Committed, Rows, Held, Settled
  <2> QED
    BY <2>2, <2>3
<1> QED
  BY <1>1, <1>2, <1>3, <1>4 DEF NewRow

LEMMA CommittedType == ASSUME NEW row \in Rows PROVE Committed(row) \in Nat
BY MoneyAssumption DEF Committed, Rows

LEMMA CommittedFunction ==
  ASSUME TypeInv
  PROVE  [r \in Requests |-> Committed(rows[r])] \in [Requests -> Nat]
<1>1. \A r \in Requests : Committed(rows[r]) \in Nat
  BY CommittedType DEF TypeInv, TypeOK, StoreTypeOK
<1> QED
  BY <1>1

LEMMA RequestsFinite == IsFiniteSet(Attempts) => IsFiniteSet(Requests)
<1>1. IsFiniteSet(1 .. MaxRequests)
  BY MaxRequestsAssumption, FS_Interval
<1> QED
  BY <1>1, FS_Product DEF Requests

(* Bills stay within reservations.                                         *)
LEMMA BillsStay ==
  ASSUME TypeInv, BillsReserved, [Next]_vars, Bills \subseteq 0 .. Reservation
  PROVE  BillsReserved'
<1>1. CASE UNCHANGED <<sent, bill>>
  BY <1>1 DEF BillsReserved
<1>2. ASSUME NEW p \in Procs, Send(p) PROVE BillsReserved'
  <2>1. PICK cost \in Bills : bill' = [bill EXCEPT ![loc[p].cur] = cost]
    BY <1>2 DEF Send
  <2>2. sent' = sent \cup {loc[p].cur}
    BY <1>2 DEF Send
  <2>3. bill \in [Requests -> Nat] /\ cost <= Reservation
    BY MoneyAssumption DEF TypeInv, TypeOK
  <2> QED
    BY <2>1, <2>2, <2>3 DEF BillsReserved
<1> QED
  BY <1>1, <1>2, StepWrites

LEMMA CommittedStays ==
  ASSUME CapInv, ReleaseInv', ChargeInv', BillsReserved', RowWrite, IsFiniteSet(Attempts)
  PROVE  RowsBacked' /\ (CommittedSpend <= Cap)'
<1>1. TypeInv /\ TypeInv'
  BY DEF CapInv, ReleaseInv, SendInv
<1>2. rows \in [Requests -> Rows] /\ rows' \in [Requests -> Rows] /\ bill' \in [Requests -> Nat]
  BY <1>1 DEF TypeInv, TypeOK, StoreTypeOK
<1>3. ASSUME NEW r \in Requests
      PROVE  Held(rows'[r]) /\ Committed(rows'[r]) <= Committed(rows[r])
  <2>1. NewRow(rows[r], rows'[r])
    BY <1>1, WrittenRows
  <2>2. rows'[r].charge = "known" => rows'[r].amount <= Reservation
    BY <1>2 DEF ChargeInv, TrueRows, TrueRow, Billed, BillsReserved
  <2>3. Held(rows[r])
    BY DEF CapInv, RowsBacked
  <2> QED
    BY <1>2, <2>1, <2>2, <2>3, NewRowHeld
<1>4. PICK old : old = [r \in Requests |-> Committed(rows[r])]
  OBVIOUS
<1>5. PICK new : new = [r \in Requests |-> Committed(rows'[r])]
  OBVIOUS
<1>6. old \in [Requests -> Nat]
  BY <1>1, <1>4, CommittedFunction
<1>7. new \in [Requests -> Nat]
  <2>1. \A r \in Requests : Committed(rows'[r]) \in Nat
    BY <1>2, CommittedType
  <2> QED
    BY <1>5, <2>1
<1>8. \A r \in Requests : new[r] <= old[r]
  BY <1>3, <1>4, <1>5
<1>9. SumFunction(new) <= SumFunction(old)
  BY <1>6, <1>7, <1>8, RequestsFinite, SumGrows
<1>10. SumFunction(new) \in Nat /\ SumFunction(old) \in Nat
  <2>1. SumFunction(new) \in Nat
    BY <1>7, RequestsFinite, SumBounds
  <2>2. SumFunction(old) \in Nat
    BY <1>6, RequestsFinite, SumBounds
  <2> QED
    BY <2>1, <2>2
<1>11. SumFunction(old) <= Cap
  BY <1>4 DEF CapInv, CommittedSpend
<1>12. SumFunction(new) <= Cap
  BY <1>9, <1>10, <1>11, MoneyAssumption
<1>13. RowsBacked'
  BY <1>3 DEF RowsBacked
<1> QED
  BY <1>5, <1>12, <1>13 DEF CommittedSpend

LEMMA ReserveStays ==
  ASSUME CapInv, NEW p \in Procs, ReserveRequest(p), IsFiniteSet(Attempts)
  PROVE  RowsBacked' /\ (CommittedSpend <= Cap)'
<1>1. TypeInv
  BY DEF CapInv, ReleaseInv, SendInv
<1>2. rows \in [Requests -> Rows]
  BY <1>1 DEF TypeInv, TypeOK, StoreTypeOK
<1>3. CASE rows' = rows
  BY <1>3 DEF CapInv, RowsBacked, CommittedSpend
<1>4. CASE rows' # rows
  <2>1. PICK r \in Requests : /\ rows[r] = NoRow /\ FitsCap
                              /\ rows' = [rows EXCEPT ![r] = ReservedRow]
    BY <1>4 DEF ReserveRequest
  <2>2. RowsBacked'
    BY <1>2, <2>1 DEF CapInv, RowsBacked, Held, ReservedRow
  <2>3. PICK old : old = [q \in Requests |-> Committed(rows[q])]
    OBVIOUS
  <2>4. PICK new : new = [q \in Requests |-> Committed(rows'[q])]
    OBVIOUS
  <2>5. old \in [Requests -> Nat]
    BY <1>1, <2>3, CommittedFunction
  <2>6. old[r] = 0 /\ Committed(ReservedRow) = Reservation
    BY <2>1, <2>3 DEF Committed, NoRow, ReservedRow
  <2>7. new = [old EXCEPT ![r] = Reservation]
    BY <1>2, <2>1, <2>3, <2>4, <2>6
  <2>8. SumFunction(new) = SumFunction(old) - old[r] + Reservation
    BY <2>5, <2>7, RequestsFinite, MoneyAssumption, SumExcept
  <2>9. SumFunction(old) \in Nat
    BY <2>5, RequestsFinite, SumBounds
  <2>10. SumFunction(old) + Reservation <= Cap
    BY <2>1, <2>3 DEF FitsCap, CommittedSpend
  <2>11. SumFunction(new) <= Cap
    BY <2>6, <2>8, <2>9, <2>10, MoneyAssumption
  <2> QED
    BY <2>2, <2>4, <2>11 DEF CommittedSpend
<1> QED
  BY <1>3, <1>4

LEMMA CapInit ==
  ASSUME IsFiniteSet(Attempts)
  PROVE  Init => CapInv
<1> SUFFICES ASSUME Init PROVE CapInv
  OBVIOUS
<1>1. ReleaseInv /\ ChargeInv
  BY ReleaseInit, ChargeInit
<1>2. RowsBacked /\ BillsReserved
  BY MoneyAssumption DEF Init, StoreInit, RowsBacked, Held, BillsReserved, NoRow
<1>3. [r \in Requests |-> Committed(rows[r])] = [r \in Requests |-> 0]
  BY DEF Init, StoreInit, Committed, NoRow
<1>4. CommittedSpend = 0
  BY <1>3, RequestsFinite, SumOfNothing DEF CommittedSpend
<1> QED
  BY <1>1, <1>2, <1>4, MoneyAssumption DEF CapInv

LEMMA CapStep ==
  ASSUME StallPoints \cap PreLoop = {}, Bills \subseteq 0 .. Reservation, IsFiniteSet(Attempts)
  PROVE  CapInv /\ [Next]_vars => CapInv'
<1> SUFFICES ASSUME CapInv, [Next]_vars PROVE CapInv'
  OBVIOUS
<1>1. ReleaseInv /\ ChargeInv /\ TypeInv /\ BillsReserved
  BY DEF CapInv, ReleaseInv, SendInv
<1>2. ReleaseInv' /\ ChargeInv'
  BY <1>1, ReleaseStep, ChargeStep
<1>3. BillsReserved'
  BY <1>1, BillsStay
<1>4. RowsBacked' /\ (CommittedSpend <= Cap)'
  BY <1>1, <1>2, <1>3, StepWrites, CommittedStays, ReserveStays
<1> QED
  BY <1>2, <1>3, <1>4 DEF CapInv

(* A bill is within what its row stands for: a sent request's row is never *)
(* released, and one without a known charge stands for its reservation.    *)
LEMMA BillsCommitted ==
  ASSUME CapInv, IsFiniteSet(Attempts)
  PROVE  WithinCap
<1>1. TypeInv
  BY DEF CapInv, ReleaseInv, SendInv
<1>2. PICK old : old = [r \in Requests |-> Committed(rows[r])]
  OBVIOUS
<1>3. old \in [Requests -> Nat] /\ bill \in [Requests -> Nat] /\ rows \in [Requests -> Rows]
  BY <1>1, <1>2, CommittedFunction DEF TypeInv, TypeOK, StoreTypeOK
<1>4. ASSUME NEW r \in Requests PROVE bill[r] <= old[r]
  <2>1. old[r] = Committed(rows[r]) /\ old[r] \in Nat /\ rows[r] \in Rows
    BY <1>2, <1>3
  <2>2. bill[r] \in Nat /\ bill[r] <= Reservation /\ (r \notin sent => bill[r] = 0)
    BY <1>3 DEF CapInv, BillsReserved
  <2>3. CASE r \notin sent
    BY <2>1, <2>2, <2>3
  <2>4. CASE r \in sent
    <3>1. rows[r].status \notin {"none", "abandoned"}
      BY <2>4 DEF CapInv, ReleaseInv, SendInv, Rowed, LiveRows, Gone
    <3>2. rows[r].charge # "none"
      BY <3>1 DEF CapInv, RowsBacked, Held
    <3>3. rows[r].charge = "known" => rows[r].amount = bill[r]
      BY DEF CapInv, ChargeInv, TrueRows, TrueRow, Billed
    <3> QED
      BY <2>1, <2>2, <3>2, <3>3, MoneyAssumption DEF Committed, Rows
  <2> QED
    BY <2>3, <2>4
<1>5. SumFunction(bill) <= SumFunction(old)
  BY <1>3, <1>4, RequestsFinite, SumGrows
<1>6. SumFunction(bill) \in Nat
  BY <1>3, RequestsFinite, SumBounds
<1>7. SumFunction(old) \in Nat
  BY <1>3, RequestsFinite, SumBounds
<1>8. SumFunction(old) <= Cap
  BY <1>2 DEF CapInv, CommittedSpend
<1> QED
  BY <1>5, <1>6, <1>7, <1>8, MoneyAssumption DEF WithinCap

(* What the provider bills for the run, over all its attempts and whatever *)
(* was lost on the way, stays within the cap, if no single bill exceeds    *)
(* its reservation and a process loses its lock only after it has settled  *)
(* what it found: the cap is checked against what the rows stand for, and  *)
(* no row comes to stand for less than its request is billed.              *)
THEOREM BilledWithinCap ==
  ASSUME IsFiniteSet(Attempts), Bills \subseteq 0 .. Reservation, StallPoints \cap PreLoop = {}
  PROVE  Spec => []WithinCap
<1>1. CapInv => WithinCap
  BY BillsCommitted
<1>2. CapInv /\ [Next]_vars => CapInv'
  BY CapStep
<1>3. Init => CapInv
  BY CapInit
<1> QED
  BY <1>1, <1>2, <1>3, PTL DEF Spec

-----------------------------------------------------------------------------
(* StageExecutor implements PaidAttempts. *)

(* The places from a call's decision to dispatch to its last exchange; up  *)
(* to the send; and with a row of its own that is not sent.                *)
Dispatching == {"precheck", "reserve", "intent", "abandon", "check", "cancel", "send",
                "await", "outcome", "record", "after"}
BeforeSend == {"precheck", "reserve", "intent", "check", "send"}
Holding == {"intent", "check", "send"}
OnReply == {"valid", "invalid", "verification_unresolved"}

Retryable(row) == row.status = "responded" /\ row.reply = "retryable"
Fixed(row) == row.status \notin {"none", "reserved"}
Shape(row) == row.reply # "none" => row.status \in {"responded", "no_response"}

(* What stays of a row as it was read: it does not disappear or open       *)
(* again, and a saved reply stands.                                        *)
Stands(old, row) == /\ old.status # "none" => row.status # "none"
                    /\ Fixed(old) => Fixed(row)
                    /\ old.reply # "none" => row.status = old.status /\ row.reply = old.reply

(* The rows of an attempt are numbered without gaps; only the last one may *)
(* be open; replies are of sent requests, and so are outcomes in the       *)
(* ledger unless the row is settled without a reply.                       *)
Filled(view, a) == \E k \in 0 .. MaxRequests :
                     \A r \in Requests : view[r].status # "none" <=> r[1] = a /\ r[2] <= k
RowsInOrder == \A a \in Attempts : Filled(RowsOf(a), a)
OneOpen == \A r, q \in Requests :
             r[1] = q[1] /\ q[2] < r[2] /\ rows[r].status # "none" => rows[q].status # "reserved"
RepliesSent == \A r \in Requests : Shape(rows[r]) /\ (rows[r].reply # "none" => r \in sent)
OutcomesKnown == \A r \in Requests : HasOutcome(ledger, r) => r \in sent \/ Fixed(rows[r])

(* Of the sent requests of an attempt all but the last may be retried and  *)
(* are accounted for; a verdict on a reply leaves none open.               *)
SentInOrder == \A r, q \in sent : r[1] = q[1] /\ q[2] < r[2] =>
                                    Retryable(rows[q]) /\ HasOutcome(ledger, q)
NoneOpen(a) == \A r \in SentOf(a) : rows[r].status # "reserved"
DecidedClosed == \A a \in Attempts : attempts[a] \in OnReply => NoneOpen(a)

StoreInv == RowsInOrder /\ OneOpen /\ RepliesSent /\ OutcomesKnown /\ SentInOrder /\ DecidedClosed

(* What a call knows from the rows it has read, whoever holds the lock.    *)
KnowsRows(p) ==
  pc[p] \in {"restore", "open", "precheck", "reserve"} =>
    /\ Filled(loc[p].view, loc[p].att)
    /\ \A r \in Requests : Shape(loc[p].view[r]) /\ Stands(loc[p].view[r], rows[r])
    /\ pc[p] \in {"precheck", "reserve"} => OpenOf(loc[p].view) = {}
    /\ pc[p] = "restore" => \A e \in loc[p].todo : Fixed(rows[e.req])
OwnRequest(p) == pc[p] \in Busy \ {"cancelled"} => loc[p].cur[1] = loc[p].att
HoldsSend(p) == pc[p] = "send" => owner = p

(* What the holder of the lock knows: in recovery, of every sent request   *)
(* of its attempt; later, that the attempt is undecided, ...               *)
KnowsSent(p) ==
  pc[p] \in {"restore", "open"} =>
    /\ loc[p].status = attempts[loc[p].att]
    /\ pc[p] = "open" => loc[p].status \notin Terminal
    /\ \A r \in SentOf(loc[p].att) :
         /\ loc[p].view[r].status \notin {"none", "abandoned"}
         /\ Settled(loc[p].view[r]) =>
              \/ HasOutcome(ledger, r)
              \/ pc[p] = "restore" /\ \E e \in loc[p].todo : e.type = "request_outcome" /\ e.req = r
Undecided(p) == owner = p /\ pc[p] \in Dispatching => attempts[loc[p].att] = "pending"

(* ... up to the send, that another request is within the allowance, ...   *)
Allowed(a) == /\ Cardinality(SentOf(a)) <= MaxRetries
              /\ \A r \in SentOf(a) : Retryable(rows[r]) /\ HasOutcome(ledger, r)
MaySend(p) == owner = p /\ pc[p] \in BeforeSend => Allowed(loc[p].att)
HoldsRow(p) == owner = p /\ pc[p] \in Holding => rows[loc[p].cur].status = "reserved"

(* ... in the exchange, that its request is the last one, ...              *)
LastSent(p) == owner = p /\ pc[p] \in InExchange =>
                 \A q \in SentOf(loc[p].att) : q[2] <= loc[p].cur[2]
Accounts(p) == owner = p /\ ~loc[p].acctFailed =>
                 /\ pc[p] = "record" => HasOutcome(ledger, loc[p].cur)
                 /\ pc[p] = "after" => \A r \in SentOf(loc[p].att) : HasOutcome(ledger, r)

(* ... and in the end, that a verdict on a reply rests on one.             *)
Evidence(a) == /\ NoneOpen(a)
               /\ \E r \in SentOf(a) : /\ rows[r].reply \notin {"none", "retryable"}
                                       /\ Luna => HasOutcome(ledger, r)
Concludes(p) == owner = p /\ pc[p] = "finish" /\ loc[p].goal \in OnReply => Evidence(loc[p].att)

CallInv(p) == /\ KnowsRows(p) /\ OwnRequest(p) /\ HoldsSend(p)
              /\ KnowsSent(p) /\ Undecided(p) /\ MaySend(p) /\ HoldsRow(p)
              /\ LastSent(p) /\ Accounts(p) /\ Concludes(p)

PaidInv == ReleaseInv /\ ChargeInv /\ StoreInv /\ \A p \in Procs : CallInv(p)
-----------------------------------------------------------------------------
(* Lemmas about the operators of the model. *)

LEMMA RequestParts ==
  /\ \A r \in Requests : r[1] \in Attempts /\ r[2] \in 1 .. MaxRequests
  /\ \A r, q \in Requests : r[1] = q[1] /\ r[2] = q[2] => r = q
  /\ \A a \in Attempts, n \in 1 .. MaxRequests :
       <<a, n>> \in Requests /\ <<a, n>>[1] = a /\ <<a, n>>[2] = n
BY DEF Requests

(* The rows of a gapless view are counted by the number of the last one.   *)
LEMMA FilledCount ==
  ASSUME NEW a \in Attempts, NEW k \in 0 .. MaxRequests, NEW view,
         \A r \in Requests : view[r].status # "none" <=> r[1] = a /\ r[2] <= k
  PROVE  IsFiniteSet(RecordedOf(view)) /\ Cardinality(RecordedOf(view)) = k
<1> DEFINE f == [n \in 1 .. k |-> <<a, n>>]
<1>1. k \in Nat /\ MaxRequests \in Nat /\ 1 .. k \subseteq 1 .. MaxRequests
  BY MaxRequestsAssumption
<1>2. \A n \in 1 .. k : f[n] \in RecordedOf(view)
  BY <1>1, RequestParts DEF RecordedOf
<1>3. \A r \in RecordedOf(view) : r[2] \in 1 .. k /\ f[r[2]] = r
  BY <1>1, RequestParts DEF RecordedOf
<1>4. \A m, n \in 1 .. k : f[m] = f[n] => m = n
  OBVIOUS
<1>5. f \in [1 .. k -> RecordedOf(view)]
  BY <1>2
<1>6. f \in Bijection(1 .. k, RecordedOf(view))
  BY <1>3, <1>4, <1>5 DEF Bijection, Injection, Surjection, IsInjective
<1>7. IsFiniteSet(1 .. k) /\ Cardinality(1 .. k) = k
  BY <1>1, FS_Interval
<1> QED
  BY <1>6, <1>7, FS_Bijection DEF ExistsBijection

(* What a statement does to a row, and to all of them: none appears or     *)
(* disappears, none opens, and a reply is saved for a sent request.        *)
RowMoves(old, new) == /\ Stands(old, new)
                      /\ old.status = "none" => new.status = "none"
                      /\ new.status = "reserved" => old.status = "reserved"
                      /\ Shape(new)
RowsMove == \A r \in Requests : /\ RowMoves(rows[r], rows'[r])
                                /\ rows'[r].reply # "none" => rows[r].reply # "none" \/ r \in sent

LEMMA RowStays == ASSUME NEW row, Shape(row)  PROVE RowMoves(row, row)
BY DEF RowMoves, Stands

LEMMA RowMovesBy ==
  ASSUME NEW row \in Rows, Shape(row), NEW c, NEW flag,
         NEW status \in {"responded", "no_response"}, NEW reply
  PROVE  /\ RowMoves(row, AbandonedRow(row, flag)) /\ AbandonedRow(row, flag).reply = row.reply
         /\ RowMoves(row, ReconciledRow(row, c)) /\ ReconciledRow(row, c).reply = row.reply
         /\ RowMoves(row, RecordedRow(row, status, c, reply))
         /\ RecordedRow(row, status, c, reply).reply \in {row.reply, reply}
<1>1. RowMoves(row, AbandonedRow(row, flag)) /\ AbandonedRow(row, flag).reply = row.reply
  BY DEF AbandonedRow, Rows, RowMoves, Stands, Shape, Fixed
<1>2. RowMoves(row, ReconciledRow(row, c)) /\ ReconciledRow(row, c).reply = row.reply
  BY DEF ReconciledRow, Rows, RowMoves, Stands, Shape, Fixed
<1>3. CASE row.status = "reserved"
  BY <1>1, <1>2, <1>3 DEF RecordedRow, Rows, RowMoves, Stands, Shape, Fixed
<1>4. CASE row.status # "reserved"
  BY <1>1, <1>2, <1>4, RowStays DEF RecordedRow
<1> QED
  BY <1>1, <1>2, <1>3, <1>4

LEMMA RowsMoveBy ==
  ASSUME TypeInv, RepliesSent,
         \/ rows' = rows
         \/ \E r, flag : Abandon(r, flag)
         \/ \E r, c : Reconcile(r, c)
         \/ \E r, c, reply : \E status \in {"responded", "no_response"} :
              Record(r, status, c, reply) /\ (reply = "none" \/ r \in sent)
  PROVE  RowsMove
<1>1. rows \in [Requests -> Rows] /\ \A r \in Requests : Shape(rows[r])
  BY DEF TypeInv, TypeOK, StoreTypeOK, RepliesSent
<1>2. CASE rows' = rows
  BY <1>1, <1>2, RowStays DEF RowsMove
<1>3. CASE \E r, flag : Abandon(r, flag)
  BY <1>1, <1>3, RowStays, RowMovesBy DEF RowsMove, Abandon
<1>4. CASE \E r, c : Reconcile(r, c)
  BY <1>1, <1>4, RowStays, RowMovesBy DEF RowsMove, Reconcile
<1>5. CASE \E r, c, reply : \E status \in {"responded", "no_response"} :
              Record(r, status, c, reply) /\ (reply = "none" \/ r \in sent)
  <2>1. PICK r, c, reply : \E status \in {"responded", "no_response"} :
              Record(r, status, c, reply) /\ (reply = "none" \/ r \in sent)
    BY <1>5
  <2>2. PICK status \in {"responded", "no_response"} :
              Record(r, status, c, reply) /\ (reply = "none" \/ r \in sent)
    BY <2>1
  <2>3. \A x \in Requests : /\ x # r => rows'[x] = rows[x]
                            /\ x = r => rows'[x] = RecordedRow(rows[x], status, c, reply)
    BY <1>1, <2>2 DEF Record
  <2> QED
    BY <1>1, <2>2, <2>3, RowStays, RowMovesBy DEF RowsMove
<1> QED
  BY <1>2, <1>3, <1>4, <1>5

(* What is known of a row stays known while rows move.                     *)
LEMMA StandsOn ==
  ASSUME NEW old, NEW mid, NEW new, Stands(old, mid), Stands(mid, new)
  PROVE  Stands(old, new)
BY DEF Stands

LEMMA RetryableStands ==
  ASSUME NEW old, NEW new, Stands(old, new), Retryable(old)
  PROVE  Retryable(new)
BY DEF Stands, Retryable
-----------------------------------------------------------------------------
(* What a step leaves to the others.  Only the lock's holder decides an    *)
(* attempt and only at the send something is sent, so the holder knows all *)
(* of both; rows and ledger only grow.                                     *)
RowsHeld(p) == \A q \in Procs : q # p /\ owner = q /\ pc[q] \in Holding =>
                                  rows'[loc[q].cur] = rows[loc[q].cur]

LEMMA SentFacts ==
  ASSUME PaidInv
  PROVE  /\ TypeInv /\ sent \subseteq Requests /\ rows \in [Requests -> Rows]
         /\ \A r \in sent : rows[r].status \notin {"none", "abandoned"}
         /\ \A r \in Requests : Shape(rows[r])
BY DEF PaidInv, ReleaseInv, SendInv, TypeInv, TypeOK, StoreTypeOK, Rowed, LiveRows, Gone,
     StoreInv,
       RepliesSent

LEMMA Bystander ==
  ASSUME PaidInv, NEW p \in Procs, NEW q \in Procs, q # p, Others(p), OwnerStep(p),
         \A r \in Requests : Stands(rows[r], rows'[r]), RowsHeld(p), ledger \subseteq ledger',
         sent' = sent \/ owner = p, attempts' = attempts \/ owner = p
  PROVE  CallInv(q)'
<1>1. pc'[q] = pc[q] /\ loc'[q] = loc[q] /\ (owner' = q <=> owner = q)
  BY ExecutorAssumption DEF Others, OwnerStep
<1>2. CallInv(q) /\ (pc[q] \in {"restore", "open"} => owner = q)
  BY DEF PaidInv, ReleaseInv, RecoveryOwns, PreLoop
<1>3. owner = q => sent' = sent /\ attempts' = attempts
  OBVIOUS
<1>4. loc[q] \in Locals /\ PlaceOK(pc[q], loc[q], attempts) /\ rows \in [Requests -> Rows]
      /\ sent \subseteq Requests /\ TypeInv
  BY SentFacts DEF TypeInv, TypeOK, LocalsOK
<1>5. \A r \in Requests : HasOutcome(ledger, r) => HasOutcome(ledger', r)
  BY DEF HasOutcome
<1>6. \A r \in Requests : Retryable(rows[r]) => Retryable(rows'[r])
  BY RetryableStands
<1>7. KnowsRows(q)'
  <2>1. ASSUME pc[q] = "restore"  PROVE \A e \in loc[q].todo : e.req \in Requests
    BY <1>4 DEF Locals, Receipts
  <2>2. \A r \in Requests : Fixed(rows[r]) => Fixed(rows'[r])
    BY DEF Stands
  <2>3. \A r \in Requests : Stands(loc[q].view[r], rows[r]) => Stands(loc[q].view[r], rows'[r])
    BY StandsOn
  <2> QED
    BY <1>1, <1>2, <2>1, <2>2, <2>3 DEF CallInv, KnowsRows, Filled
<1>8. OwnRequest(q)' /\ HoldsSend(q)' /\ Undecided(q)'
  BY <1>1, <1>2, <1>3 DEF CallInv, OwnRequest, HoldsSend, Undecided
<1>9. KnowsSent(q)'
  <2>1. ASSUME pc[q] \in {"restore", "open"}
        PROVE  attempts' = attempts /\ sent' = sent /\ SentOf(loc[q].att)' = SentOf(loc[q].att)
               /\ SentOf(loc[q].att) \subseteq Requests
    BY <1>1, <1>2, <1>3, <1>4, <2>1 DEF SentOf
  <2> QED
    BY <1>1, <1>2, <1>5, <2>1 DEF CallInv, KnowsSent
<1>10. ASSUME owner = q
       PROVE  SentOf(loc[q].att)' = SentOf(loc[q].att) /\ SentOf(loc[q].att) \subseteq Requests
  BY <1>1, <1>3, <1>4, <1>10 DEF SentOf
<1>11. MaySend(q)' /\ LastSent(q)'
  BY <1>1, <1>2, <1>5, <1>6, <1>10 DEF CallInv, MaySend, Allowed, LastSent
<1>12. HoldsRow(q)'
  BY <1>1, <1>2 DEF CallInv, HoldsRow, RowsHeld
<1>13. Accounts(q)'
  <2>1. pc[q] = "record" => loc[q].cur \in Requests
    BY <1>4 DEF PlaceOK, Busy
  <2> QED
    BY <1>1, <1>2, <1>5, <1>10, <2>1 DEF CallInv, Accounts
<1>14. Concludes(q)'
  <2>1. SUFFICES ASSUME owner = q, pc[q] = "finish", loc[q].goal \in OnReply
                 PROVE  Evidence(loc[q].att)'
    BY <1>1 DEF Concludes
  <2>2. Evidence(loc[q].att)
    BY <1>2, <2>1 DEF CallInv, Concludes
  <2>3. \A r \in SentOf(loc[q].att) : rows[r].status # "none"
    BY SentFacts DEF SentOf
  <2>4. \A r \in SentOf(loc[q].att) : Fixed(rows'[r])
    BY <1>10, <2>1, <2>2, <2>3 DEF Evidence, NoneOpen, Fixed, Stands
  <2>5. \A r \in SentOf(loc[q].att) : rows[r].reply \notin {"none", "retryable"} =>
                                         rows'[r].reply \notin {"none", "retryable"}
    BY <1>10, <2>1 DEF Stands
  <2> QED
    BY <1>5, <1>10, <2>1, <2>2, <2>4, <2>5 DEF Evidence, NoneOpen, Fixed
<1> QED
  BY <1>7, <1>8, <1>9, <1>11, <1>12, <1>13, <1>14 DEF CallInv

(* The store's part of the invariant, over every step that does not        *)
(* reserve or send.                                                        *)
LEMMA StoreFrame ==
  ASSUME PaidInv, RowsMove, sent' = sent, ledger \subseteq ledger',
         \A r \in Requests : HasOutcome(ledger', r) =>
                               HasOutcome(ledger, r) \/ r \in sent \/ Fixed(rows[r]),
         \A a \in Attempts : attempts'[a] \in OnReply => attempts[a] \in OnReply \/ NoneOpen(a)
  PROVE  StoreInv'
<1>1. StoreInv /\ sent \subseteq Requests /\ TypeInv
  BY SentFacts DEF PaidInv
<1>2. \A r \in Requests : /\ rows'[r].status = "none" <=> rows[r].status = "none"
                          /\ rows'[r].status = "reserved" => rows[r].status = "reserved"
                          /\ Stands(rows[r], rows'[r]) /\ Shape(rows'[r])
                          /\ rows'[r].reply # "none" => rows[r].reply # "none" \/ r \in sent
  BY DEF RowsMove, RowMoves, Stands
<1>3. RowsInOrder'
  <2>1. \A a \in Attempts, r \in Requests :
          RowsOf(a)'[r].status # "none" <=> RowsOf(a)[r].status # "none"
    BY <1>2 DEF RowsOf
  <2> QED
    BY <1>1, <2>1 DEF StoreInv, RowsInOrder, Filled
<1>4. OneOpen'
  BY <1>1, <1>2 DEF StoreInv, OneOpen
<1>5. RepliesSent'
  BY <1>1, <1>2 DEF StoreInv, RepliesSent
<1>6. OutcomesKnown'
  <2>1. \A r \in Requests : Fixed(rows[r]) => Fixed(rows'[r])
    BY <1>2 DEF Stands
  <2> QED
    BY <1>1, <2>1 DEF StoreInv, OutcomesKnown
<1>7. SentInOrder'
  <2>1. \A r \in Requests : HasOutcome(ledger, r) => HasOutcome(ledger', r)
    BY DEF HasOutcome
  <2>2. \A r \in Requests : Retryable(rows[r]) => Retryable(rows'[r])
    BY <1>2, RetryableStands
  <2> QED
    BY <1>1, <2>1, <2>2 DEF StoreInv, SentInOrder
<1>8. DecidedClosed'
  <2>1. \A a \in Attempts : NoneOpen(a) => NoneOpen(a)'
    BY <1>1, <1>2 DEF NoneOpen, SentOf
  <2> QED
    BY <1>1, <2>1 DEF StoreInv, DecidedClosed
<1> QED
  BY <1>3, <1>4, <1>5, <1>6, <1>7, <1>8 DEF StoreInv

(* An ordinary step: it moves rows, adds to the ledger and goes on with    *)
(* one call.                                                               *)
Ordinary(p) == /\ Others(p) /\ OwnerStep(p) /\ RowsMove /\ RowsHeld(p)
               /\ sent' = sent /\ ledger \subseteq ledger'
               /\ \A r \in Requests : HasOutcome(ledger', r) =>
                                       HasOutcome(ledger, r) \/ r \in sent \/ Fixed(rows[r])
               /\ \/ attempts' = attempts
                  \/ owner = p /\ \A a \in Attempts : attempts'[a] \in OnReply =>
                                     attempts[a] \in OnReply \/ NoneOpen(a)

LEMMA StepFrame ==
  ASSUME PaidInv, ReleaseInv', ChargeInv', NEW p \in Procs, Ordinary(p), CallInv(p)'
  PROVE  PaidInv'
<1>1. StoreInv'
  BY StoreFrame DEF Ordinary, PaidInv, StoreInv, DecidedClosed
<1>2. \A r \in Requests : Stands(rows[r], rows'[r])
  BY DEF Ordinary, RowsMove, RowMoves
<1>3. \A q \in Procs : q # p => CallInv(q)'
  BY <1>2, Bystander DEF Ordinary
<1> QED
  BY <1>1, <1>3 DEF PaidInv

(* A place at which a call claims nothing.                                 *)
LEMMA QuietPlace ==
  ASSUME NEW p \in Procs, pc'[p] \in {"idle", "read", "create", "receipts", "reconcile",
         "cancelled"}
  PROVE  CallInv(p)'
BY DEF CallInv, KnowsRows, OwnRequest, HoldsSend, KnowsSent, Undecided, MaySend, HoldsRow,
     LastSent,
       Accounts, Concludes, Dispatching, BeforeSend, Holding, InExchange, Busy, Unsent

LEMMA SettleCall ==
  ASSUME TypeInv, NEW p \in Procs, NEW l, NEW verdict, Settle(p, l, verdict),
         verdict \in OnReply /\ owner = p => Evidence(l.att)'
  PROVE  CallInv(p)' /\ Others(p) /\ OwnerStep(p)
<1> DEFINE new == [Idle EXCEPT !.att = l.att, !.acctFailed = l.acctFailed, !.goal = verdict]
<1>1. new.att = l.att /\ new.goal = verdict
  BY DEF Idle
<1>2. Others(p) /\ pc'[p] = "finish" /\ loc'[p] = new /\ owner' = owner
  BY ContinueEffect DEF Settle
<1> HIDE DEF new
<1>3. Concludes(p)'
  BY <1>1, <1>2 DEF Concludes
<1> QED
  BY <1>2, <1>3 DEF OwnerStep, CallInv, KnowsRows, OwnRequest, HoldsSend, KnowsSent, Undecided,
       MaySend,
     HoldsRow, LastSent, Accounts, Dispatching, BeforeSend, Holding, InExchange, Busy, Unsent

LEMMA LeaveCall ==
  ASSUME TypeInv, NEW p \in Procs, Pause(p) \/ \E status : Return(p, status)
  PROVE  CallInv(p)' /\ Others(p) /\ OwnerStep(p)
<1>1. Others(p) /\ pc'[p] = "idle" /\ owner' = IF owner = p THEN NoProc ELSE owner
  BY LeaveEffect DEF Pause, Return
<1> QED
  BY <1>1, QuietPlace DEF OwnerStep
-----------------------------------------------------------------------------
(* The top of the dispatch loop: the verdict on the last request rests on  *)
(* its reply, or another request is allowed.                               *)
LoopKnown(p, l) ==
  /\ Filled(l.view, l.att)
  /\ \A r \in Requests : Shape(l.view[r]) /\ Stands(l.view[r], rows[r])
  /\ OpenOf(l.view) = {} \/ l.view = RowsOf(l.att)
  /\ owner = p => /\ attempts[l.att] = "pending"
                  /\ \A r \in SentOf(l.att) : Physical(l.view[r]) /\ HasOutcome(ledger, r)

(* A last request with a reply is sent, and the others before it may be    *)
(* retried.                                                                *)
LEMMA LastReplied ==
  ASSUME PaidInv, NEW l \in Locals, NEW last \in LastOf(PhysicalOf(l.view)),
         l.view[last].reply # "none", \A r \in Requests : Shape(l.view[r]) /\ Stands(l.view[r], rows[r]),
         \A r \in Requests : l.view[r].status # "none" => r[1] = l.att
  PROVE  /\ last \in SentOf(l.att)
         /\ rows[last].status = l.view[last].status /\ rows[last].reply = l.view[last].reply
         /\ \A r \in SentOf(l.att) : Physical(l.view[r]) => r = last \/ Retryable(rows[r])
<1>1. last \in Requests /\ last[1] = l.att
      /\ \A r \in Requests : Physical(l.view[r]) => r[2] <= last[2]
  BY DEF LastOf, PhysicalOf, Physical
<1>2. rows[last].status = l.view[last].status /\ rows[last].reply = l.view[last].reply
  BY <1>1 DEF Stands
<1>3. last \in sent
  BY <1>1, <1>2 DEF PaidInv, StoreInv, RepliesSent
<1>4. ASSUME NEW r \in SentOf(l.att), Physical(l.view[r])
      PROVE  r = last \/ Retryable(rows[r])
  <2>1. r \in sent /\ r \in Requests /\ r[1] = l.att /\ r[2] <= last[2]
    BY <1>1, <1>4, SentFacts DEF SentOf
  <2>2. r[2] \in Int /\ last[2] \in Int
    BY <1>1, <2>1, RequestParts
  <2>3. CASE r[2] = last[2]
    BY <1>1, <2>1, <2>3, RequestParts
  <2>4. CASE r[2] < last[2]
    BY <1>1, <1>3, <2>1, <2>4 DEF PaidInv, StoreInv, SentInOrder
  <2> QED
    BY <2>1, <2>2, <2>3, <2>4
<1> QED
  BY <1>1, <1>2, <1>3, <1>4 DEF SentOf

LEMMA VerdictRests ==
  ASSUME PaidInv, NEW l \in Locals, NEW last \in LastOf(PhysicalOf(l.view)),
         Conclude(l.view[last]) \in OnReply, Filled(l.view, l.att),
         \A r \in Requests : Shape(l.view[r]) /\ Stands(l.view[r], rows[r]),
         \A r \in SentOf(l.att) : Physical(l.view[r]) /\ (Luna => HasOutcome(ledger, r))
  PROVE  Evidence(l.att)
<1>1. l.view[last] \in Rows /\ last \in Requests
  BY DEF Locals, LastOf, PhysicalOf
<1>2. l.view[last].reply \notin {"none", "retryable"} /\ l.view[last].status # "reserved"
  BY <1>1 DEF Conclude, OnReply, Shape, Rows, ReplyKinds
<1>3. /\ last \in SentOf(l.att) /\ rows[last].status = l.view[last].status
      /\ rows[last].reply = l.view[last].reply
      /\ \A r \in SentOf(l.att) : r = last \/ Retryable(rows[r])
  BY <1>2, LastReplied DEF Filled
<1>4. NoneOpen(l.att)
  BY <1>2, <1>3 DEF NoneOpen, Retryable
<1> QED
  BY <1>2, <1>3, <1>4 DEF Evidence

LEMMA LoopAllows ==
  ASSUME PaidInv, NEW p \in Procs, NEW l \in Locals, LoopKnown(p, l),
         \/ PhysicalOf(l.view) = {}
         \/ /\ \E last \in LastOf(PhysicalOf(l.view)) : Conclude(l.view[last]) = "pending"
            /\ Cardinality(PhysicalOf(l.view)) <= MaxRetries
  PROVE  OpenOf(l.view) = {} /\ (owner = p => Allowed(l.att))
<1> DEFINE phys == PhysicalOf(l.view)
<1>1. l.att \in Attempts /\ SentOf(l.att) \subseteq Requests
  BY SentFacts DEF Locals, SentOf
<1>2. IsFiniteSet(phys)
  <2>1. PICK k \in 0 .. MaxRequests : \A r \in Requests : l.view[r].status # "none" <=> r[1] = l.att /\ r[2] <= k
    BY DEF LoopKnown, Filled
  <2>2. IsFiniteSet(RecordedOf(l.view)) /\ phys \subseteq RecordedOf(l.view)
    BY <1>1, <2>1, FilledCount DEF PhysicalOf, RecordedOf, Physical
  <2> QED
    BY <2>2, FS_Subset
<1>3. owner = p => SentOf(l.att) \subseteq phys
  BY <1>1 DEF LoopKnown, PhysicalOf
<1>4. owner = p => Cardinality(SentOf(l.att)) \in Nat /\ Cardinality(SentOf(l.att)) <= Cardinality(phys)
                   /\ Cardinality(phys) \in Nat
  BY <1>2, <1>3, FS_Subset, FS_CardinalityType
<1>5. CASE phys = {}
  <2>1. OpenOf(l.view) = {}
    BY <1>5 DEF OpenOf, PhysicalOf, Physical
  <2>2. owner = p => SentOf(l.att) = {} /\ Cardinality(SentOf(l.att)) = 0
    BY <1>3, <1>5, FS_EmptySet
  <2> QED
    BY <2>1, <2>2, ExecutorAssumption DEF Allowed
<1>6. CASE /\ \E last \in LastOf(phys) : Conclude(l.view[last]) = "pending"
           /\ Cardinality(phys) <= MaxRetries
  <2>1. PICK last \in LastOf(phys) : Conclude(l.view[last]) = "pending"
    BY <1>6
  <2>2. last \in Requests /\ l.view[last] \in Rows /\ Shape(l.view[last])
    BY <2>1 DEF LastOf, PhysicalOf, Locals, LoopKnown
  <2>3. Retryable(l.view[last])
    BY <2>1, <2>2 DEF Conclude, Retryable, Shape, Rows, ReplyKinds
  <2>4. /\ last \in SentOf(l.att) /\ Retryable(rows[last])
        /\ \A r \in SentOf(l.att) : Physical(l.view[r]) => r = last \/ Retryable(rows[r])
    BY <2>3, LastReplied DEF LoopKnown, Filled, Retryable
  <2>5. owner = p => Allowed(l.att)
    BY <1>4, <1>6, <2>4, ExecutorAssumption DEF Allowed, LoopKnown
  <2>6. ASSUME l.view = RowsOf(l.att), NEW r \in OpenOf(l.view)  PROVE FALSE
    <3>1. r \in Requests /\ r[1] = l.att /\ rows[r].status = "reserved" /\ r[2] <= last[2]
      BY <2>1, <2>6 DEF OpenOf, RowsOf, NoRow, LastOf, PhysicalOf, Physical
    <3>2. r # last /\ last[1] = l.att /\ rows[last].status # "none"
      BY <2>4, <3>1 DEF Retryable, SentOf
    <3>3. r[2] < last[2]
      BY <2>2, <3>1, <3>2, RequestParts
    <3> QED
      BY <2>2, <3>1, <3>2, <3>3 DEF PaidInv, StoreInv, OneOpen
  <2> QED
    BY <2>5, <2>6 DEF LoopKnown
<1> QED
  BY <1>5, <1>6

LEMMA LoopCall ==
  ASSUME PaidInv, NEW p \in Procs, NEW l \in Locals, Loop(p, l), LoopKnown(p, l),
         UNCHANGED <<rows, ledger, sent, attempts>>
  PROVE  CallInv(p)' /\ Others(p) /\ OwnerStep(p)
<1>1. TypeInv
  BY SentFacts
<1>2. CASE Pause(p)
  BY <1>1, <1>2, LeaveCall
<1>3. CASE \E last \in LastOf(PhysicalOf(l.view)) : Settle(p, l, Conclude(l.view[last]))
  <2>1. PICK last \in LastOf(PhysicalOf(l.view)) : Settle(p, l, Conclude(l.view[last]))
    BY <1>3
  <2>2. Conclude(l.view[last]) \in OnReply /\ owner = p => Evidence(l.att)
    BY VerdictRests DEF LoopKnown
  <2>3. Evidence(l.att)' <=> Evidence(l.att)
    BY DEF Evidence, NoneOpen, SentOf
  <2> QED
    BY <1>1, <2>1, <2>2, <2>3, SettleCall
<1>4. CASE Settle(p, l, "failed")
  BY <1>1, <1>4, SettleCall DEF OnReply
<1>5. CASE /\ l.dispatch /\ Dispatch(p, l)
           /\ \/ PhysicalOf(l.view) = {}
              \/ /\ \E last \in LastOf(PhysicalOf(l.view)) : Conclude(l.view[last]) = "pending"
                 /\ Cardinality(PhysicalOf(l.view)) <= MaxRetries
  <2> DEFINE new == [Idle EXCEPT !.att = l.att, !.dispatch = TRUE, !.view = l.view]
  <2>1. new.att = l.att /\ new.view = l.view
    BY DEF Idle
  <2>2. Others(p) /\ pc'[p] = "precheck" /\ loc'[p] = new /\ owner' = owner
    BY <1>1, <1>5, ContinueEffect DEF Dispatch
  <2> HIDE DEF new
  <2>3. OpenOf(l.view) = {} /\ (owner = p => Allowed(l.att))
    BY <1>5, LoopAllows
  <2>4. Allowed(l.att)' <=> Allowed(l.att)
    BY DEF Allowed, SentOf
  <2>5. KnowsRows(p)'
    BY <2>1, <2>2, <2>3 DEF KnowsRows, LoopKnown, Filled
  <2>6. Undecided(p)' /\ MaySend(p)'
    BY <2>1, <2>2, <2>3, <2>4 DEF Undecided, MaySend, LoopKnown, Allowed, SentOf
  <2> QED
    BY <2>2, <2>5, <2>6 DEF OwnerStep, CallInv, OwnRequest, HoldsSend, KnowsSent, HoldsRow,
       LastSent, Accounts, Concludes, Holding, InExchange, Busy, Unsent
<1> QED
  BY <1>2, <1>3, <1>4, <1>5 DEF Loop, Dispatch

-----------------------------------------------------------------------------
(* Recovery. *)

LEMMA RecoveryHolds ==
  ASSUME PaidInv, NEW p \in Procs, pc[p] \in PreLoop
  PROVE  owner = p /\ RowsHeld(p)
BY DEF PaidInv, ReleaseInv, RecoveryOwns, RowsHeld

(* A step that writes nothing but its call.                                *)
LEMMA CallStep ==
  ASSUME PaidInv, ReleaseInv', ChargeInv', NEW p \in Procs, UNCHANGED <<rows, ledger, sent,
         attempts>>,
         Others(p), OwnerStep(p), CallInv(p)'
  PROVE  PaidInv'
<1>1. RowsMove
  BY SentFacts, RowsMoveBy DEF PaidInv, StoreInv
<1> QED
  BY <1>1, StepFrame DEF Ordinary, RowsHeld

(* Steps to a place at which nothing is claimed.                           *)
LEMMA QuietPaid ==
  ASSUME PaidInv, ReleaseInv', ChargeInv', NEW p \in Procs,
         \/ ReadAttempt(p) \/ CreateAttempt(p) \/ ReadReceipts(p) \/ ReconcileLate(p)
         \/ ReturnSaved(p) \/ HonourCancellation(p) \/ Stop(p)
         \/ \E a \in Attempts, d \in BOOLEAN : Start(p, a, d)
  PROVE  PaidInv'
<1>1. TypeInv /\ RepliesSent
  BY SentFacts DEF PaidInv, StoreInv
<1>2. sent' = sent /\ ledger' = ledger
  BY DEF ReadAttempt, CreateAttempt, ReadReceipts, ReconcileLate, ReturnSaved, HonourCancellation,
       Stop,
         Start, ledgerVars, Provider
<1>3. RowsMove
  BY <1>1, RowsMoveBy DEF ReadAttempt, CreateAttempt, ReadReceipts, ReconcileLate, ReturnSaved,
     HonourCancellation, Stop, Start, storeVars
<1>4. Others(p) /\ OwnerStep(p)
      /\ pc'[p] \in {"idle", "read", "create", "receipts", "reconcile", "cancelled"}
  <2>1. CASE \/ Pause(p) \/ (\E status : Return(p, status))
             \/ \E place \in {"read", "create", "receipts", "reconcile", "cancelled"} : \E l : Continue(p, place, l)
    BY <1>1, <2>1, LeaveCall, LeaveEffect, ContinueEffect DEF OwnerStep, Pause, Return
  <2>2. CASE \E a \in Attempts, d \in BOOLEAN : Start(p, a, d)
    BY <1>1, <2>2 DEF Start, Goto, Local, Others, OwnerStep, TypeInv, TypeOK
  <2> QED
    BY <2>1, <2>2 DEF ReadAttempt, CreateAttempt, ReadReceipts, ReconcileLate, ReturnSaved,
       HonourCancellation, Stop
<1>5. CallInv(p)'
  BY <1>4, QuietPlace
<1>6. RowsHeld(p)
  <2>1. CASE rows' = rows
    BY <2>1 DEF RowsHeld
  <2>2. CASE ReconcileLate(p)
    BY <2>2, RecoveryHolds DEF ReconcileLate, PreLoop
  <2> QED
    BY <2>1, <2>2 DEF ReadAttempt, CreateAttempt, ReadReceipts, ReturnSaved, HonourCancellation,
         Stop, Start,
       storeVars
<1>7. \/ attempts' = attempts
      \/ owner = p /\ \A a \in Attempts : attempts'[a] \in OnReply => attempts[a] \in OnReply \/ NoneOpen(a)
  <2>1. CASE CreateAttempt(p)
    <3>1. owner = p
      BY <2>1, RecoveryHolds DEF CreateAttempt, PreLoop
    <3>2. \A a \in Attempts : attempts'[a] = attempts[a] \/ attempts'[a] = "pending"
      BY <1>1, <2>1 DEF CreateAttempt, TypeInv, TypeOK, StoreTypeOK
    <3> QED
      BY <3>1, <3>2 DEF OnReply
  <2> QED
    BY <2>1 DEF ReadAttempt, ReadReceipts, ReconcileLate, ReturnSaved, HonourCancellation, Stop,
         Start,
       storeVars
<1> QED
  BY <1>2, <1>3, <1>4, <1>5, <1>6, <1>7, StepFrame DEF Ordinary

(* What a call reads of its rows it knows.                                 *)
LEMMA FreshView ==
  ASSUME PaidInv, NEW a \in Attempts
  PROVE  /\ Filled(RowsOf(a), a)
         /\ \A r \in Requests : Shape(RowsOf(a)[r]) /\ Stands(RowsOf(a)[r], rows[r])
         /\ \A r \in SentOf(a) : RowsOf(a)[r] = rows[r] /\ Physical(RowsOf(a)[r])
<1>1. Filled(RowsOf(a), a)
  BY DEF PaidInv, StoreInv, RowsInOrder
<1>2. \A r \in Requests : Shape(RowsOf(a)[r]) /\ Stands(RowsOf(a)[r], rows[r])
  BY SentFacts DEF RowsOf, NoRow, Stands, Shape, Fixed
<1>3. \A r \in SentOf(a) : RowsOf(a)[r] = rows[r] /\ Physical(RowsOf(a)[r])
  BY SentFacts DEF RowsOf, SentOf, Physical, Rows
<1> QED
  BY <1>1, <1>2, <1>3

LEMMA ReadAgainPaid ==
  ASSUME PaidInv, ReleaseInv', ChargeInv', NEW p \in Procs, ReadAgain(p)
  PROVE  PaidInv'
<1> DEFINE l == loc[p]
           view == RowsOf(l.att)
           missing == {r \in Requests : Settled(view[r]) /\ ~HasOutcome(l.recs, r)}
           lost == {Outcome(r, view[r].status, IF view[r].charge = "known" THEN view[r].amount
                                               ELSE Unknown) : r \in missing}
           new == [l EXCEPT !.view = view, !.status = attempts[l.att], !.todo = lost]
<1>1. TypeInv /\ l \in Locals /\ l.att \in Attempts /\ pc[p] = "reconcile" /\ l.recs \subseteq ledger
  BY SentFacts DEF TypeInv, TypeOK, Locals, ReadAgain, PaidInv, ReleaseInv, RecoveryKnows, Knows
<1>2. UNCHANGED <<rows, ledger, sent, attempts>>
  BY DEF ReadAgain, storeVars, ledgerVars, Provider
<1>3. Others(p) /\ pc'[p] = "restore" /\ loc'[p] = new /\ owner' = owner
  BY <1>1, ContinueEffect DEF ReadAgain
<1>4. \A e \in lost : e.req \in missing
  BY DEF Outcome
<1>5. \A r \in missing : \E e \in lost : e.type = "request_outcome" /\ e.req = r
  <2> SUFFICES ASSUME NEW r \in missing  PROVE \E e \in lost : e.type = "request_outcome" /\ e.req = r
    OBVIOUS
  <2> WITNESS Outcome(r, view[r].status, IF view[r].charge = "known" THEN view[r].amount ELSE Unknown) \in lost
  <2> QED
    BY DEF Outcome
<1>6. \A r \in missing : Fixed(rows[r])
  BY DEF Settled, RowsOf, NoRow, Fixed
<1>7. \A r \in Requests : Settled(view[r]) => HasOutcome(ledger, r) \/ r \in missing
  BY <1>1 DEF HasOutcome
<1> HIDE DEF view, missing, lost
<1>8. new.view = view /\ new.status = attempts[l.att] /\ new.todo = lost /\ new.att = l.att
  BY <1>1 DEF Locals
<1> HIDE DEF new
<1>9. KnowsRows(p)'
  BY <1>1, <1>2, <1>3, <1>4, <1>6, <1>8, FreshView DEF KnowsRows, Filled, view
<1>10. KnowsSent(p)'
  <2>1. \A r \in SentOf(l.att) : r \in Requests /\ view[r].status \notin {"none", "abandoned"}
    BY <1>1, FreshView, SentFacts DEF view, SentOf, Physical
  <2> QED
    BY <1>2, <1>3, <1>5, <1>7, <1>8, <2>1 DEF KnowsSent, HasOutcome, SentOf
<1>11. CallInv(p)'
  BY <1>3, <1>9, <1>10 DEF CallInv, OwnRequest, HoldsSend, Undecided, MaySend, HoldsRow, LastSent,
       Accounts,
     Concludes, Dispatching, BeforeSend, Holding, InExchange, Busy, Unsent
<1> QED
  BY <1>2, <1>3, <1>11, CallStep DEF OwnerStep

LEMMA RestorePaid ==
  ASSUME PaidInv, ReleaseInv', ChargeInv', NEW p \in Procs, RestoreReceipt(p)
  PROVE  PaidInv'
<1> DEFINE l == loc[p]
<1>1. TypeInv /\ l \in Locals /\ pc[p] = "restore" /\ CallInv(p) /\ RepliesSent
  BY SentFacts DEF TypeInv, TypeOK, RestoreReceipt, PaidInv, StoreInv
<1>2. UNCHANGED <<rows, sent, attempts>> /\ RowsMove /\ RowsHeld(p)
  BY <1>1, RowsMoveBy DEF RestoreReceipt, storeVars, Provider, RowsHeld
<1>3. PICK e \in l.todo :
        /\ Append(e) \/ AppendRefused \/ AppendFaulted(e)
        /\ Pause(p) \/ (Append(e) /\ Continue(p, "restore", [l EXCEPT !.todo = @ \ {e}]))
  BY DEF RestoreReceipt
<1>4. e \in Receipts /\ e.req \in Requests /\ Fixed(rows[e.req])
  BY <1>1, <1>3 DEF Locals, Receipts, CallInv, KnowsRows
<1>5. ledger \subseteq ledger' /\ ledger' \subseteq ledger \cup {e}
  BY <1>3, AppendEffect
<1>6. \A r \in Requests : HasOutcome(ledger', r) => HasOutcome(ledger, r) \/ Fixed(rows[r])
  BY <1>4, <1>5 DEF HasOutcome
<1>7. CASE Pause(p)
  BY <1>1, <1>2, <1>5, <1>6, <1>7, LeaveCall, StepFrame DEF Ordinary
<1>8. CASE Append(e) /\ Continue(p, "restore", [l EXCEPT !.todo = @ \ {e}])
  <2> DEFINE new == [l EXCEPT !.todo = @ \ {e}]
  <2>1. /\ new.todo = l.todo \ {e} /\ new.view = l.view /\ new.att = l.att
        /\ new.status = l.status
    BY <1>1 DEF Locals
  <2> HIDE DEF new
  <2>2. Others(p) /\ pc'[p] = "restore" /\ loc'[p] = new /\ owner' = owner
    BY <1>1, <1>8, ContinueEffect DEF new
  <2>3. KnowsRows(p)'
    BY <1>1, <1>2, <2>1, <2>2 DEF CallInv, KnowsRows, Filled
  <2>4. \A r : HasOutcome(ledger, r) => HasOutcome(ledger', r)
    BY <1>5 DEF HasOutcome
  <2>5. e.type = "request_outcome" => HasOutcome(ledger', e.req)
    BY <1>8 DEF HasOutcome, Append
  <2>6. KnowsSent(p)'
    BY <1>1, <1>2, <2>1, <2>2, <2>4, <2>5 DEF CallInv, KnowsSent, SentOf
  <2>7. CallInv(p)'
    BY <2>2, <2>3, <2>6 DEF CallInv, OwnRequest, HoldsSend, Undecided, MaySend, HoldsRow,
         LastSent,
       Accounts, Concludes, Dispatching, BeforeSend, Holding, InExchange, Busy, Unsent
  <2> QED
    BY <1>2, <1>5, <1>6, <2>2, <2>7, StepFrame DEF Ordinary, OwnerStep
<1> QED
  BY <1>3, <1>7, <1>8

(* Recovery is over: the rows it read are settled, so every sent request   *)
(* of the attempt is known.                                                *)
LEMMA RecoveryEnds ==
  ASSUME PaidInv, NEW p \in Procs, pc[p] \in {"restore", "open"}, loc[p].status \notin Terminal,
         pc[p] = "restore" => loc[p].todo = {}
  PROVE  /\ attempts[loc[p].att] = "pending"
         /\ OpenOf(loc[p].view) = {} =>
              /\ LoopKnown(p, loc[p])
              /\ \A l \in Locals : l.att = loc[p].att /\ l.view = RowsOf(l.att) => LoopKnown(p, l)
<1> DEFINE l == loc[p]
<1>1. /\ TypeInv /\ l \in Locals /\ l.att \in Attempts /\ CallInv(p) /\ pc[p] \in PreLoop
      /\ attempts[l.att] \in Terminal \cup {"pending"}
  BY SentFacts DEF TypeInv, TypeOK, StoreTypeOK, LocalsOK, PlaceOK, Locals, PaidInv, Active,
       PreLoop
<1>2. \A r \in SentOf(l.att) : r \in Requests
  BY SentFacts DEF SentOf
<1>3. attempts[l.att] = "pending"
  BY <1>1 DEF CallInv, KnowsSent
<1>4. ASSUME OpenOf(l.view) = {}, NEW r \in SentOf(l.att)
      PROVE  Physical(l.view[r]) /\ HasOutcome(ledger, r)
  <2>1. l.view[r].status \notin {"none", "abandoned", "reserved"} /\ l.view[r] \in Rows
    BY <1>1, <1>2, <1>4 DEF CallInv, KnowsSent, OpenOf, Locals
  <2> QED
    BY <1>1, <2>1 DEF CallInv, KnowsSent, Physical, Settled, Rows
<1>5. ASSUME OpenOf(l.view) = {}  PROVE LoopKnown(p, l)
  BY <1>1, <1>3, <1>4, <1>5 DEF LoopKnown, CallInv, KnowsRows
<1>6. ASSUME OpenOf(l.view) = {}, NEW fresh \in Locals, fresh.att = l.att,
             fresh.view = RowsOf(fresh.att)
      PROVE  LoopKnown(p, fresh)
  BY <1>1, <1>3, <1>4, <1>6, FreshView DEF LoopKnown
<1> QED
  BY <1>3, <1>5, <1>6

LEMMA SettlePaid ==
  ASSUME PaidInv, ReleaseInv', ChargeInv', NEW p \in Procs, BeginSettling(p) \/ EndSettling(p)
  PROVE  PaidInv'
<1> DEFINE l == loc[p]
           fresh == [l EXCEPT !.view = RowsOf(l.att)]
<1>1. TypeInv /\ l \in Locals /\ l.att \in Attempts /\ pc[p] \in {"restore", "open"} /\ CallInv(p)
  BY SentFacts DEF TypeInv, TypeOK, Locals, BeginSettling, EndSettling, Restored, PaidInv
<1>2. UNCHANGED <<rows, ledger, sent, attempts>>
  BY DEF BeginSettling, EndSettling, storeVars, ledgerVars, Provider
<1>3. l.status \notin Terminal /\ (pc[p] = "restore" => l.todo = {})
  BY <1>1 DEF CallInv, KnowsSent, BeginSettling, EndSettling, Restored
<1>4. CASE BeginSettling(p) /\ Continue(p, "open", l)
  <2>1. Others(p) /\ pc'[p] = "open" /\ loc'[p] = l /\ owner' = owner
    BY <1>1, <1>4, ContinueEffect
  <2>2. pc[p] = "restore"
    BY <1>4 DEF BeginSettling, Restored
  <2>3. KnowsRows(p)'
    BY <1>1, <1>2, <2>1, <2>2 DEF CallInv, KnowsRows, Filled
  <2>4. KnowsSent(p)'
    BY <1>1, <1>2, <1>3, <2>1, <2>2 DEF CallInv, KnowsSent, SentOf
  <2>5. CallInv(p)'
    BY <2>1, <2>3, <2>4 DEF CallInv, OwnRequest, HoldsSend, Undecided, MaySend, HoldsRow,
         LastSent,
         Accounts, Concludes, Dispatching, BeforeSend, Holding, InExchange, Busy, Unsent
  <2> QED
    BY <1>2, <2>1, <2>5, CallStep DEF OwnerStep
<1>5. CASE BeginSettling(p) /\ OpenOf(l.view) = {} /\ Loop(p, l)
  BY <1>1, <1>2, <1>3, <1>5, RecoveryEnds, LoopCall, CallStep
<1>6. CASE EndSettling(p)
  <2>1. fresh.view = RowsOf(l.att) /\ fresh.att = l.att /\ fresh \in Locals
    BY <1>1, ViewType DEF Locals, TypeInv, TypeOK
  <2>2. Loop(p, fresh) /\ OpenOf(l.view) = {}
    BY <1>6 DEF EndSettling
  <2> HIDE DEF fresh
  <2>3. LoopKnown(p, fresh)
    BY <1>1, <1>3, <2>1, <2>2, RecoveryEnds
  <2> QED
    BY <1>2, <2>1, <2>2, <2>3, LoopCall, CallStep
<1> QED
  BY <1>4, <1>5, <1>6 DEF BeginSettling

(* An open row with no intent in the ledger was not sent.                  *)
LEMMA AbandonUnsentPaid ==
  ASSUME PaidInv, ReleaseInv', ChargeInv', NEW p \in Procs, AbandonUnsent(p)
  PROVE  PaidInv'
<1> DEFINE l == loc[p]
<1>1. /\ TypeInv /\ l \in Locals /\ pc[p] = "open" /\ CallInv(p) /\ RepliesSent
      /\ rows \in [Requests -> Rows] /\ Knows("open", l, ledger, Gone)
  BY SentFacts DEF TypeInv, TypeOK, AbandonUnsent, PaidInv, StoreInv, ReleaseInv, RecoveryKnows
<1>2. UNCHANGED <<ledger, sent, attempts>> /\ RowsHeld(p)
  BY <1>1, RecoveryHolds DEF AbandonUnsent, ledgerVars, Provider, PreLoop
<1>3. PICK r \in Requests :
        /\ l.view[r].status = "reserved" /\ Intent(r) \notin l.recs
        /\ Abandon(r, FALSE)
        /\ Continue(p, "open", [l EXCEPT !.view[r] = AbandonedRow(@, FALSE)])
  BY DEF AbandonUnsent, FirstOpen, OpenOf
<1>4. r \notin sent
  BY <1>1, <1>3 DEF Knows, Gone
<1>5. RowsMove
  BY <1>1, <1>3, RowsMoveBy
<1> DEFINE view == [l.view EXCEPT ![r] = AbandonedRow(@, FALSE)]
           new == [l EXCEPT !.view = view]
<1>6. l.view[r] \in Rows /\ \A x \in Requests : view[x] = IF x = r THEN AbandonedRow(l.view[r], FALSE)
                                                          ELSE l.view[x]
  BY <1>1 DEF Locals
<1>7. Continue(p, "open", new)
  BY <1>3
<1> HIDE DEF view
<1>8. new.view = view /\ new.att = l.att /\ new.status = l.status
  BY <1>1 DEF Locals
<1> HIDE DEF new
<1>9. Others(p) /\ pc'[p] = "open" /\ loc'[p] = new /\ owner' = owner
  BY <1>1, <1>7, ContinueEffect
<1>10. Shape(l.view[r]) /\ Stands(l.view[r], rows[r]) /\ Filled(l.view, l.att)
  BY <1>1 DEF CallInv, KnowsRows
<1>11. view[r].status = "abandoned" /\ view[r].reply = "none"
  BY <1>3, <1>6, <1>10 DEF AbandonedRow, Rows, Shape
<1>12. KnowsRows(p)'
  <2>1. \A x \in Requests : Shape(view[x]) /\ Stands(view[x], rows'[x])
    <3>1. rows'[r] = AbandonedRow(rows[r], FALSE) /\ rows[r] \in Rows
      BY <1>1, <1>3 DEF Abandon
    <3>2. Shape(view[r]) /\ Stands(view[r], rows'[r])
      BY <1>3, <1>10, <1>11, <3>1 DEF Shape, Stands, Fixed, AbandonedRow, Rows
    <3>3. ASSUME NEW x \in Requests, x # r  PROVE Shape(view[x]) /\ Stands(view[x], rows'[x])
      BY <1>1, <1>5, <1>6, <3>3, StandsOn DEF CallInv, KnowsRows, RowsMove, RowMoves
    <3> QED
      BY <3>2, <3>3
  <2>2. Filled(view, l.att)
    BY <1>3, <1>6, <1>10, <1>11 DEF Filled
  <2> QED
    BY <1>8, <1>9, <2>1, <2>2 DEF KnowsRows, Filled
<1>13. KnowsSent(p)'
  <2>1. \A x \in SentOf(l.att) : x \in Requests /\ view[x] = l.view[x]
    BY <1>4, <1>6, SentFacts DEF SentOf
  <2> QED
    BY <1>1, <1>2, <1>8, <1>9, <2>1 DEF CallInv, KnowsSent, SentOf
<1>14. CallInv(p)'
  BY <1>9, <1>12, <1>13 DEF CallInv, OwnRequest, HoldsSend, Undecided, MaySend, HoldsRow,
       LastSent, Accounts,
     Concludes, Dispatching, BeforeSend, Holding, InExchange, Busy, Unsent
<1> QED
  BY <1>2, <1>5, <1>9, <1>14, StepFrame DEF Ordinary, OwnerStep

(* A row found open whose intent is in the ledger gets no reply any more.  *)
LEMMA OpenPaid ==
  ASSUME PaidInv, ReleaseInv', ChargeInv', NEW p \in Procs, ImportOutcome(p) \/ MarkUncertain(p)
  PROVE  PaidInv'
<1> DEFINE l == loc[p]
<1>1. TypeInv /\ l \in Locals /\ RepliesSent
  BY SentFacts DEF TypeInv, TypeOK, PaidInv, StoreInv
<1>2. UNCHANGED <<ledger, sent, attempts>> /\ RowsHeld(p)
  BY RecoveryHolds DEF ImportOutcome, MarkUncertain, ledgerVars, Provider, PreLoop
<1>3. RowsMove
  <2>1. \A e \in l.recs : e.type = "request_outcome" => e.outcome \in {"responded", "no_response"}
    BY <1>1 DEF Locals, Receipts
  <2> QED
    BY <1>1, <2>1, RowsMoveBy DEF ImportOutcome, MarkUncertain
<1>4. Pause(p) \/ \E verdict \in {"uncertain", "response_lost"} : Settle(p, l, verdict)
  BY DEF ImportOutcome, MarkUncertain
<1>5. CallInv(p)' /\ Others(p) /\ OwnerStep(p)
  BY <1>1, <1>4, LeaveCall, SettleCall DEF OnReply
<1> QED
  BY <1>2, <1>3, <1>5, StepFrame DEF Ordinary

-----------------------------------------------------------------------------
(* Dispatch. *)

(* What a call knows of its request goes with it from place to place.      *)
LEMMA CheckPaid ==
  ASSUME PaidInv, ReleaseInv', ChargeInv', NEW p \in Procs, PreCheck(p) \/ CheckAgain(p) \/
         RefuseSend(p)
  PROVE  PaidInv'
<1> DEFINE l == loc[p]
<1>1. TypeInv /\ CallInv(p) /\ UNCHANGED <<rows, ledger, sent, attempts>>
  BY SentFacts DEF PaidInv, PreCheck, CheckAgain, RefuseSend, storeVars, ledgerVars, Provider
<1>2. CASE Pause(p)
  BY <1>1, <1>2, LeaveCall, CallStep
<1>3. CASE \/ pc[p] = "precheck" /\ Continue(p, "reserve", l)
           \/ pc[p] = "check" /\ owner = p /\ Continue(p, "send", l)
           \/ pc[p] = "check" /\ Continue(p, "cancel", l)
  <2>1. PICK place \in {"reserve", "send", "cancel"} :
          /\ Others(p) /\ pc'[p] = place /\ loc'[p] = l /\ owner' = owner
          /\ place = "reserve" => pc[p] = "precheck"
          /\ place = "send" => pc[p] = "check" /\ owner = p
          /\ place = "cancel" => pc[p] = "check"
    BY <1>1, <1>3, ContinueEffect
  <2>2. KnowsRows(p)' /\ OwnRequest(p)' /\ HoldsSend(p)'
    BY <1>1, <2>1 DEF CallInv, KnowsRows, OwnRequest, HoldsSend, Filled, Busy, Unsent
  <2>3. Undecided(p)' /\ HoldsRow(p)'
    BY <1>1, <2>1 DEF CallInv, Undecided, HoldsRow, Dispatching, Holding
  <2>4. MaySend(p)'
    BY <1>1, <2>1 DEF CallInv, MaySend, Allowed, BeforeSend, SentOf
  <2>5. CallInv(p)'
    BY <2>1, <2>2, <2>3, <2>4 DEF CallInv, KnowsSent, LastSent, Accounts, Concludes, InExchange
  <2> QED
    BY <1>1, <2>1, <2>5, CallStep DEF OwnerStep
<1> QED
  BY <1>2, <1>3 DEF PreCheck, CheckAgain, RefuseSend

LEMMA ReceiptPaid ==
  ASSUME PaidInv, ReleaseInv', ChargeInv', NEW p \in Procs, AppendIntent(p) \/ AppendCancelled(p)
  PROVE  PaidInv'
<1> DEFINE l == loc[p]
<1>1. TypeInv /\ CallInv(p) /\ RepliesSent /\ UNCHANGED <<rows, sent, attempts>>
  BY SentFacts DEF PaidInv, StoreInv, AppendIntent, AppendCancelled, storeVars, Provider
<1>2. RowsMove /\ RowsHeld(p)
  BY <1>1, RowsMoveBy DEF RowsHeld
<1>3. PICK e \in {Intent(l.cur), Cancelled(l.cur)} : Append(e) \/ AppendRefused \/ AppendFaulted(e)
  BY DEF AppendIntent, AppendCancelled
<1>4. e.type # "request_outcome" /\ ledger \subseteq ledger' /\ ledger' \subseteq ledger \cup {e}
  BY <1>3, AppendEffect DEF Intent, Cancelled
<1>5. \A r : HasOutcome(ledger', r) <=> HasOutcome(ledger, r)
  BY <1>4 DEF HasOutcome
<1>6. CASE Pause(p) \/ Continue(p, "cancelled", l)
  <2>1. Others(p) /\ OwnerStep(p) /\ pc'[p] \in {"idle", "cancelled"}
    BY <1>1, <1>6, LeaveCall, LeaveEffect, ContinueEffect DEF OwnerStep, Pause
  <2> QED
    BY <1>1, <1>2, <1>4, <1>5, <2>1, QuietPlace, StepFrame DEF Ordinary
<1>7. CASE pc[p] = "intent" /\ \E place \in {"check", "abandon"} : Continue(p, place, l)
  <2>1. PICK place \in {"check", "abandon"} : Others(p) /\ pc'[p] = place /\ loc'[p] = l /\ owner' = owner
    BY <1>1, <1>7, ContinueEffect
  <2>2. OwnRequest(p)' /\ Undecided(p)' /\ HoldsRow(p)'
    BY <1>1, <1>7, <2>1 DEF CallInv, OwnRequest, Undecided, HoldsRow, Dispatching, Holding, Busy,
         Unsent
  <2>3. MaySend(p)'
    BY <1>1, <1>5, <1>7, <2>1 DEF CallInv, MaySend, Allowed, BeforeSend, SentOf
  <2>4. CallInv(p)'
    BY <2>1, <2>2, <2>3 DEF CallInv, KnowsRows, HoldsSend, KnowsSent, LastSent, Accounts,
         Concludes,
       InExchange
  <2> QED
    BY <1>1, <1>2, <1>4, <1>5, <2>1, <2>4, StepFrame DEF Ordinary, OwnerStep
<1> QED
  BY <1>6, <1>7 DEF AppendIntent, AppendCancelled

(* A call abandons its own row, which is not the one the holder is about   *)
(* to send.                                                                *)
LEMMA AbandonPaid ==
  ASSUME PaidInv, ReleaseInv', ChargeInv', NEW p \in Procs, AbandonUnrecorded(p) \/
         AbandonCancelled(p)
  PROVE  PaidInv'
<1> DEFINE r == loc[p].cur
<1>1. TypeInv /\ RepliesSent /\ SendInv /\ rows \in [Requests -> Rows]
  BY SentFacts DEF PaidInv, StoreInv, ReleaseInv
<1>2. UNCHANGED <<ledger, sent, attempts>> /\ \E flag : Abandon(r, flag)
  BY DEF AbandonUnrecorded, AbandonCancelled, ledgerVars, Provider
<1>3. \A q \in Procs : q # p /\ pc[q] \in Holding => loc[q].cur \in Requests /\ loc[q].cur # r
  <2>1. ASSUME NEW q \in Procs, q # p, pc[q] \in Holding  PROVE loc[q].cur \in Requests /\
               loc[q].cur # r
    <3>1. pc[q] \in Unsent /\ pc[q] \in Busy
      BY <2>1 DEF Holding, Unsent, Busy
    <3>2. CASE AbandonUnrecorded(p)
      BY <1>1, <2>1, <3>1, <3>2 DEF AbandonUnrecorded, SendInv, CurOwned, Unsent, TypeInv,
           LocalsOK, PlaceOK
    <3>3. CASE AbandonCancelled(p)
      <4>1. Cancelled(r) \in ledger
        BY <3>3 DEF AbandonCancelled, PaidInv, ReleaseInv, LiveRows
      <4>2. Cancelled(loc[q].cur) \notin ledger
        BY <1>1, <2>1 DEF SendInv, Recorded, Holding
      <4> QED
        BY <1>1, <3>1, <4>1, <4>2 DEF TypeInv, LocalsOK, PlaceOK
    <3> QED
      BY <3>2, <3>3
  <2> QED
    BY <2>1
<1>4. RowsMove /\ RowsHeld(p)
  BY <1>1, <1>2, <1>3, RowsMoveBy DEF Abandon, RowsHeld
<1>5. Pause(p) \/ Settle(p, loc[p], "failed")
  BY DEF AbandonUnrecorded, AbandonCancelled
<1>6. CallInv(p)' /\ Others(p) /\ OwnerStep(p)
  BY <1>1, <1>5, LeaveCall, SettleCall DEF OnReply
<1> QED
  BY <1>2, <1>4, <1>6, StepFrame DEF Ordinary

(* The new row follows the last one, which is settled: if the rows the     *)
(* call has read are not all there are, the sequence is taken.             *)
LEMMA ReservePaid ==
  ASSUME PaidInv, ReleaseInv', ChargeInv', NEW p \in Procs, ReserveRequest(p)
  PROVE  PaidInv'
<1> DEFINE l == loc[p]
           r == <<l.att, NextSequence(l.view)>>
           new == [l EXCEPT !.cur = r, !.view = Idle.view]
<1>1. /\ TypeInv /\ SendInv /\ CallInv(p) /\ l \in Locals /\ l.att \in Attempts /\ pc[p] = "reserve"
      /\ rows \in [Requests -> Rows] /\ StoreInv
  BY SentFacts DEF TypeInv, TypeOK, Locals, PaidInv, ReleaseInv, ReserveRequest
<1>2. UNCHANGED <<ledger, sent, attempts>>
  BY DEF ReserveRequest, ledgerVars, Provider
<1>3. CASE rows' = rows /\ Pause(p)
  BY <1>1, <1>2, <1>3, LeaveCall, CallStep
<1>4. CASE r \in Requests /\ rows[r] = NoRow /\ rows' = [rows EXCEPT ![r] = ReservedRow]
           /\ Continue(p, "intent", new)
  <2>1. PICK k \in 0 .. MaxRequests :
          \A x \in Requests : l.view[x].status # "none" <=> x[1] = l.att /\ x[2] <= k
    BY <1>1 DEF CallInv, KnowsRows, Filled
  <2>2. k \in Nat /\ NextSequence(l.view) = k + 1
    <3>1. Cardinality(RecordedOf(l.view)) = k
      BY <1>1, <2>1, FilledCount
    <3> QED
      BY <3>1, MaxRequestsAssumption DEF NextSequence
  <2>3. r[1] = l.att /\ r[2] = k + 1 /\ r[2] \in 1 .. MaxRequests
    BY <1>4, <2>2, RequestParts
  <2>4. \A x \in Requests : /\ x = r => rows'[x] = ReservedRow
                            /\ x # r => rows'[x] = rows[x]
    BY <1>1, <1>4
  <2> HIDE DEF r
  <2>5. new.att = l.att /\ new.cur = r
    BY <1>1 DEF Locals
  <2> HIDE DEF new
  <2>6. Others(p) /\ pc'[p] = "intent" /\ loc'[p] = new /\ owner' = owner
    BY <1>1, <1>4, ContinueEffect
  <2>7. \A x \in Requests : x[1] = l.att => (rows[x].status # "none" <=> x[2] <= k)
    <3>1. PICK m \in 0 .. MaxRequests :
            \A x \in Requests : RowsOf(l.att)[x].status # "none" <=> x[1] = l.att /\ x[2] <= m
      BY <1>1 DEF StoreInv, RowsInOrder, Filled
    <3>2. \A x \in Requests : x[1] = l.att => (rows[x].status # "none" <=> x[2] <= m)
      BY <3>1 DEF RowsOf
    <3>3. \A x \in Requests : x[1] = l.att /\ x[2] <= k => rows[x].status # "none"
      BY <1>1, <2>1 DEF CallInv, KnowsRows, Stands
    <3>4. ~(k + 1 <= m)
      BY <1>4, <2>3, <3>2 DEF NoRow
    <3> QED
      BY <2>2, <3>2, <3>3, <3>4, RequestParts, MaxRequestsAssumption
  <2>8. \A x \in Requests : x[1] = l.att /\ x # r => rows[x].status # "reserved"
    <3>1. ASSUME NEW x \in Requests, x[1] = l.att, rows[x].status = "reserved"  PROVE FALSE
      <4>1. l.view[x].status # "none"
        BY <2>1, <2>7, <3>1
      <4>2. Fixed(l.view[x])
        BY <1>1, <3>1, <4>1 DEF CallInv, KnowsRows, OpenOf, Fixed
      <4> QED
        BY <1>1, <3>1, <4>2 DEF CallInv, KnowsRows, Stands, Fixed
    <3> QED
      BY <3>1
  <2>9. r \notin sent /\ ~HasOutcome(ledger, r)
    BY <1>1, <1>4, SentFacts DEF StoreInv, OutcomesKnown, Fixed, NoRow
  <2>10. RowsInOrder'
    <3>1. ASSUME NEW a \in Attempts  PROVE Filled(RowsOf(a)', a)
      <4>1. CASE a = l.att
        <5>1. k + 1 \in 0 .. MaxRequests
          BY <2>2, <2>3
        <5>2. \A x \in Requests : RowsOf(a)'[x].status # "none" <=> x[1] = a /\ x[2] <= k + 1
          <6> TAKE x \in Requests
          <6>1. x[2] \in Nat
            BY RequestParts
          <6>2. CASE x[1] # a
            BY <6>2 DEF RowsOf, NoRow
          <6>3. CASE x[1] = a /\ x = r
            BY <2>3, <2>4, <4>1, <6>3 DEF RowsOf, ReservedRow
          <6>4. CASE x[1] = a /\ x # r
            <7>1. x[2] # k + 1
              BY <1>4, <2>3, <4>1, <6>4, RequestParts
            <7> QED
              BY <2>2, <2>4, <2>7, <4>1, <6>1, <6>4, <7>1 DEF RowsOf
          <6> QED
            BY <6>2, <6>3, <6>4
        <5> QED
          BY <5>1, <5>2 DEF Filled
      <4>2. CASE a # l.att
        <5>1. \A x \in Requests : RowsOf(a)'[x] = RowsOf(a)[x]
          BY <2>3, <2>4, <4>2 DEF RowsOf
        <5> QED
          BY <1>1, <5>1 DEF StoreInv, RowsInOrder, Filled
      <4> QED
        BY <4>1, <4>2
    <3> QED
      BY <3>1 DEF RowsInOrder, Filled
  <2>11. OneOpen'
    <3>1. ASSUME NEW x \in Requests, NEW q \in Requests, x[1] = q[1], q[2] < x[2],
                 rows'[x].status # "none"
          PROVE  rows'[q].status # "reserved"
      <4>1. CASE x = r
        BY <2>3, <2>4, <2>8, <3>1, <4>1, RequestParts
      <4>2. CASE x # r /\ q = r
        BY <2>2, <2>3, <2>4, <2>7, <3>1, <4>2, RequestParts
      <4>3. CASE x # r /\ q # r
        BY <1>1, <2>4, <3>1, <4>3 DEF StoreInv, OneOpen
      <4> QED
        BY <4>1, <4>2, <4>3
    <3> QED
      BY <3>1 DEF OneOpen
  <2>12. RepliesSent' /\ OutcomesKnown'
    BY <1>1, <1>2, <2>4, <2>9 DEF StoreInv, RepliesSent, OutcomesKnown, Shape, Fixed, ReservedRow,
         HasOutcome
  <2>13. \A x \in sent : x \in Requests /\ rows'[x] = rows[x]
    BY <2>4, <2>9, SentFacts
  <2>14. SentInOrder' /\ DecidedClosed'
    BY <1>1, <1>2, <2>13 DEF StoreInv, SentInOrder, DecidedClosed, NoneOpen, SentOf, Retryable,
         HasOutcome
  <2>15. CallInv(p)'
    <3>1. OwnRequest(p)' /\ Undecided(p)' /\ HoldsRow(p)'
      BY <1>1, <1>2, <1>4, <2>3, <2>4, <2>5, <2>6 DEF CallInv, OwnRequest, Undecided, HoldsRow,
           Dispatching,
         ReservedRow
    <3>2. MaySend(p)'
      BY <1>1, <1>2, <2>5, <2>6, <2>13 DEF CallInv, MaySend, Allowed, BeforeSend, SentOf,
           Retryable
    <3> QED
      BY <2>6, <3>1, <3>2 DEF CallInv, KnowsRows, HoldsSend, KnowsSent, LastSent, Accounts,
           Concludes,
         InExchange
  <2>16. \A x \in Requests : Stands(rows[x], rows'[x])
    BY <1>4, <2>4 DEF Stands, Fixed, NoRow
  <2>17. RowsHeld(p)
    <3>1. \A q \in Procs : pc[q] \in Holding => loc[q].cur \in Requests /\ rows[loc[q].cur].status # "none"
      BY <1>1 DEF SendInv, CurOwned, Unsent, Busy, Holding, TypeInv, LocalsOK, PlaceOK
    <3> QED
      BY <1>4, <2>4, <3>1 DEF RowsHeld, NoRow
  <2>18. \A q \in Procs : q # p => CallInv(q)'
    BY <1>2, <2>6, <2>16, <2>17, Bystander DEF OwnerStep
  <2> QED
    BY <2>10, <2>11, <2>12, <2>14, <2>15, <2>18 DEF PaidInv, StoreInv
<1> QED
  BY <1>3, <1>4 DEF ReserveRequest

(* The request is sent while the lock is held: it is the attempt's last    *)
(* row, open, and the requests before it may be retried.                   *)
LEMMA SendPaid ==
  ASSUME PaidInv, ReleaseInv', ChargeInv', NEW p \in Procs, Send(p)
  PROVE  PaidInv'
<1> DEFINE l == loc[p]
           r == l.cur
<1>1. /\ TypeInv /\ SendInv /\ CallInv(p) /\ StoreInv /\ pc[p] = "send" /\ owner = p
      /\ l.att \in Attempts
  BY SentFacts DEF TypeInv, TypeOK, Locals, PaidInv, ReleaseInv, Send, CallInv, HoldsSend
<1>2. UNCHANGED <<rows, ledger, attempts>> /\ sent' = sent \cup {r}
  BY DEF Send, storeVars, ledgerVars
<1>3. r \in Requests /\ r[1] = l.att /\ r \notin sent /\ rows[r].status = "reserved"
  BY <1>1 DEF TypeInv, LocalsOK, PlaceOK, Busy, Unsent, CallInv, OwnRequest, SendInv, CurOwned,
       HoldsRow,
     Holding
<1>4. attempts[l.att] = "pending" /\ Allowed(l.att)
  BY <1>1 DEF CallInv, Undecided, MaySend, Dispatching, BeforeSend
<1>5. ASSUME NEW q \in SentOf(l.att)  PROVE q[2] <= r[2]
  <2>1. q \in Requests /\ q[1] = r[1] /\ rows[q].status # "none" /\ q[2] \in Nat /\ r[2] \in Nat
    BY <1>3, SentFacts, RequestParts DEF SentOf
  <2>2. ~(r[2] < q[2])
    BY <1>1, <1>3, <2>1 DEF StoreInv, OneOpen
  <2> QED
    BY <2>1, <2>2
<1>6. Others(p) /\ pc'[p] = "await" /\ loc'[p] = l /\ owner' = owner
  BY <1>1, ContinueEffect DEF Send
<1> HIDE DEF r
<1>7. RowsInOrder' /\ OneOpen' /\ RepliesSent' /\ OutcomesKnown'
  BY <1>1, <1>2 DEF StoreInv, RowsInOrder, RowsOf, OneOpen, RepliesSent, OutcomesKnown, HasOutcome
<1>8. SentInOrder'
  <2>1. ASSUME NEW x \in sent', NEW q \in sent', x[1] = q[1], q[2] < x[2]
        PROVE  Retryable(rows[q]) /\ HasOutcome(ledger, q)
    <3>1. CASE x = r
      <4>1. q # r /\ q \in SentOf(l.att)
        BY <1>2, <1>3, <2>1, <3>1, RequestParts DEF SentOf
      <4> QED
        BY <1>4, <4>1 DEF Allowed
    <3>2. CASE x # r /\ q = r
      <4>1. x \in SentOf(l.att) /\ x \in Requests
        BY <1>2, <1>3, <2>1, <3>2, SentFacts DEF SentOf
      <4> QED
        BY <1>3, <1>5, <2>1, <3>2, <4>1, RequestParts
    <3>3. CASE x # r /\ q # r
      BY <1>1, <1>2, <2>1, <3>3 DEF StoreInv, SentInOrder
    <3> QED
      BY <3>1, <3>2, <3>3
  <2> QED
    BY <1>2, <2>1 DEF SentInOrder, Retryable, HasOutcome
<1>9. DecidedClosed'
  <2>1. \A a \in Attempts : attempts[a] \in OnReply => a # l.att
    BY <1>4 DEF OnReply
  <2> QED
    BY <1>1, <1>2, <1>3, <2>1 DEF StoreInv, DecidedClosed, NoneOpen, SentOf
<1>10. CallInv(p)'
  <2>1. LastSent(p)'
    BY <1>2, <1>3, <1>5, <1>6, RequestParts DEF LastSent, SentOf, r
  <2>2. OwnRequest(p)' /\ Undecided(p)'
    BY <1>2, <1>3, <1>4, <1>6 DEF OwnRequest, Undecided, r
  <2> QED
    BY <1>6, <2>1, <2>2 DEF CallInv, KnowsRows, HoldsSend, KnowsSent, MaySend, HoldsRow, Accounts,
         Concludes,
       BeforeSend, Holding
<1>11. \A q \in Procs : q # p => CallInv(q)'
  <2>1. \A x \in Requests : Stands(rows[x], rows'[x])
    BY <1>2 DEF Stands
  <2> QED
    BY <1>1, <1>2, <1>6, <2>1, Bystander DEF OwnerStep, RowsHeld
<1> QED
  BY <1>7, <1>8, <1>9, <1>10, <1>11 DEF PaidInv, StoreInv

(* The exchange: its outcome goes to the ledger, then to its row, ...      *)
LEMMA ReceivePaid ==
  ASSUME PaidInv, ReleaseInv', ChargeInv', NEW p \in Procs, Receive(p)
  PROVE  PaidInv'
<1> DEFINE l == loc[p]
<1>1. TypeInv /\ l \in Locals /\ CallInv(p) /\ pc[p] = "await" /\ UNCHANGED <<rows, ledger, sent, attempts>>
  BY SentFacts DEF TypeInv, TypeOK, PaidInv, Receive, storeVars, ledgerVars, Provider
<1>2. PICK kind, c : Continue(p, "outcome", [l EXCEPT !.reply = kind, !.charge = c])
  BY DEF Receive
<1> DEFINE new == [l EXCEPT !.reply = kind, !.charge = c]
<1>3. new.att = l.att /\ new.cur = l.cur
  BY <1>1 DEF Locals
<1> HIDE DEF new
<1>4. Others(p) /\ pc'[p] = "outcome" /\ loc'[p] = new /\ owner' = owner
  BY <1>1, <1>2, ContinueEffect DEF new
<1>5. OwnRequest(p)' /\ Undecided(p)' /\ LastSent(p)'
  BY <1>1, <1>3, <1>4 DEF CallInv, OwnRequest, Undecided, LastSent, Dispatching, InExchange, Busy,
       SentOf
<1>6. CallInv(p)'
  BY <1>4, <1>5 DEF CallInv, KnowsRows, HoldsSend, KnowsSent, MaySend, HoldsRow, Accounts,
       Concludes,
     BeforeSend, Holding
<1> QED
  BY <1>1, <1>4, <1>6, CallStep DEF OwnerStep

LEMMA OutcomePaid ==
  ASSUME PaidInv, ReleaseInv', ChargeInv', NEW p \in Procs, AppendOutcome(p)
  PROVE  PaidInv'
<1> DEFINE l == loc[p]
           e == Outcome(l.cur, ExchangeStatus(l), l.charge)
           failed == [l EXCEPT !.acctFailed = TRUE]
<1>1. /\ TypeInv /\ l \in Locals /\ CallInv(p) /\ RepliesSent /\ pc[p] = "outcome"
      /\ UNCHANGED <<rows, sent, attempts>>
  BY SentFacts DEF TypeInv, TypeOK, PaidInv, StoreInv, AppendOutcome, storeVars, Provider
<1>2. l.cur \in sent
  BY <1>1 DEF PaidInv, ChargeInv, TrueCalls, TrueLocals, InExchange
<1>3. RowsMove /\ RowsHeld(p)
  BY <1>1, RowsMoveBy DEF RowsHeld
<1>4. PICK new \in {l, failed} : /\ Continue(p, "record", new)
                                 /\ new = failed \/ Append(e)
                                 /\ Append(e) \/ AppendRefused \/ AppendFaulted(e)
  BY DEF AppendOutcome
<1>5. new.att = l.att /\ new.cur = l.cur /\ (new.acctFailed \/ Append(e))
  BY <1>1, <1>4 DEF Locals
<1>6. e.type = "request_outcome" /\ e.req = l.cur
  BY DEF Outcome
<1> HIDE DEF e
<1>7. ledger \subseteq ledger' /\ ledger' \subseteq ledger \cup {e}
  BY <1>4, AppendEffect
<1>8. \A r \in Requests : HasOutcome(ledger', r) => HasOutcome(ledger, r) \/ r \in sent
  BY <1>2, <1>6, <1>7 DEF HasOutcome
<1>9. new.acctFailed \/ HasOutcome(ledger', l.cur)
  BY <1>5, <1>6 DEF Append, HasOutcome
<1>10. Others(p) /\ pc'[p] = "record" /\ loc'[p] = new /\ owner' = owner
  BY <1>1, <1>4, ContinueEffect
<1> HIDE DEF failed
<1>11. OwnRequest(p)' /\ Undecided(p)' /\ LastSent(p)' /\ Accounts(p)'
  BY <1>1, <1>5, <1>9, <1>10 DEF CallInv, OwnRequest, Undecided, LastSent, Accounts, Dispatching,
       InExchange,
     Busy, SentOf
<1>12. CallInv(p)'
  BY <1>10, <1>11 DEF CallInv, KnowsRows, HoldsSend, KnowsSent, MaySend, HoldsRow, Concludes,
       BeforeSend, Holding
<1> QED
  BY <1>1, <1>3, <1>7, <1>8, <1>10, <1>12, StepFrame DEF Ordinary, OwnerStep

LEMMA RecordPaid ==
  ASSUME PaidInv, ReleaseInv', ChargeInv', NEW p \in Procs, RecordOutcome(p)
  PROVE  PaidInv'
<1> DEFINE l == loc[p]
           new == [l EXCEPT !.cur = NoRequest, !.reply = "none", !.charge = Unknown]
<1>1. /\ TypeInv /\ l \in Locals /\ CallInv(p) /\ StoreInv /\ SendInv /\ pc[p] = "record"
      /\ UNCHANGED <<ledger, sent, attempts>> /\ rows \in [Requests -> Rows]
  BY SentFacts DEF TypeInv, TypeOK, PaidInv, ReleaseInv, RecordOutcome, ledgerVars, Provider
<1>2. l.cur \in sent /\ l.cur[1] = l.att /\ l.cur \in Requests
  BY <1>1, SentFacts DEF PaidInv, ChargeInv, TrueCalls, TrueLocals, InExchange, CallInv,
       OwnRequest, Busy
<1>3. Record(l.cur, ExchangeStatus(l), l.charge, l.reply)
      /\ ExchangeStatus(l) \in {"responded", "no_response"}
  BY DEF RecordOutcome, ExchangeStatus
<1>4. RowsMove
  BY <1>1, <1>2, <1>3, RowsMoveBy DEF StoreInv
<1>5. RowsHeld(p)
  <2>1. \A q \in Procs : pc[q] \in Holding => loc[q].cur \in Requests /\ loc[q].cur # l.cur
    BY <1>1, <1>2 DEF SendInv, CurOwned, Unsent, Busy, Holding, TypeInv, LocalsOK, PlaceOK
  <2> QED
    BY <1>1, <1>3, <2>1 DEF RowsHeld, Record
<1>6. CASE Pause(p)
  BY <1>1, <1>4, <1>5, <1>6, LeaveCall, StepFrame DEF Ordinary
<1>7. CASE Continue(p, "after", new)
  <2>1. new.att = l.att /\ new.acctFailed = l.acctFailed
    BY <1>1 DEF Locals
  <2> HIDE DEF new
  <2>2. Others(p) /\ pc'[p] = "after" /\ loc'[p] = new /\ owner' = owner
    BY <1>1, <1>7, ContinueEffect
  <2>3. Undecided(p)'
    BY <1>1, <2>1, <2>2 DEF CallInv, Undecided, Dispatching
  <2>4. Accounts(p)'
    <3>1. ASSUME owner = p, ~l.acctFailed, NEW r \in SentOf(l.att)  PROVE HasOutcome(ledger, r)
      <4>1. r[2] <= l.cur[2] /\ HasOutcome(ledger, l.cur)
        BY <1>1, <3>1 DEF CallInv, LastSent, Accounts, InExchange
      <4>2. r \in sent /\ r[1] = l.cur[1] /\ r \in Requests
        BY <1>2, SentFacts DEF SentOf
      <4>3. CASE r[2] = l.cur[2]
        BY <1>2, <4>1, <4>2, <4>3, RequestParts
      <4>4. CASE r[2] < l.cur[2]
        BY <1>1, <1>2, <4>2, <4>4 DEF StoreInv, SentInOrder
      <4> QED
        BY <1>2, <4>1, <4>2, <4>3, <4>4, RequestParts
    <3> QED
      BY <1>1, <2>1, <2>2, <3>1 DEF Accounts, SentOf, HasOutcome
  <2>5. CallInv(p)'
    BY <2>2, <2>3, <2>4 DEF CallInv, KnowsRows, OwnRequest, HoldsSend, KnowsSent, MaySend,
         HoldsRow, LastSent,
       Concludes, BeforeSend, Holding, InExchange, Busy, Unsent
  <2> QED
    BY <1>1, <1>4, <1>5, <2>2, <2>5, StepFrame DEF Ordinary, OwnerStep
<1> QED
  BY <1>6, <1>7 DEF RecordOutcome

(* ... and is read back and concluded.                                     *)
LEMMA ConcludePaid ==
  ASSUME PaidInv, ReleaseInv', ChargeInv', NEW p \in Procs, ReadOutcome(p)
  PROVE  PaidInv'
<1> DEFINE a == loc[p].att
<1> PICK l : l = [loc[p] EXCEPT !.view = RowsOf(a)]
  OBVIOUS
<1>1. /\ TypeInv /\ loc[p] \in Locals /\ CallInv(p) /\ pc[p] = "after" /\ a \in Attempts
      /\ UNCHANGED <<rows, ledger, sent, attempts>> /\ RowsOf(a) \in [Requests -> Rows]
  BY SentFacts, ViewType DEF TypeInv, TypeOK, Locals, PaidInv, ReadOutcome, storeVars, ledgerVars,
       Provider
<1>2. l \in Locals /\ l.view = RowsOf(a) /\ l.att = a /\ l.acctFailed = loc[p].acctFailed
  BY <1>1 DEF Locals
<1>3. PICK last \in LastOf(RecordedOf(l.view)) :
        \/ Pause(p)
        \/ /\ ~Withheld(l, Conclude(l.view[last]))
           /\ \/ Conclude(l.view[last]) # "pending" /\ Settle(p, l, Conclude(l.view[last]))
              \/ Conclude(l.view[last]) = "pending" /\ Loop(p, l)
  BY DEF ReadOutcome
<1>4. ~Withheld(l, Conclude(l.view[last])) /\ owner = p =>
         /\ Luna => \A r \in SentOf(a) : HasOutcome(ledger, r)
         /\ Conclude(l.view[last]) = "pending" => \A r \in SentOf(a) : HasOutcome(ledger, r)
  BY <1>1, <1>2 DEF Withheld, CallInv, Accounts
<1>5. CASE Pause(p)
  BY <1>1, <1>5, LeaveCall, CallStep
<1>6. CASE ~Withheld(l, Conclude(l.view[last])) /\ Settle(p, l, Conclude(l.view[last]))
  <2>1. ASSUME Conclude(l.view[last]) \in OnReply, owner = p  PROVE Evidence(a)
    <3>1. l.view[last] \in Rows /\ Shape(l.view[last]) /\ last \in Requests
      BY <1>1, <1>2, FreshView DEF LastOf, RecordedOf
    <3>2. l.view[last].reply # "none"
      BY <2>1, <3>1 DEF Conclude, OnReply, Rows, ReplyKinds
    <3>3. last \in LastOf(PhysicalOf(l.view))
      BY <3>1, <3>2 DEF Shape, LastOf, RecordedOf, PhysicalOf, Physical
    <3> QED
      BY <1>1, <1>2, <1>4, <1>6, <2>1, <3>3, FreshView, VerdictRests
  <2>2. Evidence(l.att)' <=> Evidence(l.att)
    BY <1>1 DEF Evidence, NoneOpen, SentOf
  <2> QED
    BY <1>1, <1>2, <1>6, <2>1, <2>2, SettleCall, CallStep
<1>7. CASE ~Withheld(l, Conclude(l.view[last])) /\ Conclude(l.view[last]) = "pending" /\ Loop(p, l)
  <2>1. owner = p => attempts[a] = "pending"
    BY <1>1 DEF CallInv, Undecided, Dispatching
  <2>2. LoopKnown(p, l)
    BY <1>1, <1>2, <1>4, <1>7, <2>1, FreshView DEF LoopKnown
  <2> QED
    BY <1>1, <1>2, <1>7, <2>2, LoopCall, CallStep
<1> QED
  BY <1>3, <1>5, <1>6, <1>7

LEMMA FinishPaid ==
  ASSUME PaidInv, ReleaseInv', ChargeInv', NEW p \in Procs, Finish(p)
  PROVE  PaidInv'
<1> DEFINE l == loc[p]
<1>1. /\ TypeInv /\ CallInv(p) /\ RepliesSent /\ pc[p] = "finish" /\ UNCHANGED <<rows, ledger, sent>>
      /\ attempts \in [Attempts -> Terminal \cup {"absent", "pending"}]
  BY SentFacts DEF PaidInv, StoreInv, Finish, ledgerVars, Provider, TypeInv, TypeOK, StoreTypeOK
<1>2. RowsMove /\ RowsHeld(p)
  BY <1>1, RowsMoveBy DEF RowsHeld
<1>3. CallInv(p)' /\ Others(p) /\ OwnerStep(p)
  BY <1>1, LeaveCall DEF Finish
<1>4. \/ attempts' = attempts
      \/ owner = p /\ \A a \in Attempts : attempts'[a] \in OnReply => attempts[a] \in OnReply \/ NoneOpen(a)
  <2>1. SUFFICES ASSUME owner = p, FinishAttempt(l.att, l.goal)
                 PROVE  \A a \in Attempts : attempts'[a] \in OnReply => attempts[a] \in OnReply \/ NoneOpen(a)
    BY DEF Finish
  <2>2. \A a \in Attempts : attempts'[a] = attempts[a] \/ (a = l.att /\ attempts'[a] = l.goal)
    BY <1>1, <2>1 DEF FinishAttempt, FinishedStatus
  <2>3. l.goal \in OnReply => NoneOpen(l.att)
    BY <1>1, <2>1 DEF CallInv, Concludes, Evidence
  <2> QED
    BY <2>2, <2>3
<1> QED
  BY <1>1, <1>2, <1>3, <1>4, StepFrame DEF Ordinary

(* A process that loses its lock knows nothing as its holder any more.     *)
LEMMA LoseLockPaid ==
  ASSUME PaidInv, ReleaseInv', ChargeInv', NEW p \in Procs, LoseLock(p),
         StallPoints \cap (PreLoop \cup {"send"}) = {}
  PROVE  PaidInv'
<1>1. CallInv(p) /\ UNCHANGED <<rows, ledger, sent, attempts, pc, loc>>
  BY DEF PaidInv, LoseLock, storeVars, ledgerVars, Provider
<1>2. owner = p /\ owner' = NoProc /\ owner' # p /\ pc[p] \notin PreLoop \cup {"send"}
  BY ExecutorAssumption DEF LoseLock
<1>3. KnowsRows(p)' /\ OwnRequest(p)'
  BY <1>1 DEF CallInv, KnowsRows, OwnRequest, Filled
<1>4. CallInv(p)'
  BY <1>1, <1>2, <1>3 DEF CallInv, HoldsSend, KnowsSent, Undecided, MaySend, HoldsRow, LastSent,
       Accounts,
     Concludes, PreLoop
<1> QED
  BY <1>1, <1>2, <1>4, CallStep DEF Others, OwnerStep

-----------------------------------------------------------------------------
LEMMA PaidInit == Init => PaidInv
<1> SUFFICES ASSUME Init  PROVE PaidInv
  OBVIOUS
<1>1. /\ rows = [r \in Requests |-> NoRow] /\ ledger = {} /\ sent = {}
      /\ \A a \in Attempts : attempts[a] = "absent"
  BY DEF Init, StoreInit, LedgerInit
<1>2. RowsInOrder
  <2>1. 0 \in 0 .. MaxRequests
    BY MaxRequestsAssumption
  <2>2. \A r \in Requests : ~(r[2] <= 0)
    BY RequestParts, MaxRequestsAssumption
  <2>3. \A a \in Attempts : \A r \in Requests : RowsOf(a)[r].status = "none"
    BY <1>1 DEF RowsOf, NoRow
  <2> QED
    BY <2>1, <2>2, <2>3 DEF RowsInOrder, Filled
<1>3. StoreInv
  BY <1>1, <1>2 DEF StoreInv, OneOpen, RepliesSent, OutcomesKnown, SentInOrder, DecidedClosed,
       Shape, NoRow,
     HasOutcome, OnReply
<1>4. \A p \in Procs : pc[p] = "idle"
  BY DEF Init
<1>5. \A p \in Procs : CallInv(p)
  BY <1>4 DEF CallInv, KnowsRows, OwnRequest, HoldsSend, KnowsSent, Undecided, MaySend, HoldsRow,
       LastSent,
     Accounts, Concludes, Dispatching, BeforeSend, Holding, InExchange, Busy, Unsent
<1> QED
  BY <1>3, <1>5, ReleaseInit, ChargeInit DEF PaidInv

LEMMA PaidStep ==
  ASSUME StallPoints \cap (PreLoop \cup {"send"}) = {}
  PROVE  PaidInv /\ [Next]_vars => PaidInv'
<1> SUFFICES ASSUME PaidInv, [Next]_vars  PROVE PaidInv'
  OBVIOUS
<1>1. ReleaseInv' /\ ChargeInv'
  BY ReleaseStep, ChargeStep DEF PaidInv
<1>2. CASE UNCHANGED vars
  <2>1. UNCHANGED <<attempts, rows, ledger, sent, owner, pc, loc>>
    BY <1>2 DEF vars
  <2>2. RowsInOrder' /\ OneOpen' /\ RepliesSent'
    BY <2>1 DEF PaidInv, StoreInv, RowsInOrder, RowsOf, OneOpen, RepliesSent
  <2>3. OutcomesKnown' /\ SentInOrder' /\ DecidedClosed'
    BY <2>1 DEF PaidInv, StoreInv, OutcomesKnown, SentInOrder, DecidedClosed, NoneOpen, SentOf,
         HasOutcome
  <2>4. ASSUME NEW p \in Procs  PROVE CallInv(p)'
    <3>1. KnowsRows(p)' /\ OwnRequest(p)' /\ HoldsSend(p)'
      BY <2>1 DEF PaidInv, CallInv, KnowsRows, OwnRequest, HoldsSend
    <3>2. KnowsSent(p)' /\ Undecided(p)'
      BY <2>1 DEF PaidInv, CallInv, KnowsSent, Undecided, SentOf
    <3>5. MaySend(p)'
      BY <2>1 DEF PaidInv, CallInv, MaySend, Allowed, SentOf
    <3>3. HoldsRow(p)' /\ LastSent(p)' /\ Accounts(p)'
      BY <2>1 DEF PaidInv, CallInv, HoldsRow, LastSent, Accounts, SentOf
    <3>4. Concludes(p)'
      BY <2>1 DEF PaidInv, CallInv, Concludes, Evidence, NoneOpen, SentOf
    <3> QED
      BY <3>1, <3>2, <3>3, <3>4, <3>5 DEF CallInv
  <2> QED
    BY <1>1, <2>2, <2>3, <2>4 DEF PaidInv, StoreInv
<1>3. ASSUME NEW p \in Procs, Recover(p)  PROVE PaidInv'
  BY <1>1, <1>3, QuietPaid, ReadAgainPaid, RestorePaid, SettlePaid, AbandonUnsentPaid, OpenPaid
       DEF Recover
<1>4. ASSUME NEW p \in Procs, DispatchLoop(p)  PROVE PaidInv'
  BY <1>1, <1>4, CheckPaid, ReservePaid, ReceiptPaid, AbandonPaid, SendPaid, ReceivePaid,
       OutcomePaid, RecordPaid,
     ConcludePaid, FinishPaid DEF DispatchLoop
<1>5. ASSUME NEW p \in Procs, LoseLock(p)  PROVE PaidInv'
  BY <1>1, <1>5, LoseLockPaid
<1>6. ASSUME NEW p \in Procs, Stop(p) \/ \E a \in Attempts, d \in BOOLEAN : Start(p, a, d)
             PROVE PaidInv'
  BY <1>1, <1>6, QuietPaid
<1> QED
  BY <1>2, <1>3, <1>4, <1>5, <1>6 DEF Next, Step
-----------------------------------------------------------------------------
(* The refinement. *)

RetryableRequests == {r \in Requests : rows[r].status = "responded" /\ rows[r].reply = "retryable"}
AccountedRequests == {r \in sent : HasOutcome(ledger, r)}
Verdict(status) == IF status = "absent" THEN "pending" ELSE status
Verdicts == [a \in Attempts |-> Verdict(attempts[a])]

LEMMA PaidState ==
  /\ Paid!paidVars = <<sent, RetryableRequests, AccountedRequests, Verdicts>>
  /\ \A a : Paid!Of(a) = SentOf(a)
BY DEF Paid!paidVars, Paid!Of, SentOf, RetryableRequests, AccountedRequests, Verdicts, Verdict

LEMMA PaidUnchanged ==
  ASSUME UNCHANGED <<sent, RetryableRequests, AccountedRequests, Verdicts>>
  PROVE  UNCHANGED Paid!paidVars
BY DEF Paid!paidVars, RetryableRequests, AccountedRequests, Verdicts, Verdict

(* Rows of which no reply was saved are as retryable as before.            *)
LEMMA SameReplies ==
  ASSUME PaidInv, \A r \in Requests : rows'[r].reply = rows[r].reply /\ Stands(rows[r], rows'[r])
  PROVE  RetryableRequests' = RetryableRequests
BY DEF RetryableRequests, Stands

LEMMA RepliesKept ==
  ASSUME PaidInv, \/ rows' = rows
                  \/ \E r, flag : Abandon(r, flag)
                  \/ \E r, c : Reconcile(r, c)
                  \/ \E r, c : \E status \in {"responded", "no_response"} : Record(r, status, c, "none")
                  \/ \E r : rows[r] = NoRow /\ rows' = [rows EXCEPT ![r] = ReservedRow]
  PROVE  RetryableRequests' = RetryableRequests
<1>1. rows \in [Requests -> Rows] /\ \A r \in Requests : Shape(rows[r])
  BY SentFacts
<1>2. CASE rows' = rows
  BY <1>2 DEF RetryableRequests
<1>3. CASE \E r, flag : Abandon(r, flag)
  BY <1>1, <1>3, RowMovesBy, RowStays, SameReplies DEF Abandon, RowMoves
<1>4. CASE \E r, c : Reconcile(r, c)
  BY <1>1, <1>4, RowMovesBy, RowStays, SameReplies DEF Reconcile, RowMoves
<1>5. CASE \E r, c : \E status \in {"responded", "no_response"} : Record(r, status, c, "none")
  <2>1. PICK r, c : \E status \in {"responded", "no_response"} : Record(r, status, c, "none")
    BY <1>5
  <2>2. PICK status \in {"responded", "no_response"} : Record(r, status, c, "none")
    BY <2>1
  <2>3. \A x \in Requests : /\ x # r => rows'[x] = rows[x]
                            /\ x = r => rows'[x] = RecordedRow(rows[x], status, c, "none")
    BY <1>1, <2>2 DEF Record
  <2>4. \A x \in Requests : RowMoves(rows[x], rows'[x]) /\ rows'[x].reply \in {rows[x].reply, "none"}
    BY <1>1, <2>3, RowMovesBy, RowStays
  <2> QED
    BY <2>4 DEF RetryableRequests, RowMoves, Stands
<1>6. CASE \E r : rows[r] = NoRow /\ rows' = [rows EXCEPT ![r] = ReservedRow]
  BY <1>1, <1>6 DEF RetryableRequests, NoRow, ReservedRow
<1> QED
  BY <1>2, <1>3, <1>4, <1>5, <1>6

(* Most steps are invisible to the abstract attempts.                      *)
LEMMA Invisible ==
  ASSUME PaidInv, sent' = sent, RetryableRequests' = RetryableRequests,
         \A r \in Requests : HasOutcome(ledger', r) <=> HasOutcome(ledger, r),
         \A a \in Attempts : Verdict(attempts'[a]) = Verdict(attempts[a])
  PROVE  UNCHANGED Paid!paidVars
<1>1. AccountedRequests' = AccountedRequests
  BY SentFacts DEF AccountedRequests
<1>2. Verdicts' = Verdicts
  BY DEF Verdicts
<1> QED
  BY <1>1, <1>2, PaidUnchanged

LEMMA InvisibleRecovery ==
  ASSUME PaidInv, NEW p \in Procs, Recover(p), ~RestoreReceipt(p)
  PROVE  UNCHANGED Paid!paidVars
<1>1. sent' = sent /\ ledger' = ledger
  BY DEF Recover, ReadAttempt, CreateAttempt, ReadReceipts, ReconcileLate, ReadAgain, ReturnSaved,
     HonourCancellation, BeginSettling, AbandonUnsent, ImportOutcome, MarkUncertain, EndSettling,
     ledgerVars, Provider
<1>2. \A a \in Attempts : Verdict(attempts'[a]) = Verdict(attempts[a])
  <2>1. CASE CreateAttempt(p)
    BY <2>1, SentFacts DEF CreateAttempt, Verdict, TypeInv, TypeOK, StoreTypeOK
  <2>2. CASE attempts' = attempts
    BY <2>2
  <2> QED
    BY <2>1, <2>2 DEF Recover, ReadAttempt, ReadReceipts, ReconcileLate, ReadAgain, ReturnSaved,
       HonourCancellation, BeginSettling, AbandonUnsent, ImportOutcome, MarkUncertain, EndSettling, storeVars
<1>3. RetryableRequests' = RetryableRequests
  <2>1. CASE ImportOutcome(p)
    <3>1. \A e \in loc[p].recs : e.type = "request_outcome" => e.outcome \in {"responded", "no_response"}
      BY SentFacts DEF TypeInv, TypeOK, Locals, Receipts
    <3> QED
      BY <2>1, <3>1, RepliesKept DEF ImportOutcome
  <2> QED
    BY <2>1, RepliesKept DEF Recover, ReadAttempt, CreateAttempt, ReadReceipts, ReconcileLate,
         ReadAgain,
       ReturnSaved, HonourCancellation, BeginSettling, AbandonUnsent, MarkUncertain, EndSettling, storeVars
<1> QED
  BY <1>1, <1>2, <1>3, Invisible

LEMMA InvisibleDispatch ==
  ASSUME PaidInv, NEW p \in Procs,
         \/ PreCheck(p) \/ ReserveRequest(p) \/ AppendIntent(p) \/ AbandonUnrecorded(p) \/ CheckAgain(p)
         \/ RefuseSend(p) \/ AppendCancelled(p) \/ AbandonCancelled(p) \/ Receive(p) \/ ReadOutcome(p)
         \/ Stop(p) \/ LoseLock(p) \/ \E a \in Attempts, d \in BOOLEAN : Start(p, a, d)
  PROVE  UNCHANGED Paid!paidVars
<1>1. sent' = sent /\ attempts' = attempts
  BY DEF PreCheck, ReserveRequest, AppendIntent, AbandonUnrecorded, CheckAgain, RefuseSend,
       AppendCancelled,
     AbandonCancelled, Receive, ReadOutcome, Stop, LoseLock, Start, storeVars, Provider
<1>2. RetryableRequests' = RetryableRequests
  BY RepliesKept DEF PreCheck, ReserveRequest, AppendIntent, AbandonUnrecorded, CheckAgain,
       RefuseSend,
     AppendCancelled, AbandonCancelled, Receive, ReadOutcome, Stop, LoseLock, Start, storeVars
<1>3. \A r \in Requests : HasOutcome(ledger', r) <=> HasOutcome(ledger, r)
  <2>1. CASE ledger' = ledger
    BY <2>1
  <2>2. CASE \E e \in {Intent(loc[p].cur), Cancelled(loc[p].cur)} : Append(e) \/ AppendRefused \/ AppendFaulted(e)
    <3>1. PICK e \in {Intent(loc[p].cur), Cancelled(loc[p].cur)} : Append(e) \/ AppendRefused \/ AppendFaulted(e)
      BY <2>2
    <3>2. e.type # "request_outcome" /\ ledger \subseteq ledger' /\ ledger' \subseteq ledger \cup {e}
      BY <3>1, AppendEffect DEF Intent, Cancelled
    <3> QED
      BY <3>2 DEF HasOutcome
  <2> QED
    BY <2>1, <2>2 DEF PreCheck, ReserveRequest, AppendIntent, AbandonUnrecorded, CheckAgain,
         RefuseSend,
       AppendCancelled, AbandonCancelled, Receive, ReadOutcome, Stop, LoseLock, Start, ledgerVars
<1> QED
  BY <1>1, <1>2, <1>3, Invisible

(* A request is sent within the allowance of its undecided attempt.        *)
LEMMA SendRefines ==
  ASSUME PaidInv, NEW p \in Procs, Send(p)
  PROVE  Paid!Next
<1> PICK a, r : a = loc[p].att /\ r = loc[p].cur
  OBVIOUS
<1>1. CallInv(p) /\ SendInv /\ pc[p] = "send" /\ owner = p /\ r \in Requests /\ a \in Attempts
  BY SentFacts DEF TypeInv, TypeOK, LocalsOK, PlaceOK, Locals, Busy, Unsent, PaidInv, ReleaseInv,
       Send, CallInv,
     HoldsSend
<1>2. r[1] = a /\ r \notin sent /\ attempts[a] = "pending" /\ Allowed(a)
  BY <1>1 DEF CallInv, OwnRequest, SendInv, CurOwned, Busy, Unsent, Undecided, MaySend,
       Dispatching, BeforeSend
<1>3. r = <<a, r[2]>> /\ r[2] \in 1 .. MaxRequests
  <2>1. r[2] \in 1 .. MaxRequests
    BY <1>1, RequestParts
  <2>2. <<a, r[2]>> \in Requests /\ <<a, r[2]>>[1] = r[1] /\ <<a, r[2]>>[2] = r[2]
    BY <1>1, <1>2, <2>1, RequestParts
  <2> QED
    BY <1>1, <2>1, <2>2, RequestParts
<1>4. UNCHANGED <<rows, ledger, attempts>> /\ sent' = sent \cup {r}
  BY DEF Send, storeVars, ledgerVars
<1>5. AccountedRequests' = AccountedRequests
  <2>1. ~HasOutcome(ledger, r)
    <3>1. rows[r].status = "reserved"
      BY <1>1 DEF CallInv, HoldsRow, Holding
    <3> QED
      BY <1>1, <1>2, <3>1 DEF PaidInv, StoreInv, OutcomesKnown, Fixed
  <2> QED
    BY <1>4, <2>1 DEF AccountedRequests, HasOutcome
<1>6. RetryableRequests' = RetryableRequests /\ Verdicts' = Verdicts
  BY <1>4 DEF RetryableRequests, Verdicts
<1>7. SentOf(a) \subseteq RetryableRequests \cap AccountedRequests
  BY <1>2, SentFacts DEF Allowed, SentOf, Retryable, RetryableRequests, AccountedRequests
<1>8. Verdicts[a] = "pending"
  BY <1>1, <1>2 DEF Verdicts, Verdict
<1>9. Paid!Send(a, r[2])
  <2>1. Paid!Of(a) = SentOf(a) /\ Paid!Cardinality(SentOf(a)) <= MaxRetries
    <3>1. Paid!Cardinality(SentOf(a)) = Cardinality(SentOf(a))
      BY DEF Paid!Cardinality, Cardinality
    <3> QED
      BY <1>2, <3>1, PaidState DEF Allowed
  <2>2. <<a, r[2]>> \notin sent /\ sent' = sent \cup {<<a, r[2]>>}
    BY <1>2, <1>3, <1>4
  <2> QED
    BY <1>1, <1>5, <1>6, <1>7, <1>8, <2>1, <2>2
       DEF Paid!Send, RetryableRequests, AccountedRequests, Verdicts, Verdict
<1> QED
  BY <1>1, <1>3, <1>9 DEF Paid!Next

(* An outcome receipt accounts for its request.                            *)
LEMMA AccountRefines ==
  ASSUME PaidInv, NEW p \in Procs, AppendOutcome(p) \/ RestoreReceipt(p)
  PROVE  Paid!Next \/ UNCHANGED Paid!paidVars
<1>1. UNCHANGED <<rows, sent, attempts>>
  BY DEF AppendOutcome, RestoreReceipt, storeVars, Provider
<1>2. PICK e : Append(e) \/ AppendRefused \/ AppendFaulted(e)
  BY DEF AppendOutcome, RestoreReceipt
<1>3. ledger \subseteq ledger' /\ ledger' \subseteq ledger \cup {e}
  BY <1>2, AppendEffect
<1>4. AccountedRequests \subseteq AccountedRequests' /\ AccountedRequests' \subseteq AccountedRequests \cup {e.req}
  BY <1>1, <1>3 DEF AccountedRequests, HasOutcome
<1>5. RetryableRequests' = RetryableRequests /\ Verdicts' = Verdicts
  BY <1>1 DEF RetryableRequests, Verdicts
<1>6. CASE AccountedRequests' = AccountedRequests
  BY <1>1, <1>5, <1>6, PaidUnchanged
<1>7. CASE AccountedRequests' # AccountedRequests
  <2>1. e.req \in sent \ AccountedRequests /\ AccountedRequests' = AccountedRequests \cup {e.req}
    BY <1>1, <1>4, <1>7 DEF AccountedRequests
  <2>2. Paid!Account(e.req)
    BY <1>1, <1>5, <2>1 DEF Paid!Account, RetryableRequests, AccountedRequests, Verdicts, Verdict
  <2> QED
    BY <2>1, <2>2 DEF Paid!Next
<1> QED
  BY <1>6, <1>7

(* A saved reply may permit a retry, but not once a verdict on a reply     *)
(* stands.                                                                 *)
LEMMA RecordRefines ==
  ASSUME PaidInv, NEW p \in Procs, RecordOutcome(p)
  PROVE  Paid!Next \/ UNCHANGED Paid!paidVars
<1> PICK l : l = loc[p]
  OBVIOUS
<1>1. UNCHANGED <<sent, ledger, attempts>> /\ pc[p] = "record"
  BY DEF RecordOutcome, ledgerVars, Provider
<1>2. l.cur \in sent /\ l.cur \in Requests /\ l.cur[1] = l.att /\ l.att \in Attempts /\ l.cur \in SentOf(l.att)
  BY <1>1, SentFacts DEF PaidInv, ChargeInv, TrueCalls, TrueLocals, InExchange, CallInv,
       OwnRequest, Busy, SentOf,
     TypeInv, TypeOK, Locals
<1>3. rows' = [rows EXCEPT ![l.cur] = RecordedRow(@, ExchangeStatus(l), l.charge, l.reply)]
      /\ ExchangeStatus(l) \in {"responded", "no_response"}
  BY DEF RecordOutcome, Record, ExchangeStatus
<1>4. /\ \A r \in Requests : r # l.cur => rows'[r] = rows[r]
      /\ RowMoves(rows[l.cur], rows'[l.cur])
      /\ rows[l.cur].status # "reserved" => rows'[l.cur].reply = rows[l.cur].reply
  BY <1>2, <1>3, SentFacts, RowMovesBy DEF RecordedRow
<1>5. AccountedRequests' = AccountedRequests /\ Verdicts' = Verdicts
  BY <1>1 DEF AccountedRequests, Verdicts
<1>6. CASE RetryableRequests' = RetryableRequests
  BY <1>1, <1>5, <1>6, PaidUnchanged
<1>7. CASE RetryableRequests' # RetryableRequests
  <2>1. l.cur \notin RetryableRequests /\ RetryableRequests' = RetryableRequests \cup {l.cur}
    BY <1>2, <1>4, <1>7 DEF RetryableRequests, RowMoves, Stands
  <2>2. rows[l.cur].status = "reserved"
    BY <1>2, <1>4, <2>1 DEF RetryableRequests, RowMoves, Stands
  <2>3. attempts[l.att] \notin OnReply
    BY <1>2, <2>2 DEF PaidInv, StoreInv, DecidedClosed, NoneOpen
  <2>4. Paid!PermitRetry(l.cur)
    BY <1>1, <1>2, <1>5, <2>1, <2>3
       DEF Paid!PermitRetry, Paid!ByReply, OnReply, RetryableRequests, AccountedRequests, Verdicts, Verdict
  <2> QED
    BY <1>2, <2>4 DEF Paid!Next
<1> QED
  BY <1>6, <1>7

(* An attempt is decided once, on a reply only with the evidence for it.   *)
LEMMA FinishRefines ==
  ASSUME PaidInv, NEW p \in Procs, Finish(p)
  PROVE  Paid!Next \/ UNCHANGED Paid!paidVars
<1> PICK l : l = loc[p]
  OBVIOUS
<1>1. /\ UNCHANGED <<rows, ledger, sent>> /\ pc[p] = "finish" /\ CallInv(p) /\ l.att \in Attempts
      /\ attempts \in [Attempts -> Terminal \cup {"absent", "pending"}]
      /\ attempts[l.att] # "absent" /\ l.goal \in Terminal
  BY SentFacts DEF Finish, ledgerVars, Provider, PaidInv, TypeInv, TypeOK, StoreTypeOK, LocalsOK,
       PlaceOK, Locals,
     Active, InLoop, PreLoop
<1>2. RetryableRequests' = RetryableRequests
  BY <1>1 DEF RetryableRequests
<1>3. CASE attempts' = attempts
  BY <1>1, <1>2, <1>3, Invisible
<1>4. CASE attempts' # attempts
  <2>1. owner = p /\ attempts' = [attempts EXCEPT ![l.att] = l.goal] /\ attempts[l.att] = "pending"
    BY <1>1, <1>4 DEF Finish, FinishAttempt, FinishedStatus
  <2>2. l.goal \in OnReply => \E r \in SentOf(l.att) \ RetryableRequests : Luna => r \in AccountedRequests
    <3> SUFFICES ASSUME l.goal \in OnReply
                 PROVE  \E r \in SentOf(l.att) \ RetryableRequests : Luna => r \in AccountedRequests
      OBVIOUS
    <3>1. Evidence(l.att)
      BY <1>1, <2>1 DEF CallInv, Concludes
    <3> QED
      BY <3>1 DEF Evidence, SentOf, RetryableRequests, AccountedRequests
  <2>3. Verdicts' = [Verdicts EXCEPT ![l.att] = l.goal] /\ Verdicts[l.att] = "pending"
    BY <1>1, <2>1 DEF Verdicts, Verdict, Terminal
  <2>4. AccountedRequests' = AccountedRequests
    BY <1>1 DEF AccountedRequests
  <2>5. Paid!Decide(l.att, l.goal)
    BY <1>1, <1>2, <2>2, <2>3, <2>4, PaidState
       DEF Paid!Decide, Paid!ByReply, OnReply, RetryableRequests, AccountedRequests, Verdicts, Verdict
  <2> QED
    BY <1>1, <2>5 DEF Paid!Next, Paid!Verdicts, Terminal
<1> QED
  BY <1>3, <1>4

LEMMA PaidInitially == Init => Paid!Init
<1> SUFFICES ASSUME Init  PROVE Paid!Init
  OBVIOUS
<1>1. /\ rows = [r \in Requests |-> NoRow] /\ sent = {} /\ attempts = [a \in Attempts |-> "absent"]
  BY DEF Init, StoreInit
<1> QED
  BY <1>1 DEF Paid!Init, NoRow

LEMMA PaidNext == PaidInv /\ [Next]_vars => [Paid!Next]_Paid!paidVars
<1> SUFFICES ASSUME PaidInv, [Next]_vars  PROVE Paid!Next \/ UNCHANGED Paid!paidVars
  OBVIOUS
<1>1. CASE UNCHANGED vars
  <2>1. UNCHANGED <<rows, ledger, sent, attempts>>
    BY <1>1 DEF vars
  <2> QED
    BY <2>1, Invisible DEF RetryableRequests
<1>2. ASSUME NEW p \in Procs, Step(p) \/ Stop(p) \/ LoseLock(p) \/ \E a \in Attempts, d \in
             BOOLEAN : Start(p, a, d)
      PROVE  Paid!Next \/ UNCHANGED Paid!paidVars
  BY <1>2, InvisibleRecovery, InvisibleDispatch, SendRefines, AccountRefines, RecordRefines,
       FinishRefines
     DEF Step, DispatchLoop
<1> QED
  BY <1>1, <1>2 DEF Next

(* The executor implements the abstract attempts if no process outlives    *)
(* its lock while it recovers or between its last check and the send: a    *)
(* request is sent only for an undecided attempt within its allowance,     *)
(* after all its earlier requests were answered "retry" and accounted for, *)
(* and an attempt is decided once, on a reply only with the evidence.      *)
THEOREM ExecutorImplementsPaidAttempts ==
  ASSUME StallPoints \cap (PreLoop \cup {"send"}) = {}
  PROVE  Spec => ImplementsPaidAttempts
<1>1. PaidInv /\ [Next]_vars => PaidInv'
  BY PaidStep
<1> QED
  BY <1>1, PaidInit, PaidInitially, PaidNext, PTL DEF Spec, ImplementsPaidAttempts, Paid!Spec
-----------------------------------------------------------------------------
(* What a caller is told                                                   *)

Alone == \A p \in Procs : pc[p] # "idle" => owner = p

NothingOpen(a) == \A r \in Requests : r[1] = a => rows[r].status # "reserved"
ValidLast(a) == \E r \in SentOf(a) : /\ rows[r].status = "responded" /\ rows[r].reply = "accepted"
                                     /\ \A q \in SentOf(a) : q[2] <= r[2]
AllAccounted(a) == \A r \in SentOf(a) : HasOutcome(ledger, r)
NotCancelled(a) == \A r \in Requests : r[1] = a => Cancelled(r) \notin ledger

(* A decided attempt has no open row, "valid" rests on its last request,   *)
(* and a caller was told what is saved, accounted for if it is "valid".    *)
OutcomesSettled == \A a \in Attempts :
                     /\ attempts[a] \in Terminal => NothingOpen(a)
                     /\ attempts[a] = "valid" => ValidLast(a)
                     /\ told[a] # "none" => told[a] = attempts[a]
                     /\ told[a] = "valid" => AllAccounted(a)

(* A request with a durable cancellation is the last one to be open.       *)
CancelledLast == \A r, q \in Requests :
                   Cancelled(r) \in ledger /\ q[1] = r[1] /\ q # r => rows[q].status # "reserved"

(* What the active call knows of its attempt's rows and cancellations.     *)
ReadsRows(p) == pc[p] \in {"receipts", "restore", "open"} => loc[p].view = RowsOf(loc[p].att)
HoldsOpen(p) == pc[p] \in Busy \ {"cancelled"} => rows[loc[p].cur].status = "reserved"
LeavesNone(p) == pc[p] \in {"after", "finish"} => NothingOpen(loc[p].att)
StillPending(p) == pc[p] \in {"cancelled", "finish"} => attempts[loc[p].att] = "pending"
KnowsCancelled(p) ==
  /\ pc[p] \in {"reconcile", "restore"} =>
       /\ \A e \in loc[p].recs : e.req[1] = loc[p].att
       /\ \A r \in Requests : r[1] = loc[p].att /\ Cancelled(r) \in ledger => Cancelled(r) \in loc[p].recs
  /\ pc[p] \in {"open"} \cup (Dispatching \ {"abandon"}) => NotCancelled(loc[p].att)
  /\ pc[p] = "cancelled" => loc[p].cur[1] = loc[p].att
TellsValid(p) == pc[p] = "finish" /\ loc[p].goal = "valid" =>
                   /\ ValidLast(loc[p].att)
                   /\ ~loc[p].acctFailed => AllAccounted(loc[p].att)

CallSettled(p) == /\ ReadsRows(p) /\ HoldsOpen(p) /\ LeavesNone(p)
                  /\ StillPending(p) /\ KnowsCancelled(p) /\ TellsValid(p)

SettledInv == /\ PaidInv /\ Alone /\ OutcomesSettled /\ CancelledLast
              /\ \A p \in Procs : CallSettled(p)

LEMMA OneActive ==
  ASSUME SettledInv, NEW p \in Procs, pc[p] # "idle"
  PROVE  owner = p /\ \A q \in Procs : q # p => pc[q] = "idle"
BY DEF SettledInv, Alone

LEMMA SettledFrame ==
  ASSUME SettledInv, PaidInv', NEW p \in Procs, pc[p] # "idle" \/ owner = NoProc, Others(p),
         pc'[p] = "idle" \/ owner' = p, OutcomesSettled', CancelledLast', CallSettled(p)'
  PROVE  SettledInv'
<1>1. \A q \in Procs : q # p => pc'[q] = "idle"
  BY ExecutorAssumption DEF SettledInv, Alone, Others
<1>2. Alone'
  BY <1>1 DEF Alone
<1>3. \A q \in Procs : q # p => CallSettled(q)'
  BY <1>1 DEF CallSettled, ReadsRows, HoldsOpen, LeavesNone, StillPending, KnowsCancelled,
       TellsValid, Busy, Unsent, Dispatching
<1> QED
  BY <1>2, <1>3 DEF SettledInv

LEMMA QuietSettled ==
  ASSUME NEW p \in Procs, pc'[p] \in {"idle", "read", "create"}
  PROVE  CallSettled(p)'
BY DEF CallSettled, ReadsRows, HoldsOpen, LeavesNone, StillPending, KnowsCancelled, TellsValid,
     Busy, Unsent, Dispatching

LEMMA ValidStays ==
  ASSUME PaidInv, RowsMove, sent' = sent, NEW a \in Attempts
  PROVE  ValidLast(a) => ValidLast(a)'
<1>1. SentOf(a)' = SentOf(a) /\ SentOf(a) \subseteq Requests
  BY SentFacts DEF SentOf
<1>2. \A r \in Requests : Stands(rows[r], rows'[r])
  BY DEF RowsMove, RowMoves
<1> QED
  BY <1>1, <1>2 DEF ValidLast, Stands

(* What stays as it was over a step that reserves, sends and decides       *)
(* nothing.                                                                *)
LEMMA OutcomesStay ==
  ASSUME SettledInv, RowsMove, sent' = sent, ledger \subseteq ledger'
  PROVE  /\ \A a \in Attempts : NothingOpen(a) => NothingOpen(a)'
         /\ \A a \in Attempts : ValidLast(a) => ValidLast(a)'
         /\ \A a \in Attempts : AllAccounted(a) => AllAccounted(a)'
         /\ UNCHANGED <<attempts, told>> => OutcomesSettled'
<1>1. \A a \in Attempts : NothingOpen(a) => NothingOpen(a)'
  BY DEF NothingOpen, RowsMove, RowMoves
<1>2. \A a \in Attempts : ValidLast(a) => ValidLast(a)'
  BY ValidStays DEF SettledInv
<1>3. \A a \in Attempts : AllAccounted(a) => AllAccounted(a)'
  BY DEF AllAccounted, SentOf, HasOutcome
<1>4. ASSUME UNCHANGED <<attempts, told>>  PROVE OutcomesSettled'
  BY <1>1, <1>2, <1>3, <1>4 DEF SettledInv, OutcomesSettled
<1> QED
  BY <1>1, <1>2, <1>3, <1>4

NoneCancelled == \A r \in Requests : Cancelled(r) \in ledger' => Cancelled(r) \in ledger

LEMMA CancelledStays ==
  ASSUME SettledInv, RowsMove, NoneCancelled
  PROVE  CancelledLast' /\ \A a \in Attempts : NotCancelled(a) => NotCancelled(a)'
<1>1. \A r \in Requests : rows'[r].status = "reserved" => rows[r].status = "reserved"
  BY DEF RowsMove, RowMoves
<1>2. CancelledLast'
  BY <1>1 DEF SettledInv, CancelledLast, NoneCancelled
<1> QED
  BY <1>2 DEF NotCancelled, NoneCancelled

(* An ordinary step of the active call.                                    *)
LEMMA PlainStep ==
  ASSUME SettledInv, PaidInv', NEW p \in Procs, pc[p] # "idle", Others(p), RowsMove,
         UNCHANGED <<sent, attempts, told>>, ledger \subseteq ledger', NoneCancelled,
         pc'[p] = "idle" \/ owner' = owner, CallSettled(p)'
  PROVE  SettledInv'
<1>1. OutcomesSettled' /\ CancelledLast' /\ owner = p
  BY OutcomesStay, CancelledStays, OneActive
<1> QED
  BY <1>1, SettledFrame

LEMMA SettledFacts ==
  ASSUME SettledInv, NEW p \in Procs
  PROVE  /\ PaidInv /\ TypeInv /\ RepliesSent /\ CallInv(p) /\ CallSettled(p)
         /\ loc[p] \in Locals /\ loc[p].att \in Attempts /\ PlaceOK(pc[p], loc[p], attempts)
         /\ attempts \in [Attempts -> Terminal \cup {"absent", "pending"}]
         /\ told \in [Attempts -> Terminal \cup {"none"}]
         /\ sent \subseteq Requests /\ rows \in [Requests -> Rows]
<1>1. PaidInv /\ TypeInv /\ loc[p] \in Locals
  BY SentFacts DEF SettledInv, TypeInv, TypeOK
<1> QED
  BY <1>1 DEF SettledInv, PaidInv, StoreInv, TypeInv, TypeOK, StoreTypeOK, LocalsOK, Locals

LEMMA OnlyOpen ==
  ASSUME PaidInv, NEW r \in Requests, NEW q \in Requests, rows[r].status = "reserved",
         rows[q].status = "reserved", r[1] = q[1]
  PROVE  r = q
<1>1. ~(r[2] < q[2]) /\ ~(q[2] < r[2])
  BY DEF PaidInv, StoreInv, OneOpen
<1> QED
  BY <1>1, RequestParts, MaxRequestsAssumption

LEMMA SettleSettled ==
  ASSUME TypeInv, NEW p \in Procs, NEW l, NEW verdict, Settle(p, l, verdict),
         NothingOpen(l.att)', attempts'[l.att] = "pending",
         verdict = "valid" => ValidLast(l.att)' /\ (~l.acctFailed => AllAccounted(l.att)')
  PROVE  CallSettled(p)' /\ Others(p) /\ owner' = owner /\ told' = told
<1> DEFINE new == [Idle EXCEPT !.att = l.att, !.acctFailed = l.acctFailed, !.goal = verdict]
<1>1. new.att = l.att /\ new.goal = verdict /\ new.acctFailed = l.acctFailed
  BY DEF Idle
<1>2. Others(p) /\ pc'[p] = "finish" /\ loc'[p] = new /\ owner' = owner /\ told' = told
  BY ContinueEffect DEF Settle, Continue
<1> HIDE DEF new
<1>3. LeavesNone(p)' /\ StillPending(p)' /\ TellsValid(p)'
  BY <1>1, <1>2 DEF LeavesNone, StillPending, TellsValid
<1> QED
  BY <1>2, <1>3 DEF CallSettled, ReadsRows, HoldsOpen, KnowsCancelled, Busy, Unsent, Dispatching

LEMMA LeaveSettled ==
  ASSUME TypeInv, NEW p \in Procs, Pause(p)
  PROVE  CallSettled(p)' /\ Others(p) /\ pc'[p] = "idle" /\ told' = told
BY LeaveEffect, QuietSettled DEF Pause

(* A verdict "valid" rests on the accepted reply to the last request.      *)
LEMMA ValidRests ==
  ASSUME PaidInv, NEW l \in Locals, NEW last \in LastOf(PhysicalOf(l.view)),
         Conclude(l.view[last]) = "valid", Filled(l.view, l.att),
         \A r \in Requests : Shape(l.view[r]) /\ Stands(l.view[r], rows[r]),
         \A r \in SentOf(l.att) : Physical(l.view[r])
  PROVE  ValidLast(l.att)
<1>1. l.view[last] \in Rows /\ last \in Requests /\ Shape(l.view[last])
  BY DEF Locals, LastOf, PhysicalOf
<1>2. l.view[last].reply = "accepted" /\ l.view[last].status = "responded"
  BY <1>1 DEF Conclude, Shape, Rows, ReplyKinds
<1>3. /\ last \in SentOf(l.att) /\ rows[last].status = l.view[last].status
      /\ rows[last].reply = l.view[last].reply
  BY <1>2, LastReplied DEF Filled
<1>4. SentOf(l.att) \subseteq PhysicalOf(l.view)
  BY SentFacts DEF SentOf, PhysicalOf
<1> QED
  BY <1>2, <1>3, <1>4 DEF ValidLast, LastOf

LEMMA LoopSettled ==
  ASSUME SettledInv, NEW p \in Procs, pc[p] # "idle", NEW l \in Locals, Loop(p, l),
         LoopKnown(p, l), NothingOpen(l.att), NotCancelled(l.att), attempts[l.att] = "pending",
         UNCHANGED <<rows, ledger, sent, attempts>>
  PROVE  CallSettled(p)' /\ Others(p) /\ (pc'[p] = "idle" \/ owner' = owner) /\ told' = told
<1>1. TypeInv /\ PaidInv /\ owner = p /\ l.att \in Attempts
  BY SettledFacts, OneActive DEF Locals
<1>2. /\ NothingOpen(l.att)' /\ attempts'[l.att] = "pending" /\ NotCancelled(l.att)'
      /\ ValidLast(l.att) => ValidLast(l.att)'
      /\ AllAccounted(l.att) => AllAccounted(l.att)'
  BY DEF NothingOpen, NotCancelled, ValidLast, AllAccounted, SentOf, HasOutcome
<1>3. CASE Pause(p)
  BY <1>1, <1>3, LeaveSettled
<1>4. CASE \E last \in LastOf(PhysicalOf(l.view)) : Settle(p, l, Conclude(l.view[last]))
  <2>1. PICK last \in LastOf(PhysicalOf(l.view)) : Settle(p, l, Conclude(l.view[last]))
    BY <1>4
  <2>2. PICK verdict : verdict = Conclude(l.view[last])
    OBVIOUS
  <2>3. AllAccounted(l.att)
    BY <1>1 DEF LoopKnown, AllAccounted
  <2>4. verdict = "valid" => ValidLast(l.att)
    BY <1>1, <2>2, ValidRests DEF LoopKnown
  <2> QED
    BY <1>1, <1>2, <2>1, <2>2, <2>3, <2>4, SettleSettled
<1>5. CASE Settle(p, l, "failed")
  BY <1>1, <1>2, <1>5, SettleSettled
<1>6. CASE Dispatch(p, l) /\ l.dispatch
  <2> DEFINE new == [Idle EXCEPT !.att = l.att, !.dispatch = TRUE, !.view = l.view]
  <2>1. new.att = l.att
    BY DEF Idle
  <2>2. Others(p) /\ pc'[p] = "precheck" /\ loc'[p] = new /\ owner' = owner /\ told' = told
    BY <1>1, <1>6, ContinueEffect DEF Dispatch, Continue
  <2> HIDE DEF new
  <2>3. KnowsCancelled(p)'
    BY <1>2, <2>1, <2>2 DEF KnowsCancelled
  <2> QED
    BY <2>2, <2>3 DEF CallSettled, ReadsRows, HoldsOpen, LeavesNone, StillPending, TellsValid,
         Busy, Unsent
<1> QED
  BY <1>3, <1>4, <1>5, <1>6 DEF Loop, Dispatch
-----------------------------------------------------------------------------
(* Recovery: from the first read to the last reservation settled.          *)
LEMMA StartSettled ==
  ASSUME SettledInv, PaidInv', NEW p \in Procs,
         \/ ReadAttempt(p) /\ attempts[loc[p].att] = "absent"
         \/ CreateAttempt(p) \/ Stop(p)
         \/ \E a \in Attempts, d \in BOOLEAN : Start(p, a, d)
  PROVE  SettledInv'
<1>1. TypeInv /\ RepliesSent /\ attempts \in [Attempts -> Terminal \cup {"absent", "pending"}]
  BY SettledFacts
<1>2. UNCHANGED <<rows, ledger, sent, told>>
  BY DEF ReadAttempt, CreateAttempt, Stop, Start, storeVars, ledgerVars, Provider, Continue, Pause
<1>3. RowsMove /\ NoneCancelled
  BY <1>1, <1>2, RowsMoveBy DEF NoneCancelled
<1>4. \A a \in Attempts : attempts'[a] = attempts[a] \/ attempts'[a] = "pending"
  BY <1>1 DEF ReadAttempt, CreateAttempt, Stop, Start, storeVars
<1>5. OutcomesSettled' /\ CancelledLast'
  <2>1. \A a \in Attempts : told[a] # "none" => attempts[a] # "absent"
    BY SettledFacts DEF SettledInv, OutcomesSettled, TypeInv, TypeOK, Terminal
  <2>2. \A a \in Attempts : attempts'[a] # attempts[a] => attempts[a] = "absent"
    BY <1>1 DEF ReadAttempt, CreateAttempt, Stop, Start, storeVars
  <2>3. \A a \in Attempts : /\ NothingOpen(a) => NothingOpen(a)'
                            /\ ValidLast(a) => ValidLast(a)'
                            /\ AllAccounted(a) => AllAccounted(a)'
    BY <1>2, <1>3, OutcomesStay
  <2>4. "pending" \notin Terminal /\ "pending" # "valid"
    BY DEF Terminal
  <2> QED
    BY <1>2, <1>3, <1>4, <2>1, <2>2, <2>3, <2>4, CancelledStays DEF SettledInv, OutcomesSettled
<1>6. CASE \E a \in Attempts, d \in BOOLEAN : Start(p, a, d)
  <2>1. Others(p) /\ pc'[p] = "read" /\ owner = NoProc /\ owner' = p
    BY <1>1, <1>6 DEF Start, Goto, Local, Others, TypeInv, TypeOK
  <2> QED
    BY <1>5, <2>1, QuietSettled, SettledFrame
<1>7. CASE Pause(p) /\ pc[p] # "idle"
  BY <1>1, <1>5, <1>7, LeaveSettled, SettledFrame
<1>8. CASE (\E place \in {"read", "create"} : \E l : Continue(p, place, l)) /\ pc[p] # "idle"
  <2>1. Others(p) /\ pc'[p] \in {"read", "create"} /\ owner' = owner
    BY <1>1, <1>8, ContinueEffect
  <2> QED
    BY <1>5, <1>8, <2>1, OneActive, QuietSettled, SettledFrame
<1> QED
  BY <1>6, <1>7, <1>8 DEF ReadAttempt, CreateAttempt, Stop

(* A call reads the rows and every cancellation of its attempt.            *)
LEMMA ReadSettled ==
  ASSUME SettledInv, PaidInv', NEW p \in Procs,
         \/ ReadAttempt(p) /\ attempts[loc[p].att] # "absent"
         \/ ReadReceipts(p) \/ ReconcileLate(p) \/ ReadAgain(p)
  PROVE  SettledInv'
<1> PICK l : l = loc[p]
  OBVIOUS
<1>1. TypeInv /\ RepliesSent /\ CallSettled(p) /\ l \in Locals /\ l.att \in Attempts
  BY SettledFacts
<1>2. UNCHANGED <<attempts, ledger, sent, told>> /\ pc[p] # "idle"
  BY DEF ReadAttempt, ReadReceipts, ReconcileLate, ReadAgain, storeVars, ledgerVars, Provider,
       Continue, Pause
<1>3. RowsMove /\ NoneCancelled
  BY <1>1, <1>2, RowsMoveBy DEF NoneCancelled, ReadAttempt, ReadReceipts, ReconcileLate,
       ReadAgain,
       storeVars
<1>4. CASE Pause(p)
  BY <1>1, <1>2, <1>3, <1>4, LeaveSettled, PlainStep
<1>5. CASE ReadAttempt(p) /\ attempts[l.att] # "absent"
  <2> DEFINE new == [l EXCEPT !.view = RowsOf(l.att)]
  <2>1. new.att = l.att /\ new.view = RowsOf(l.att)
    BY <1>1 DEF Locals
  <2>2. Others(p) /\ pc'[p] = "receipts" /\ loc'[p] = new /\ owner' = owner
    BY <1>1, <1>5, ContinueEffect DEF ReadAttempt
  <2> HIDE DEF new
  <2>3. ReadsRows(p)'
    BY <1>5, <2>1, <2>2 DEF ReadsRows, RowsOf, ReadAttempt, storeVars
  <2> QED
    BY <1>2, <1>3, <2>2, <2>3, PlainStep DEF CallSettled, HoldsOpen, LeavesNone, StillPending,
         KnowsCancelled, TellsValid, Busy, Unsent, Dispatching
<1>6. CASE ReadReceipts(p)
  <2> DEFINE receipts == IF RecordedOf(l.view) = {} THEN {} ELSE {e \in ledger : e.req[1] = l.att}
             new == [l EXCEPT !.recs = receipts,
                       !.todo = {e \in receipts : /\ e.type = "request_outcome" /\ e.charge # Unknown
                                                  /\ l.view[e.req].charge = "unknown"}]
  <2>1. new.att = l.att /\ new.recs = receipts
    BY <1>1 DEF Locals
  <2>2. Others(p) /\ pc'[p] = "reconcile" /\ loc'[p] = new /\ owner' = owner
    BY <1>1, <1>6, ContinueEffect DEF ReadReceipts
  <2> HIDE DEF new
  <2>3. \A e \in receipts : e.req[1] = l.att
    OBVIOUS
  <2>4. ASSUME NEW r \in Requests, r[1] = l.att, Cancelled(r) \in ledger
        PROVE  Cancelled(r) \in receipts
    <3>1. rows[r].status # "none"
      BY <2>4 DEF SettledInv, PaidInv, ReleaseInv, SendInv, Rowed
    <3>2. r \in RecordedOf(l.view)
      BY <1>1, <1>6, <2>4, <3>1 DEF CallSettled, ReadsRows, ReadReceipts, RowsOf, RecordedOf
    <3>3. Cancelled(r).req = r
      BY DEF Cancelled
    <3> QED
      BY <2>4, <3>2, <3>3
  <2> HIDE DEF receipts
  <2>5. KnowsCancelled(p)'
    BY <1>2, <2>1, <2>2, <2>3, <2>4 DEF KnowsCancelled, Dispatching
  <2> QED
    BY <1>2, <1>3, <2>2, <2>5, PlainStep DEF CallSettled, ReadsRows, HoldsOpen, LeavesNone,
         StillPending, TellsValid, Busy, Unsent
<1>7. CASE \E e : ReconcileLate(p) /\ Continue(p, "reconcile", [l EXCEPT !.todo = @ \ {e}])
  <2> PICK e : ReconcileLate(p) /\ Continue(p, "reconcile", [l EXCEPT !.todo = @ \ {e}])
    BY <1>7
  <2> DEFINE new == [l EXCEPT !.todo = @ \ {e}]
  <2>1. new.att = l.att /\ new.recs = l.recs
    BY <1>1 DEF Locals
  <2>2. Others(p) /\ pc'[p] = "reconcile" /\ loc'[p] = new /\ owner' = owner
    BY <1>1, ContinueEffect
  <2> HIDE DEF new
  <2>3. KnowsCancelled(p)'
    BY <1>1, <1>2, <2>1, <2>2 DEF CallSettled, KnowsCancelled, ReconcileLate, Dispatching
  <2> QED
    BY <1>2, <1>3, <2>2, <2>3, PlainStep DEF CallSettled, ReadsRows, HoldsOpen, LeavesNone,
         StillPending, TellsValid, Busy, Unsent
<1>8. CASE ReadAgain(p)
  <2> DEFINE view == RowsOf(l.att)
             missing == {r \in Requests : Settled(view[r]) /\ ~HasOutcome(l.recs, r)}
             new == [l EXCEPT !.view = view, !.status = attempts[l.att],
                       !.todo = {Outcome(r, view[r].status,
                         IF view[r].charge = "known" THEN view[r].amount ELSE Unknown) : r \in missing}]
  <2>1. new.att = l.att /\ new.recs = l.recs /\ new.view = RowsOf(l.att)
    BY <1>1 DEF Locals
  <2>2. Others(p) /\ pc'[p] = "restore" /\ loc'[p] = new /\ owner' = owner
    BY <1>1, <1>8, ContinueEffect DEF ReadAgain
  <2> HIDE DEF new
  <2>3. KnowsCancelled(p)'
    BY <1>1, <1>2, <1>8, <2>1, <2>2 DEF CallSettled, KnowsCancelled, ReadAgain, Dispatching
  <2>4. ReadsRows(p)'
    BY <1>8, <2>1, <2>2 DEF ReadsRows, RowsOf, ReadAgain, storeVars
  <2> QED
    BY <1>2, <1>3, <2>2, <2>3, <2>4, PlainStep DEF CallSettled, HoldsOpen, LeavesNone,
         StillPending, TellsValid, Busy, Unsent
<1> QED
  BY <1>4, <1>5, <1>6, <1>7, <1>8 DEF ReconcileLate

LEMMA RestoreSettled ==
  ASSUME SettledInv, PaidInv', NEW p \in Procs, RestoreReceipt(p)
  PROVE  SettledInv'
<1> PICK l : l = loc[p]
  OBVIOUS
<1>1. /\ TypeInv /\ RepliesSent /\ CallSettled(p) /\ l \in Locals /\ l.att \in Attempts
      /\ PlaceOK(pc[p], l, attempts)
  BY SettledFacts
<1>2. UNCHANGED <<attempts, rows, sent, told>> /\ pc[p] = "restore"
  BY DEF RestoreReceipt, storeVars, Provider, Continue, Pause
<1>3. PICK e \in l.todo : /\ Append(e) \/ AppendRefused \/ AppendFaulted(e)
                          /\ Pause(p) \/ Continue(p, "restore", [l EXCEPT !.todo = @ \ {e}])
  BY DEF RestoreReceipt
<1>4. ledger \subseteq ledger' /\ ledger' \subseteq ledger \cup {e} /\ e.type = "request_outcome"
  BY <1>1, <1>3, AppendEffect DEF PlaceOK, TodoOK
<1>5. RowsMove /\ NoneCancelled
  BY <1>1, <1>2, <1>4, RowsMoveBy DEF NoneCancelled, Cancelled
<1>6. CASE Pause(p)
  BY <1>1, <1>2, <1>4, <1>5, <1>6, LeaveSettled, PlainStep
<1>7. CASE Continue(p, "restore", [l EXCEPT !.todo = @ \ {e}])
  <2> DEFINE new == [l EXCEPT !.todo = @ \ {e}]
  <2>1. new.att = l.att /\ new.recs = l.recs /\ new.view = l.view
    BY <1>1 DEF Locals
  <2>2. Others(p) /\ pc'[p] = "restore" /\ loc'[p] = new /\ owner' = owner
    BY <1>1, <1>7, ContinueEffect
  <2> HIDE DEF new
  <2>3. KnowsCancelled(p)'
    BY <1>1, <1>2, <1>5, <2>1, <2>2 DEF CallSettled, KnowsCancelled, NoneCancelled, Dispatching
  <2>4. ReadsRows(p)'
    BY <1>1, <1>2, <2>1, <2>2 DEF CallSettled, ReadsRows, RowsOf
  <2> QED
    BY <1>2, <1>4, <1>5, <2>2, <2>3, <2>4, PlainStep DEF CallSettled, HoldsOpen, LeavesNone,
         StillPending, TellsValid, Busy, Unsent
<1> QED
  BY <1>3, <1>6, <1>7

LEMMA ReturnSettled ==
  ASSUME SettledInv, PaidInv', NEW p \in Procs, ReturnSaved(p)
  PROVE  SettledInv'
<1> PICK l : l = loc[p]
  OBVIOUS
<1>1. /\ TypeInv /\ PaidInv /\ CallInv(p) /\ CallSettled(p) /\ l.att \in Attempts
      /\ rows \in [Requests -> Rows] /\ told \in [Attempts -> Terminal \cup {"none"}]
      /\ RepliesSent
  BY SettledFacts
<1>2. /\ UNCHANGED <<attempts, rows, ledger, sent>> /\ pc[p] = "restore" /\ l.todo = {}
      /\ l.status \in Terminal /\ Return(p, l.status)
  BY DEF ReturnSaved, Restored, storeVars, ledgerVars, Provider
<1>3. l.status = attempts[l.att] /\ NothingOpen(l.att)
  BY <1>1, <1>2 DEF CallInv, KnowsSent, SettledInv, OutcomesSettled
<1>4. ASSUME NEW r \in SentOf(l.att)  PROVE HasOutcome(ledger, r)
  <2>1. r \in Requests /\ r[1] = l.att
    BY SettledFacts DEF SentOf
  <2>2. l.view[r] = rows[r] /\ rows[r].status # "reserved"
    BY <1>1, <1>2, <1>3, <2>1 DEF CallSettled, ReadsRows, RowsOf, NothingOpen
  <2>3. Settled(l.view[r])
    BY <1>1, <1>2, <1>4, <2>1, <2>2 DEF CallInv, KnowsSent, Settled, Rows
  <2> QED
    BY <1>1, <1>2, <1>4, <2>3 DEF CallInv, KnowsSent
<1>5. RowsMove /\ NoneCancelled
  BY <1>1, <1>2, RowsMoveBy DEF NoneCancelled
<1>6. OutcomesSettled'
  <2>1. \A a \in Attempts : told'[a] = IF a = l.att THEN attempts[a] ELSE told[a]
    BY <1>1, <1>2, <1>3 DEF Return
  <2>2. AllAccounted(l.att)
    BY <1>4 DEF AllAccounted
  <2> QED
    BY <1>2, <1>5, <2>1, <2>2, OutcomesStay DEF SettledInv, OutcomesSettled
<1>7. CancelledLast' /\ Others(p) /\ pc'[p] = "idle"
  BY <1>1, <1>2, <1>5, CancelledStays, LeaveEffect DEF Return
<1> QED
  BY <1>2, <1>6, <1>7, QuietSettled, SettledFrame

LEMMA HonourSettled ==
  ASSUME SettledInv, PaidInv', NEW p \in Procs, HonourCancellation(p)
  PROVE  SettledInv'
<1> PICK l : l = loc[p]
  OBVIOUS
<1>1. TypeInv /\ PaidInv /\ RepliesSent /\ CallSettled(p) /\ l \in Locals
  BY SettledFacts
<1>2. /\ UNCHANGED <<attempts, rows, ledger, sent, told>> /\ pc[p] = "restore" /\ l.todo = {}
      /\ l.status \notin Terminal
  BY DEF HonourCancellation, Restored, storeVars, ledgerVars, Provider, Continue
<1>3. RowsMove /\ NoneCancelled
  BY <1>1, <1>2, RowsMoveBy DEF NoneCancelled
<1>4. PICK r \in Requests : Cancelled(r) \in l.recs /\ Continue(p, "cancelled", [l EXCEPT !.cur = r])
  BY DEF HonourCancellation, CancelledOf
<1> DEFINE new == [l EXCEPT !.cur = r]
<1>5. new.att = l.att /\ new.cur = r
  BY <1>1 DEF Locals
<1>6. Others(p) /\ pc'[p] = "cancelled" /\ loc'[p] = new /\ owner' = owner
  BY <1>1, <1>4, ContinueEffect
<1> HIDE DEF new
<1>7. r[1] = l.att
  BY <1>1, <1>2, <1>4 DEF CallSettled, KnowsCancelled, Cancelled
<1>8. KnowsCancelled(p)'
  BY <1>5, <1>6, <1>7 DEF KnowsCancelled, Dispatching
<1>9. StillPending(p)'
  BY <1>2, <1>5, <1>6, <1>1, RecoveryEnds DEF StillPending
<1> QED
  BY <1>2, <1>3, <1>6, <1>8, <1>9, PlainStep DEF CallSettled, ReadsRows, HoldsOpen, LeavesNone,
       TellsValid, Busy

LEMMA BeginSettled ==
  ASSUME SettledInv, PaidInv', NEW p \in Procs, BeginSettling(p) \/ EndSettling(p)
  PROVE  SettledInv'
<1> PICK l : l = loc[p]
  OBVIOUS
<1>1. /\ TypeInv /\ PaidInv /\ RepliesSent /\ CallInv(p) /\ CallSettled(p)
      /\ l \in Locals /\ l.att \in Attempts
  BY SettledFacts
<1>2. UNCHANGED <<attempts, rows, ledger, sent>> /\ pc[p] \in {"restore", "open"}
  BY DEF BeginSettling, EndSettling, Restored, storeVars, ledgerVars, Provider
<1>3. l.status \notin Terminal /\ (pc[p] = "restore" => l.todo = {})
  BY <1>1 DEF CallInv, KnowsSent, BeginSettling, EndSettling, Restored
<1>4. l.view = RowsOf(l.att) /\ attempts[l.att] = "pending"
  BY <1>1, <1>2, <1>3, RecoveryEnds DEF CallSettled, ReadsRows
<1>5. NotCancelled(l.att)
  <2>1. CASE pc[p] = "restore"
    <3>1. CancelledOf(l) = {}
      BY <2>1 DEF BeginSettling, EndSettling
    <3> QED
      BY <1>1, <2>1, <3>1 DEF CancelledOf, NotCancelled, CallSettled, KnowsCancelled
  <2>2. CASE pc[p] = "open"
    BY <1>1, <2>2 DEF CallSettled, KnowsCancelled
  <2> QED
    BY <1>2, <2>1, <2>2
<1>6. RowsMove /\ NoneCancelled
  BY <1>1, <1>2, RowsMoveBy DEF NoneCancelled
<1>7. CASE OpenOf(l.view) = {} /\ \E fresh \in Locals : /\ Loop(p, fresh) /\ fresh.att = l.att
                                                        /\ fresh.view = RowsOf(fresh.att)
  <2>1. PICK fresh \in Locals : /\ Loop(p, fresh) /\ fresh.att = l.att
                                /\ fresh.view = RowsOf(fresh.att)
    BY <1>7
  <2>2. LoopKnown(p, fresh)
    BY <1>1, <1>2, <1>3, <1>7, <2>1, RecoveryEnds
  <2>3. NothingOpen(l.att)
    BY <1>4, <1>7 DEF NothingOpen, OpenOf, RowsOf
  <2>4. CallSettled(p)' /\ Others(p) /\ (pc'[p] = "idle" \/ owner' = owner) /\ told' = told
    BY <1>2, <1>4, <1>5, <2>1, <2>2, <2>3, LoopSettled
  <2> QED
    BY <1>2, <1>6, <2>4, PlainStep
<1>8. CASE Continue(p, "open", l)
  <2>1. Others(p) /\ pc'[p] = "open" /\ loc'[p] = l /\ owner' = owner /\ told' = told
    BY <1>1, <1>8, ContinueEffect DEF Continue
  <2>2. NotCancelled(l.att)'
    BY <1>2, <1>5 DEF NotCancelled
  <2>3. KnowsCancelled(p)' /\ ReadsRows(p)'
    BY <1>2, <1>4, <2>1, <2>2 DEF KnowsCancelled, ReadsRows, RowsOf
  <2> QED
    BY <1>2, <1>6, <2>1, <2>3, PlainStep DEF CallSettled, HoldsOpen, LeavesNone, StillPending,
         TellsValid, Busy, Unsent
<1>9. CASE EndSettling(p)
  <2> DEFINE fresh == [l EXCEPT !.view = RowsOf(l.att)]
  <2>1. fresh.view = RowsOf(l.att) /\ fresh.att = l.att /\ fresh \in Locals
    BY <1>1, ViewType DEF Locals, TypeInv, TypeOK
  <2>2. Loop(p, fresh) /\ OpenOf(l.view) = {}
    BY <1>9 DEF EndSettling
  <2> HIDE DEF fresh
  <2> QED
    BY <1>7, <2>1, <2>2
<1>10. CASE BeginSettling(p) /\ OpenOf(l.view) = {} /\ Loop(p, l)
  BY <1>1, <1>4, <1>7, <1>10
<1> QED
  BY <1>8, <1>9, <1>10 DEF BeginSettling

(* Settling the open rows of an attempt, of which there is one.            *)
LEMMA AbandonSettled ==
  ASSUME SettledInv, PaidInv', NEW p \in Procs, AbandonUnsent(p)
  PROVE  SettledInv'
<1> PICK l : l = loc[p]
  OBVIOUS
<1>1. /\ TypeInv /\ PaidInv /\ RepliesSent /\ CallInv(p) /\ CallSettled(p)
      /\ l \in Locals /\ l.att \in Attempts /\ rows \in [Requests -> Rows]
  BY SettledFacts
<1>2. UNCHANGED <<attempts, ledger, sent, told>> /\ pc[p] = "open"
  BY DEF AbandonUnsent, ledgerVars, Provider, Continue
<1>3. PICK r \in Requests :
        /\ l.view[r].status = "reserved" /\ Abandon(r, FALSE)
        /\ Continue(p, "open", [l EXCEPT !.view[r] = AbandonedRow(@, FALSE)])
  BY DEF AbandonUnsent, FirstOpen, OpenOf
<1>4. RowsMove /\ NoneCancelled
  BY <1>1, <1>2, <1>3, RowsMoveBy DEF NoneCancelled
<1> DEFINE view == [l.view EXCEPT ![r] = AbandonedRow(@, FALSE)]
           new == [l EXCEPT !.view = view]
<1>5. new.view = view /\ new.att = l.att
  BY <1>1 DEF Locals
<1>6. Continue(p, "open", new)
  BY <1>3
<1>7. Others(p) /\ pc'[p] = "open" /\ loc'[p] = new /\ owner' = owner
  BY <1>1, <1>6, ContinueEffect
<1>8. view = RowsOf(l.att)'
  <2>1. l.view = RowsOf(l.att)
    BY <1>1, <1>2 DEF CallSettled, ReadsRows
  <2>2. r[1] = l.att /\ l.view[r] = rows[r]
    BY <1>3, <2>1 DEF RowsOf, NoRow
  <2>3. \A x \in Requests : rows'[x] = IF x = r THEN AbandonedRow(rows[x], FALSE) ELSE rows[x]
    BY <1>1, <1>3 DEF Abandon
  <2>4. \A x \in Requests : view[x] = IF x[1] = l.att THEN rows'[x] ELSE NoRow
    BY <2>1, <2>2, <2>3 DEF RowsOf
  <2> QED
    BY <2>1, <2>4 DEF RowsOf
<1> HIDE DEF view, new
<1>9. ReadsRows(p)'
  BY <1>5, <1>7, <1>8 DEF ReadsRows, RowsOf
<1>10. KnowsCancelled(p)'
  BY <1>1, <1>2, <1>5, <1>7 DEF CallSettled, KnowsCancelled, NotCancelled
<1> QED
  BY <1>2, <1>4, <1>7, <1>9, <1>10, PlainStep DEF CallSettled, HoldsOpen, LeavesNone,
       StillPending, TellsValid, Busy, Unsent

LEMMA OpenSettled ==
  ASSUME SettledInv, PaidInv', NEW p \in Procs, ImportOutcome(p) \/ MarkUncertain(p)
  PROVE  SettledInv'
<1> PICK l : l = loc[p]
  OBVIOUS
<1>1. /\ TypeInv /\ PaidInv /\ RepliesSent /\ CallInv(p) /\ CallSettled(p)
      /\ l \in Locals /\ l.att \in Attempts /\ rows \in [Requests -> Rows]
  BY SettledFacts
<1>2. UNCHANGED <<attempts, ledger, sent, told>> /\ pc[p] = "open"
  BY DEF ImportOutcome, MarkUncertain, ledgerVars, Provider, Pause, Settle, Continue
<1>3. PICK r \in Requests : \E c : \E status \in {"responded", "no_response"} :
        /\ l.view[r].status = "reserved" /\ Record(r, status, c, "none")
        /\ Pause(p) \/ \E verdict \in {"uncertain", "response_lost"} : Settle(p, l, verdict)
  <2>1. \A e \in l.recs : e.type = "request_outcome" => e.outcome \in {"responded", "no_response"}
    BY <1>1 DEF Locals, Receipts
  <2>2. CASE ImportOutcome(p)
    <3>1. PICK r \in FirstOpen(p), e \in l.recs :
            /\ e.type = "request_outcome" /\ Record(r, e.outcome, e.charge, "none")
            /\ Pause(p) \/ \E verdict \in {"uncertain", "response_lost"} : Settle(p, l, verdict)
      BY <2>2 DEF ImportOutcome
    <3> QED
      BY <2>1, <3>1 DEF FirstOpen, OpenOf
  <2>3. CASE MarkUncertain(p)
    BY <2>3 DEF MarkUncertain, FirstOpen, OpenOf
  <2> QED
    BY <2>2, <2>3
<1>4. PICK c : \E status \in {"responded", "no_response"} :
        /\ l.view[r].status = "reserved" /\ Record(r, status, c, "none")
        /\ Pause(p) \/ \E verdict \in {"uncertain", "response_lost"} : Settle(p, l, verdict)
  BY <1>3
<1> PICK status \in {"responded", "no_response"} :
        /\ l.view[r].status = "reserved" /\ Record(r, status, c, "none")
        /\ Pause(p) \/ \E verdict \in {"uncertain", "response_lost"} : Settle(p, l, verdict)
  BY <1>4
<1>5. RowsMove /\ NoneCancelled
  BY <1>1, <1>2, <1>4, RowsMoveBy DEF NoneCancelled
<1>6. CASE Pause(p)
  BY <1>1, <1>2, <1>5, <1>6, LeaveSettled, PlainStep
<1>7. CASE \E verdict \in {"uncertain", "response_lost"} : Settle(p, l, verdict)
  <2>1. PICK verdict \in {"uncertain", "response_lost"} : Settle(p, l, verdict)
    BY <1>7
  <2>2. r[1] = l.att /\ rows[r].status = "reserved"
    BY <1>1, <1>2, <1>4 DEF CallSettled, ReadsRows, RowsOf, NoRow
  <2>3. \A x \in Requests : /\ x # r => rows'[x] = rows[x]
                            /\ x = r => rows'[x].status = status
    BY <1>1, <1>4, <2>2 DEF Record, RecordedRow
  <2>4. NothingOpen(l.att)'
    BY <1>1, <2>2, <2>3, OnlyOpen DEF NothingOpen
  <2>5. attempts'[l.att] = "pending"
    <3>1. l.status \notin Terminal
      BY <1>1, <1>2 DEF CallInv, KnowsSent
    <3> QED
      BY <1>1, <1>2, <3>1, RecoveryEnds
  <2> QED
    BY <1>1, <1>2, <1>5, <2>1, <2>4, <2>5, SettleSettled, PlainStep
<1> QED
  BY <1>4, <1>6, <1>7
-----------------------------------------------------------------------------
(* Dispatch: the call's own row is the only one of its attempt that is     *)
(* open.                                                                   *)
LEMMA CheckSettled ==
  ASSUME SettledInv, PaidInv', NEW p \in Procs,
         PreCheck(p) \/ CheckAgain(p) \/ RefuseSend(p) \/ Receive(p)
  PROVE  SettledInv'
<1> PICK l : l = loc[p]
  OBVIOUS
<1>1. TypeInv /\ RepliesSent /\ CallSettled(p) /\ l \in Locals
  BY SettledFacts
<1>2. /\ UNCHANGED <<attempts, rows, ledger, sent, told>>
      /\ pc[p] \in {"precheck", "check", "await"}
  BY DEF PreCheck, CheckAgain, RefuseSend, Receive, storeVars, ledgerVars, Provider, Continue,
       Pause
<1>3. RowsMove /\ NoneCancelled
  BY <1>1, <1>2, RowsMoveBy DEF NoneCancelled
<1>4. CASE Pause(p)
  BY <1>1, <1>2, <1>3, <1>4, LeaveSettled, PlainStep
<1>5. CASE \E place \in {"reserve", "send", "cancel", "outcome"}, new \in Locals :
             /\ Continue(p, place, new) /\ new.att = l.att /\ new.cur = l.cur
             /\ place = "reserve" <=> pc[p] = "precheck"
  <2>1. PICK place \in {"reserve", "send", "cancel", "outcome"}, new \in Locals :
             /\ Continue(p, place, new) /\ new.att = l.att /\ new.cur = l.cur
             /\ place = "reserve" <=> pc[p] = "precheck"
    BY <1>5
  <2>2. Others(p) /\ pc'[p] = place /\ loc'[p] = new /\ owner' = owner
    BY <1>1, <2>1, ContinueEffect
  <2>3. KnowsCancelled(p)'
    BY <1>1, <1>2, <2>1, <2>2 DEF CallSettled, KnowsCancelled, Dispatching, NotCancelled
  <2>4. HoldsOpen(p)'
    BY <1>1, <1>2, <2>1, <2>2 DEF CallSettled, HoldsOpen, Busy, Unsent
  <2> QED
    BY <1>2, <1>3, <2>2, <2>3, <2>4, PlainStep DEF CallSettled, ReadsRows, LeavesNone,
         StillPending, TellsValid
<1>6. ASSUME Receive(p)  PROVE \E new \in Locals : /\ Continue(p, "outcome", new)
                                                   /\ new.att = l.att /\ new.cur = l.cur
  <2>1. PICK kind \in ReplyKinds, c \in {Unknown, bill[l.cur]} :
          Continue(p, "outcome", [l EXCEPT !.reply = kind, !.charge = c])
    BY <1>6 DEF Receive
  <2>2. c \in Charge
    <3>1. l.cur \in Requests /\ bill \in [Requests -> Nat]
      BY <1>1, <1>6 DEF TypeInv, TypeOK, LocalsOK, PlaceOK, Busy, Receive
    <3> QED
      BY <2>1, <3>1 DEF Charge
  <2> DEFINE new == [l EXCEPT !.reply = kind, !.charge = c]
  <2>3. new \in Locals /\ new.att = l.att /\ new.cur = l.cur
    BY <1>1, <2>1, <2>2 DEF Locals
  <2> QED
    BY <2>1, <2>3
<1>7. CASE Receive(p)
  <2>1. PICK new \in Locals : Continue(p, "outcome", new) /\ new.att = l.att /\ new.cur = l.cur
    BY <1>6, <1>7
  <2>2. pc[p] # "precheck"
    BY <1>7 DEF Receive
  <2> QED
    BY <1>5, <2>1, <2>2
<1>8. CASE PreCheck(p) \/ CheckAgain(p) \/ RefuseSend(p)
  BY <1>1, <1>4, <1>5, <1>8 DEF PreCheck, CheckAgain, RefuseSend
<1> QED
  BY <1>7, <1>8

LEMMA ReserveSettled ==
  ASSUME SettledInv, PaidInv', NEW p \in Procs, ReserveRequest(p)
  PROVE  SettledInv'
<1> PICK l : l = loc[p]
  OBVIOUS
<1> DEFINE r == <<l.att, NextSequence(l.view)>>
           new == [l EXCEPT !.cur = r, !.view = Idle.view]
<1>1. /\ TypeInv /\ PaidInv /\ RepliesSent /\ CallInv(p) /\ CallSettled(p) /\ l \in Locals
      /\ l.att \in Attempts /\ rows \in [Requests -> Rows] /\ sent \subseteq Requests
  BY SettledFacts
<1>2. UNCHANGED <<attempts, ledger, sent, told>> /\ pc[p] = "reserve"
  BY DEF ReserveRequest, ledgerVars, Provider, Continue, Pause
<1>3. CASE UNCHANGED rows /\ Pause(p)
  <2>1. RowsMove /\ NoneCancelled
    BY <1>1, <1>2, <1>3, RowsMoveBy DEF NoneCancelled
  <2> QED
    BY <1>1, <1>2, <1>3, <2>1, LeaveSettled, PlainStep
<1>4. CASE /\ r \in Requests /\ rows' = [rows EXCEPT ![r] = ReservedRow]
           /\ Continue(p, "intent", new)
  <2>1. r[1] = l.att /\ new.att = l.att /\ new.cur = r
    BY <1>1 DEF Locals
  <2>2. Others(p) /\ pc'[p] = "intent" /\ loc'[p] = new /\ owner' = owner
    BY <1>1, <1>4, ContinueEffect
  <2>3. \A x \in Requests : rows'[x] = IF x = r THEN ReservedRow ELSE rows[x]
    BY <1>1, <1>4
  <2> HIDE DEF r, new
  <2>4. owner = p /\ attempts[l.att] = "pending" /\ NotCancelled(l.att)
    BY <1>1, <1>2, OneActive DEF CallInv, Undecided, CallSettled, KnowsCancelled, Dispatching
  <2>5. OutcomesSettled'
    <3>1. \A a \in Attempts : a # l.att => (NothingOpen(a) => NothingOpen(a)')
                                        /\ (ValidLast(a) => ValidLast(a)')
      <4>1. \A a \in Attempts : a # l.att => \A x \in Requests : x[1] = a => rows'[x] = rows[x]
        BY <2>1, <2>3
      <4>2. \A a \in Attempts : SentOf(a)' = SentOf(a)
                                /\ \A x \in SentOf(a) : x \in Requests /\ x[1] = a
        BY <1>1, <1>2 DEF SentOf
      <4> QED
        BY <4>1, <4>2 DEF NothingOpen, ValidLast
    <3>2. \A a \in Attempts : AllAccounted(a)' <=> AllAccounted(a)
      BY <1>2 DEF AllAccounted, SentOf, HasOutcome
    <3>3. "pending" \notin Terminal /\ told[l.att] # "pending"
      BY <1>1 DEF Terminal, TypeInv, TypeOK
    <3> QED
      BY <1>2, <2>4, <3>1, <3>2, <3>3 DEF SettledInv, OutcomesSettled, Terminal
  <2>6. CancelledLast'
    BY <1>2, <2>1, <2>3, <2>4 DEF SettledInv, CancelledLast, NotCancelled
  <2>7. HoldsOpen(p)' /\ KnowsCancelled(p)'
    BY <1>2, <1>4, <2>1, <2>2, <2>3, <2>4 DEF HoldsOpen, KnowsCancelled, NotCancelled, ReservedRow
  <2> QED
    BY <1>2, <2>2, <2>4, <2>5, <2>6, <2>7, SettledFrame DEF CallSettled, ReadsRows, LeavesNone,
         StillPending, TellsValid
<1> QED
  BY <1>3, <1>4 DEF ReserveRequest

LEMMA IntentSettled ==
  ASSUME SettledInv, PaidInv', NEW p \in Procs, AppendIntent(p)
  PROVE  SettledInv'
<1> PICK l : l = loc[p]
  OBVIOUS
<1>1. TypeInv /\ RepliesSent /\ CallSettled(p)
  BY SettledFacts
<1>2. /\ UNCHANGED <<attempts, rows, sent, told>> /\ pc[p] = "intent"
      /\ \E place \in {"check", "abandon"} : Continue(p, place, l)
  BY DEF AppendIntent, storeVars, Provider, Continue
<1>3. ledger \subseteq ledger' /\ ledger' \subseteq ledger \cup {Intent(l.cur)}
  BY AppendEffect DEF AppendIntent
<1>4. RowsMove /\ NoneCancelled
  BY <1>1, <1>2, <1>3, RowsMoveBy DEF NoneCancelled, Intent, Cancelled
<1>5. PICK place \in {"check", "abandon"} :
        Others(p) /\ pc'[p] = place /\ loc'[p] = l /\ owner' = owner
  BY <1>1, <1>2, ContinueEffect
<1>6. KnowsCancelled(p)' /\ HoldsOpen(p)'
  BY <1>1, <1>2, <1>4, <1>5 DEF CallSettled, KnowsCancelled, HoldsOpen, NotCancelled,
       NoneCancelled,
       Dispatching, Busy, Unsent
<1> QED
  BY <1>2, <1>3, <1>4, <1>5, <1>6, PlainStep DEF CallSettled, ReadsRows, LeavesNone, StillPending,
       TellsValid

LEMMA CancelSettled ==
  ASSUME SettledInv, PaidInv', NEW p \in Procs, AppendCancelled(p)
  PROVE  SettledInv'
<1> PICK l : l = loc[p]
  OBVIOUS
<1>1. /\ TypeInv /\ PaidInv /\ RepliesSent /\ CallInv(p) /\ CallSettled(p)
      /\ PlaceOK(pc[p], l, attempts)
  BY SettledFacts
<1>2. /\ UNCHANGED <<attempts, rows, sent, told>> /\ pc[p] = "cancel"
      /\ Pause(p) \/ Continue(p, "cancelled", l)
  BY DEF AppendCancelled, storeVars, Provider, Continue, Pause
<1>3. ledger \subseteq ledger' /\ ledger' \subseteq ledger \cup {Cancelled(l.cur)}
  BY AppendEffect DEF AppendCancelled
<1>4. RowsMove
  BY <1>1, <1>2, RowsMoveBy
<1>5. OutcomesSettled' /\ owner = p
  BY <1>2, <1>3, <1>4, OutcomesStay, OneActive
<1>6. /\ l.cur \in Requests /\ l.cur[1] = l.att /\ rows[l.cur].status = "reserved"
      /\ attempts[l.att] = "pending"
  BY <1>1, <1>2, <1>5 DEF PlaceOK, CallInv, OwnRequest, Undecided, CallSettled, HoldsOpen, Busy,
       Unsent, Dispatching
<1>7. CancelledLast'
  <2>1. ASSUME NEW r \in Requests, NEW q \in Requests, Cancelled(r) \in ledger', q[1] = r[1], q
               # r
        PROVE  rows[q].status # "reserved"
    <3>1. CASE Cancelled(r) \in ledger
      BY <2>1, <3>1 DEF SettledInv, CancelledLast
    <3>2. CASE r = l.cur
      BY <1>1, <1>6, <2>1, <3>2, OnlyOpen
    <3> QED
      BY <1>3, <2>1, <3>1, <3>2 DEF Cancelled
  <2> QED
    BY <1>2, <2>1 DEF CancelledLast
<1>8. CASE Pause(p)
  BY <1>1, <1>2, <1>5, <1>7, <1>8, LeaveSettled, SettledFrame
<1>9. CASE Continue(p, "cancelled", l)
  <2>1. Others(p) /\ pc'[p] = "cancelled" /\ loc'[p] = l /\ owner' = owner
    BY <1>1, <1>9, ContinueEffect
  <2>2. KnowsCancelled(p)' /\ StillPending(p)'
    BY <1>2, <1>6, <2>1 DEF KnowsCancelled, StillPending, Dispatching
  <2> QED
    BY <1>2, <1>5, <1>7, <2>1, <2>2, SettledFrame DEF CallSettled, ReadsRows, HoldsOpen,
         LeavesNone,
         TellsValid, Busy
<1> QED
  BY <1>2, <1>8, <1>9

LEMMA GiveUpSettled ==
  ASSUME SettledInv, PaidInv', NEW p \in Procs, AbandonUnrecorded(p) \/ AbandonCancelled(p)
  PROVE  SettledInv'
<1> PICK l : l = loc[p]
  OBVIOUS
<1>1. /\ TypeInv /\ PaidInv /\ RepliesSent /\ CallSettled(p) /\ PlaceOK(pc[p], l, attempts)
      /\ rows \in [Requests -> Rows]
  BY SettledFacts
<1>2. UNCHANGED <<attempts, ledger, sent, told>> /\ pc[p] # "idle"
  BY DEF AbandonUnrecorded, AbandonCancelled, ledgerVars, Provider, Continue, Pause, Settle
<1>3. RowsMove /\ NoneCancelled
  BY <1>1, <1>2, RowsMoveBy DEF NoneCancelled, AbandonUnrecorded, AbandonCancelled
<1>4. CASE AbandonUnrecorded(p)
  BY <1>1, <1>2, <1>3, <1>4, LeaveSettled, PlainStep DEF AbandonUnrecorded
<1>5. CASE AbandonCancelled(p)
  <2>1. /\ pc[p] = "cancelled" /\ Abandon(l.cur, TRUE) /\ Settle(p, l, "failed")
        /\ l.cur \in Requests
    BY <1>1, <1>5 DEF AbandonCancelled, PlaceOK, Busy
  <2>2. Cancelled(l.cur) \in ledger /\ l.cur[1] = l.att /\ attempts[l.att] = "pending"
    BY <1>1, <2>1 DEF PaidInv, ReleaseInv, LiveRows, CallSettled, KnowsCancelled, StillPending
  <2>3. \A r \in Requests : rows'[r] = IF r = l.cur THEN AbandonedRow(rows[r], TRUE) ELSE rows[r]
    BY <1>1, <2>1 DEF Abandon
  <2>4. AbandonedRow(rows[l.cur], TRUE).status # "reserved"
    BY <1>1, <2>1 DEF AbandonedRow, Rows
  <2>5. NothingOpen(l.att)'
    BY <2>1, <2>2, <2>3, <2>4 DEF NothingOpen, SettledInv, CancelledLast
  <2> QED
    BY <1>1, <1>2, <1>3, <2>1, <2>2, <2>5, SettleSettled, PlainStep
<1> QED
  BY <1>4, <1>5

LEMMA SendSettled ==
  ASSUME SettledInv, PaidInv', NEW p \in Procs, Send(p)
  PROVE  SettledInv'
<1> PICK l : l = loc[p]
  OBVIOUS
<1>1. /\ TypeInv /\ PaidInv /\ RepliesSent /\ CallInv(p) /\ CallSettled(p)
      /\ sent \subseteq Requests /\ l.att \in Attempts
  BY SettledFacts
<1>2. /\ UNCHANGED <<attempts, rows, ledger, told>> /\ pc[p] = "send" /\ sent' = sent \cup {l.cur}
      /\ Continue(p, "await", l)
  BY DEF Send, storeVars, ledgerVars, Continue
<1>3. Others(p) /\ pc'[p] = "await" /\ loc'[p] = l /\ owner' = owner /\ owner = p
  BY <1>1, <1>2, ContinueEffect, OneActive
<1>4. l.cur[1] = l.att /\ attempts[l.att] = "pending"
  BY <1>1, <1>2, <1>3 DEF CallInv, OwnRequest, Undecided, Busy, Unsent, Dispatching
<1>5. OutcomesSettled'
  <2>1. \A a \in Attempts : a # l.att => SentOf(a)' = SentOf(a)
    BY <1>2, <1>4 DEF SentOf
  <2>2. \A a \in Attempts : a # l.att => /\ NothingOpen(a)' <=> NothingOpen(a)
                                         /\ ValidLast(a)' <=> ValidLast(a)
                                         /\ AllAccounted(a)' <=> AllAccounted(a)
    BY <1>2, <2>1 DEF NothingOpen, ValidLast, AllAccounted, HasOutcome
  <2>3. "pending" \notin Terminal /\ told[l.att] # "pending" /\ "valid" \in Terminal
    BY <1>1 DEF Terminal, TypeInv, TypeOK
  <2> QED
    BY <1>2, <1>4, <2>2, <2>3 DEF SettledInv, OutcomesSettled
<1>6. CancelledLast'
  BY <1>2 DEF SettledInv, CancelledLast
<1>7. HoldsOpen(p)' /\ KnowsCancelled(p)'
  BY <1>1, <1>2, <1>3 DEF CallSettled, HoldsOpen, KnowsCancelled, NotCancelled, Dispatching, Busy,
       Unsent
<1> QED
  BY <1>2, <1>3, <1>5, <1>6, <1>7, SettledFrame DEF CallSettled, ReadsRows, LeavesNone,
       StillPending, TellsValid

LEMMA AppendSettled ==
  ASSUME SettledInv, PaidInv', NEW p \in Procs, AppendOutcome(p)
  PROVE  SettledInv'
<1> PICK l : l = loc[p]
  OBVIOUS
<1> DEFINE failed == [l EXCEPT !.acctFailed = TRUE]
<1>1. TypeInv /\ RepliesSent /\ CallSettled(p) /\ l \in Locals
  BY SettledFacts
<1>2. /\ UNCHANGED <<attempts, rows, sent, told>> /\ pc[p] = "outcome"
      /\ Continue(p, "record", l) \/ Continue(p, "record", failed)
  BY DEF AppendOutcome, storeVars, Provider, Continue
<1>3. ledger \subseteq ledger' /\ ledger' \subseteq ledger \cup {Outcome(l.cur, ExchangeStatus(l), l.charge)}
  BY AppendEffect DEF AppendOutcome
<1>4. RowsMove /\ NoneCancelled
  BY <1>1, <1>2, <1>3, RowsMoveBy DEF NoneCancelled, Outcome, Cancelled
<1>5. failed.att = l.att /\ failed.cur = l.cur
  BY <1>1 DEF Locals
<1>6. PICK new \in {l, failed} : Others(p) /\ pc'[p] = "record" /\ loc'[p] = new /\ owner' = owner
  BY <1>1, <1>2, ContinueEffect
<1> HIDE DEF failed
<1>7. new.att = l.att /\ new.cur = l.cur
  BY <1>5
<1>8. KnowsCancelled(p)' /\ HoldsOpen(p)'
  BY <1>1, <1>2, <1>4, <1>6, <1>7 DEF CallSettled, KnowsCancelled, HoldsOpen, NotCancelled,
       NoneCancelled, Dispatching, Busy, Unsent
<1> QED
  BY <1>2, <1>3, <1>4, <1>6, <1>8, PlainStep DEF CallSettled, ReadsRows, LeavesNone, StillPending,
       TellsValid

LEMMA RecordSettled ==
  ASSUME SettledInv, PaidInv', NEW p \in Procs, RecordOutcome(p)
  PROVE  SettledInv'
<1> PICK l : l = loc[p]
  OBVIOUS
<1> DEFINE new == [l EXCEPT !.cur = NoRequest, !.reply = "none", !.charge = Unknown]
<1>1. /\ TypeInv /\ PaidInv /\ RepliesSent /\ CallInv(p) /\ CallSettled(p) /\ l \in Locals
      /\ PlaceOK(pc[p], l, attempts) /\ rows \in [Requests -> Rows]
  BY SettledFacts
<1>2. UNCHANGED <<attempts, ledger, sent, told>> /\ pc[p] = "record"
  BY DEF RecordOutcome, ledgerVars, Provider, Continue, Pause
<1>3. /\ l.cur \in Requests /\ l.cur[1] = l.att /\ rows[l.cur].status = "reserved"
      /\ l.cur \in sent
  BY <1>1, <1>2 DEF PlaceOK, CallInv, OwnRequest, CallSettled, HoldsOpen, Busy, PaidInv,
       ChargeInv,
       TrueCalls, TrueLocals, InExchange
<1>4. /\ Record(l.cur, ExchangeStatus(l), l.charge, l.reply)
      /\ ExchangeStatus(l) \in {"responded", "no_response"}
  BY DEF RecordOutcome, ExchangeStatus
<1>5. RowsMove /\ NoneCancelled
  BY <1>1, <1>2, <1>3, <1>4, RowsMoveBy DEF NoneCancelled
<1>6. CASE Pause(p)
  BY <1>1, <1>2, <1>5, <1>6, LeaveSettled, PlainStep
<1>7. CASE Continue(p, "after", new)
  <2>1. new.att = l.att
    BY <1>1 DEF Locals
  <2>2. Others(p) /\ pc'[p] = "after" /\ loc'[p] = new /\ owner' = owner
    BY <1>1, <1>7, ContinueEffect
  <2> HIDE DEF new
  <2>3. \A r \in Requests : /\ r # l.cur => rows'[r] = rows[r]
                            /\ r = l.cur => rows'[r].status = ExchangeStatus(l)
    BY <1>1, <1>3, <1>4 DEF Record, RecordedRow
  <2>4. NothingOpen(l.att)'
    BY <1>1, <1>3, <1>4, <2>3, OnlyOpen DEF NothingOpen
  <2>5. LeavesNone(p)' /\ KnowsCancelled(p)'
    BY <1>1, <1>2, <2>1, <2>2, <2>4 DEF CallSettled, LeavesNone, KnowsCancelled, NothingOpen,
         NotCancelled, Dispatching
  <2> QED
    BY <1>2, <1>5, <2>2, <2>5, PlainStep DEF CallSettled, ReadsRows, HoldsOpen, StillPending,
         TellsValid, Busy, Unsent
<1> QED
  BY <1>6, <1>7 DEF RecordOutcome

LEMMA ConcludeSettled ==
  ASSUME SettledInv, PaidInv', NEW p \in Procs, ReadOutcome(p)
  PROVE  SettledInv'
<1> PICK l : l = [loc[p] EXCEPT !.view = RowsOf(loc[p].att)]
  OBVIOUS
<1>1. /\ TypeInv /\ PaidInv /\ RepliesSent /\ CallInv(p) /\ CallSettled(p) /\ loc[p] \in Locals
      /\ loc[p].att \in Attempts /\ owner = p
  <2>1. pc[p] # "idle"
    BY DEF ReadOutcome
  <2> QED
    BY <2>1, SettledFacts, OneActive
<1>2. UNCHANGED <<attempts, rows, ledger, sent>> /\ pc[p] = "after"
  BY DEF ReadOutcome, storeVars, ledgerVars, Provider
<1>3. l \in Locals /\ l.view = RowsOf(l.att) /\ l.att = loc[p].att /\ l.acctFailed = loc[p].acctFailed
  BY <1>1, ViewType DEF Locals, TypeInv, TypeOK
<1>4. RowsMove /\ NoneCancelled
  BY <1>1, <1>2, RowsMoveBy DEF NoneCancelled
<1>5. /\ attempts[l.att] = "pending" /\ NothingOpen(l.att) /\ NotCancelled(l.att)
      /\ ~l.acctFailed => \A r \in SentOf(l.att) : HasOutcome(ledger, r)
  BY <1>1, <1>2, <1>3 DEF CallInv, Undecided, Accounts, CallSettled, LeavesNone, KnowsCancelled,
       Dispatching
<1>6. PICK last \in LastOf(RecordedOf(l.view)) :
        \/ Pause(p)
        \/ /\ ~Withheld(l, Conclude(l.view[last]))
           /\ \/ Conclude(l.view[last]) # "pending" /\ Settle(p, l, Conclude(l.view[last]))
              \/ Conclude(l.view[last]) = "pending" /\ Loop(p, l)
  BY DEF ReadOutcome
<1>7. CASE Pause(p)
  BY <1>1, <1>2, <1>4, <1>7, LeaveSettled, PlainStep DEF Pause
<1>8. CASE Settle(p, l, Conclude(l.view[last]))
  <2>1. PICK verdict : verdict = Conclude(l.view[last])
    OBVIOUS
  <2>2. ASSUME verdict = "valid"  PROVE ValidLast(l.att)
    <3>1. l.view[last] \in Rows /\ Shape(l.view[last]) /\ last \in Requests
      BY <1>1, <1>3, FreshView DEF LastOf, RecordedOf, Locals
    <3>2. l.view[last].reply # "none"
      BY <2>1, <2>2, <3>1 DEF Conclude, Rows, ReplyKinds
    <3>3. last \in LastOf(PhysicalOf(l.view))
      BY <3>1, <3>2 DEF Shape, LastOf, RecordedOf, PhysicalOf, Physical
    <3> QED
      BY <1>1, <1>3, <2>1, <2>2, <3>3, FreshView, ValidRests
  <2>3. ~l.acctFailed => AllAccounted(l.att)
    BY <1>5 DEF AllAccounted
  <2>4. /\ NothingOpen(l.att)' /\ attempts'[l.att] = "pending"
        /\ ValidLast(l.att) => ValidLast(l.att)'
        /\ AllAccounted(l.att) => AllAccounted(l.att)'
    BY <1>2, <1>5 DEF NothingOpen, ValidLast, AllAccounted, SentOf, HasOutcome
  <2> QED
    BY <1>1, <1>2, <1>4, <1>8, <2>1, <2>2, <2>3, <2>4, SettleSettled, PlainStep
<1>9. CASE ~Withheld(l, Conclude(l.view[last])) /\ Conclude(l.view[last]) = "pending" /\ Loop(p, l)
  <2>1. ~l.acctFailed
    BY <1>9 DEF Withheld
  <2>2. LoopKnown(p, l)
    BY <1>1, <1>3, <1>5, <2>1, FreshView DEF LoopKnown
  <2>3. CallSettled(p)' /\ Others(p) /\ (pc'[p] = "idle" \/ owner' = owner) /\ told' = told
    BY <1>2, <1>3, <1>5, <1>9, <2>2, LoopSettled
  <2> QED
    BY <1>2, <1>4, <2>3, PlainStep
<1> QED
  BY <1>6, <1>7, <1>8, <1>9

(* The terminal write, and what the caller is told.                        *)
LEMMA FinishSettled ==
  ASSUME SettledInv, PaidInv', NEW p \in Procs, Finish(p)
  PROVE  SettledInv'
<1> PICK l : l = loc[p]
  OBVIOUS
<1>1. /\ TypeInv /\ PaidInv /\ RepliesSent /\ CallSettled(p) /\ l.att \in Attempts
      /\ attempts \in [Attempts -> Terminal \cup {"absent", "pending"}]
      /\ told \in [Attempts -> Terminal \cup {"none"}] /\ PlaceOK(pc[p], l, attempts)
  BY SettledFacts
<1>2. UNCHANGED <<rows, ledger, sent>> /\ pc[p] = "finish" /\ owner = p
  <2>1. pc[p] = "finish"
    BY DEF Finish
  <2> QED
    BY <2>1, OneActive DEF Finish, ledgerVars, Provider
<1>3. RowsMove /\ NoneCancelled
  BY <1>1, <1>2, RowsMoveBy DEF NoneCancelled
<1>4. /\ attempts[l.att] = "pending" /\ NothingOpen(l.att) /\ l.goal \in Terminal
      /\ l.goal = "valid" => ValidLast(l.att) /\ (~l.acctFailed => AllAccounted(l.att))
  BY <1>1, <1>2 DEF CallSettled, StillPending, LeavesNone, TellsValid, PlaceOK
<1>5. \A a \in Attempts : attempts'[a] = IF a = l.att THEN l.goal ELSE attempts[a]
  BY <1>1, <1>2, <1>4 DEF Finish, FinishAttempt, FinishedStatus
<1>6. \/ told' = told
      \/ ~l.acctFailed /\ \A a \in Attempts : told'[a] = IF a = l.att THEN l.goal ELSE told[a]
  BY <1>1, <1>2, <1>4 DEF Finish, Pause, Return, FinishedStatus
<1>7. told[l.att] = "none"
  BY <1>1, <1>4 DEF SettledInv, OutcomesSettled, Terminal
<1>8. OutcomesSettled'
  <2>1. \A a \in Attempts : /\ NothingOpen(a) => NothingOpen(a)'
                            /\ ValidLast(a) => ValidLast(a)'
                            /\ AllAccounted(a) => AllAccounted(a)'
    BY <1>2, <1>3, OutcomesStay
  <2>2. \A a \in Attempts : a # l.att => /\ attempts'[a] = attempts[a] /\ told'[a] = told[a]
    BY <1>5, <1>6
  <2>3. ASSUME NEW a \in Attempts, a # l.att
        PROVE  /\ attempts'[a] \in Terminal => NothingOpen(a)'
               /\ attempts'[a] = "valid" => ValidLast(a)'
               /\ told'[a] # "none" => told'[a] = attempts'[a]
               /\ told'[a] = "valid" => AllAccounted(a)'
    BY <2>1, <2>2, <2>3 DEF SettledInv, OutcomesSettled
  <2>4. /\ attempts'[l.att] \in Terminal => NothingOpen(l.att)'
        /\ attempts'[l.att] = "valid" => ValidLast(l.att)'
        /\ told'[l.att] # "none" => told'[l.att] = attempts'[l.att]
        /\ told'[l.att] = "valid" => AllAccounted(l.att)'
    BY <1>1, <1>4, <1>5, <1>6, <1>7, <2>1
  <2> QED
    BY <2>3, <2>4 DEF OutcomesSettled
<1>9. Others(p) /\ pc'[p] = "idle" /\ CancelledLast'
  BY <1>1, <1>3, LeaveEffect, CancelledStays DEF Finish, Pause, Return
<1> QED
  BY <1>2, <1>8, <1>9, QuietSettled, SettledFrame

LEMMA SettledInit == Init => SettledInv
<1> SUFFICES ASSUME Init  PROVE SettledInv
  OBVIOUS
<1>1. /\ ledger = {} /\ \A a \in Attempts : attempts[a] = "absent" /\ told[a] = "none"
      /\ \A p \in Procs : pc[p] = "idle"
  BY DEF Init, StoreInit, LedgerInit
<1>2. Alone /\ OutcomesSettled /\ CancelledLast
  BY <1>1 DEF Alone, OutcomesSettled, CancelledLast, Terminal
<1>3. \A p \in Procs : CallSettled(p)
  BY <1>1 DEF CallSettled, ReadsRows, HoldsOpen, LeavesNone, StillPending, KnowsCancelled,
       TellsValid, Busy, Unsent, Dispatching
<1> QED
  BY <1>2, <1>3, PaidInit DEF SettledInv

LEMMA SettledStep ==
  ASSUME StallPoints = {}
  PROVE  SettledInv /\ [Next]_vars => SettledInv'
<1> SUFFICES ASSUME SettledInv, [Next]_vars  PROVE SettledInv'
  OBVIOUS
<1>1. PaidInv'
  BY PaidStep DEF SettledInv
<1>2. CASE UNCHANGED vars
  <2>1. UNCHANGED <<attempts, rows, ledger, sent, owner, pc, loc, told>>
    BY <1>2 DEF vars
  <2>2. Alone' /\ CancelledLast'
    BY <2>1 DEF SettledInv, Alone, CancelledLast
  <2>3. OutcomesSettled'
    BY <2>1 DEF SettledInv, OutcomesSettled, NothingOpen, ValidLast, AllAccounted, SentOf,
         HasOutcome
  <2>4. ASSUME NEW p \in Procs  PROVE CallSettled(p)'
    <3>1. ReadsRows(p)' /\ HoldsOpen(p)' /\ LeavesNone(p)' /\ StillPending(p)'
      BY <2>1 DEF SettledInv, CallSettled, ReadsRows, HoldsOpen, LeavesNone, StillPending, RowsOf,
           NothingOpen
    <3>2. KnowsCancelled(p)'
      BY <2>1 DEF SettledInv, CallSettled, KnowsCancelled, NotCancelled
    <3>3. TellsValid(p)'
      BY <2>1 DEF SettledInv, CallSettled, TellsValid, ValidLast, AllAccounted, SentOf, HasOutcome
    <3> QED
      BY <3>1, <3>2, <3>3 DEF CallSettled
  <2> QED
    BY <1>1, <2>2, <2>3, <2>4 DEF SettledInv
<1>3. ASSUME NEW p \in Procs, Recover(p)  PROVE SettledInv'
  BY <1>1, <1>3, StartSettled, ReadSettled, RestoreSettled, ReturnSettled, HonourSettled,
     BeginSettled, AbandonSettled, OpenSettled DEF Recover
<1>4. ASSUME NEW p \in Procs, DispatchLoop(p)  PROVE SettledInv'
  BY <1>1, <1>4, CheckSettled, ReserveSettled, IntentSettled, CancelSettled, GiveUpSettled,
     SendSettled, AppendSettled, RecordSettled, ConcludeSettled, FinishSettled DEF DispatchLoop
<1>5. ASSUME NEW p \in Procs, Stop(p) \/ \E a \in Attempts, d \in BOOLEAN : Start(p, a, d)
      PROVE  SettledInv'
  BY <1>1, <1>5, StartSettled
<1>6. \A p \in Procs : ~LoseLock(p)
  BY DEF LoseLock
<1> QED
  BY <1>2, <1>3, <1>4, <1>5, <1>6 DEF Next, Step

(* What a caller is told is settled: an outcome leaves no reservation of   *)
(* the attempt open, and "valid" rests on a saved, accepted reply to the   *)
(* last request with every request of the attempt accounted for.  Without  *)
(* the assumption it is false: a durable cancellation of an obsolete       *)
(* process decides the attempt under the reservation of its new owner.     *)
THEOREM ToldOutcomesSettled ==
  ASSUME StallPoints = {}
  PROVE  Spec => []ToldIsSettled
<1>1. SettledInv => ToldIsSettled
  <2> SUFFICES ASSUME SettledInv, NEW a \in Attempts, told[a] # "none"
               PROVE  /\ \A r \in Requests : r[1] = a => rows[r].status # "reserved"
                      /\ told[a] = "valid" =>
                           \E r \in SentOf(a) :
                             /\ rows[r].status = "responded" /\ rows[r].reply = "accepted"
                             /\ \A q \in SentOf(a) : q[2] <= r[2] /\ HasOutcome(ledger, q)
    BY DEF ToldIsSettled
  <2>1. told[a] \in Terminal
    BY DEF SettledInv, PaidInv, ReleaseInv, SendInv, TypeInv, TypeOK
  <2>2. NothingOpen(a) /\ (told[a] = "valid" => ValidLast(a) /\ AllAccounted(a))
    BY <2>1 DEF SettledInv, OutcomesSettled
  <2> QED
    BY <2>2 DEF NothingOpen, ValidLast, AllAccounted
<1>2. SettledInv /\ [Next]_vars => SettledInv'
  BY SettledStep
<1> QED
  BY <1>1, <1>2, SettledInit, PTL DEF Spec
=============================================================================
