---------------------------- MODULE StageExecutor ----------------------------
(***************************************************************************)
(* The shared stage executor of pipeline/execution/executor.ts.  Each      *)
(* process runs one execute() call at a time, one action per awaited       *)
(* statement, ledger event or network exchange.  A caller holds the run's  *)
(* claim or the experiment's lock before it calls execute(); the           *)
(* connection that carries the lock may fail while the process goes on.    *)
(***************************************************************************)
EXTENDS RequestStore

CONSTANTS Procs,        \* operating-system processes that call execute()
          NoProc,       \* the lock is free
          MaxRetries,   \* maxTransportRetries
          Bills,        \* what a request may cost at the provider
          Luna,         \* model.route = "openrouter-aisdk-v1"
          StallPoints,  \* where a process may lose the lock and go on
          MaxFaults     \* bound on faults in a behaviour

(* Places in execute(): up to the last reservation settled from the ledger, *)
(* and from the first dispatch or terminal write on.                       *)
PreLoop == {"read", "create", "receipts", "reconcile", "restore", "open"}
InLoop == {"precheck", "reserve", "intent", "abandon", "check", "cancel", "cancelled", "send",
           "await", "outcome", "record", "after", "finish"}
Active == PreLoop \cup InLoop

ASSUME ExecutorAssumption == /\ Attempts # {}
                             /\ NoProc \notin Procs
                             /\ MaxRetries \in Nat
                             /\ Bills \subseteq Nat
                             /\ Luna \in BOOLEAN
                             /\ StallPoints \subseteq Active
                             /\ MaxFaults \in Nat

VARIABLES pc, loc,      \* each process's place in execute() and its locals
          owner,        \* who holds the lock
          sent, bill,   \* physical requests at the provider and their cost
          told,         \* the terminal outcome last returned for an attempt
          faults        \* faults so far

vars == <<attempts, rows, ledger, torn, pc, loc, owner, sent, bill, told, faults>>

(* The locals of execute(): what it read, its request and exchange, and    *)
(* the outcome it is about to save.                                        *)
NoRequest == <<>>
Idle == [att |-> CHOOSE a \in Attempts : TRUE, dispatch |-> FALSE, status |-> "absent",
         view |-> [r \in Requests |-> NoRow], recs |-> {}, todo |-> {}, cur |-> NoRequest,
         reply |-> "none", charge |-> Unknown, acctFailed |-> FALSE, goal |-> "pending"]

Locals == [att : Attempts, dispatch : BOOLEAN, status : Terminal \cup {"absent", "pending"},
           view : [Requests -> Rows], recs : SUBSET Receipts, todo : SUBSET Receipts,
           cur : Requests \cup {NoRequest}, reply : ReplyKinds \cup {"none"}, charge : Charge,
           acctFailed : BOOLEAN, goal : Terminal \cup {"pending"}]

TypeOK == /\ StoreTypeOK
          /\ LedgerTypeOK
          /\ pc \in [Procs -> Active \cup {"idle"}]
          /\ loc \in [Procs -> Locals]
          /\ owner \in Procs \cup {NoProc}
          /\ sent \subseteq Requests
          /\ bill \in [Requests -> Nat]
          /\ told \in [Attempts -> Terminal \cup {"none"}]
          /\ faults \in 0 .. MaxFaults

Init == /\ StoreInit
        /\ LedgerInit
        /\ pc = [p \in Procs |-> "idle"]
        /\ loc = [p \in Procs |-> Idle]
        /\ owner = NoProc
        /\ sent = {}
        /\ bill = [r \in Requests |-> 0]
        /\ told = [a \in Attempts |-> "none"]
        /\ faults = 0

-----------------------------------------------------------------------------
(* How an action ends. *)
Goto(p, place) == pc' = [pc EXCEPT ![p] = place]
Local(p, new) == loc' = [loc EXCEPT ![p] = new]
Fault == faults < MaxFaults /\ faults' = faults + 1
Provider == <<sent, bill>>

(* The call is over and the caller, or the system, gives up the lock. *)
Leave(p) == /\ pc' = [pc EXCEPT ![p] = "idle"]
            /\ loc' = [loc EXCEPT ![p] = Idle]
            /\ owner' = IF owner = p THEN NoProc ELSE owner

(* The call returns "paused", or throws: nothing was decided. *)
Pause(p) == Leave(p) /\ UNCHANGED told
(* The call returns a terminal outcome of its attempt. *)
Return(p, status) == Leave(p) /\ told' = [told EXCEPT ![loc[p].att] = status]

Continue(p, place, new) == Goto(p, place) /\ Local(p, new) /\ UNCHANGED <<owner, told>>

(* conclude: the outcome the last saved exchange stands for; "pending" is  *)
(* its null, try again.                                                    *)
Conclude(row) ==
  IF row.status = "no_response" THEN "uncertain"
  ELSE CASE row.reply = "retryable" -> "pending"
         [] row.reply = "none" -> "response_lost"
         [] row.reply = "rejected" -> "failed"
         [] row.reply = "unresolved" -> "verification_unresolved"
         [] row.reply = "accepted" -> "valid"
         [] row.reply = "malformed" -> "invalid"
         [] OTHER -> "uncertain"

(* Go on to save an outcome.  Locals not read again are reset.             *)
Settle(p, l, verdict) ==
  Continue(p, "finish", [Idle EXCEPT !.att = l.att, !.acctFailed = l.acctFailed, !.goal = verdict])

LastOf(reqs) == {r \in reqs : \A q \in reqs : q[2] <= r[2]}
RecordedOf(view) == {r \in Requests : view[r].status # "none"}
PhysicalOf(view) == {r \in Requests : Physical(view[r])}

(* The top of the dispatch loop, with the locals l: conclude the last      *)
(* request, give up after the last retry, defer it, or go on to dispatch.  *)
Dispatch(p, l) == IF l.dispatch
                  THEN Continue(p, "precheck", [Idle EXCEPT !.att = l.att, !.dispatch = TRUE,
                                                            !.view = l.view])
                  ELSE Pause(p)
Loop(p, l) ==
  LET physical == PhysicalOf(l.view)
  IN  \/ physical = {} /\ Dispatch(p, l)
      \/ \E last \in LastOf(physical) :
           LET verdict == Conclude(l.view[last])
           IN  \/ /\ verdict # "pending"
                  /\ Settle(p, l, verdict)
               \/ /\ verdict = "pending" /\ Cardinality(physical) > MaxRetries
                  /\ Settle(p, l, "failed")
               \/ /\ verdict = "pending" /\ Cardinality(physical) <= MaxRetries
                  /\ Dispatch(p, l) \/ Pause(p)    \* Pause: deferAttempt

-----------------------------------------------------------------------------
(* A caller acquires the lock and calls execute() for one attempt; dispatch *)
(* is allowed in a run and forbidden in a recovery.                        *)
Start(p, a, dispatch) ==
  /\ pc[p] = "idle" /\ owner = NoProc
  /\ owner' = p
  /\ Goto(p, "read")
  /\ Local(p, [Idle EXCEPT !.att = a, !.dispatch = dispatch])
  /\ UNCHANGED <<storeVars, ledgerVars, Provider, told, faults>>

ReadAttempt(p) ==
  /\ pc[p] = "read"
  /\ LET a == loc[p].att
     IN  IF attempts[a] = "absent" THEN Continue(p, "create", loc[p])
         ELSE Continue(p, "receipts", [loc[p] EXCEPT !.view = RowsOf(a)])
  /\ UNCHANGED <<storeVars, ledgerVars, Provider, faults>>

(* createAttempt fails on the primary key if another process was faster.   *)
CreateAttempt(p) ==
  /\ pc[p] = "create"
  /\ LET a == loc[p].att
     IN  IF attempts[a] = "absent"
         THEN attempts' = [attempts EXCEPT ![a] = "pending"] /\ Continue(p, "read", loc[p])
         ELSE UNCHANGED attempts /\ Pause(p)
  /\ UNCHANGED <<rows, ledgerVars, Provider, faults>>

(* The ledger is read only for an attempt that has requests; todo holds    *)
(* the late charges to import.                                             *)
ReadReceipts(p) ==
  /\ pc[p] = "receipts"
  /\ LET l == loc[p]
         receipts == IF RecordedOf(l.view) = {} THEN {}
                     ELSE {e \in ledger : e.req[1] = l.att}
     IN  Continue(p, "reconcile", [l EXCEPT !.recs = receipts,
           !.todo = {e \in receipts : /\ e.type = "request_outcome" /\ e.charge # Unknown
                                      /\ l.view[e.req].charge = "unknown"}])
  /\ UNCHANGED <<storeVars, ledgerVars, Provider, faults>>

ReconcileLate(p) ==
  /\ pc[p] = "reconcile"
  /\ \E e \in loc[p].todo :
       /\ Reconcile(e.req, e.charge)
       /\ IF AccountingConflict(rows[e.req], e.charge) THEN Pause(p)
          ELSE Continue(p, "reconcile", [loc[p] EXCEPT !.todo = @ \ {e}])
  /\ UNCHANGED <<attempts, ledgerVars, Provider, faults>>

(* The second readAttempt; todo now holds the outcome receipts a failed    *)
(* append left out.                                                        *)
ReadAgain(p) ==
  /\ pc[p] = "reconcile" /\ loc[p].todo = {}
  /\ LET l == loc[p]
         view == RowsOf(l.att)
         missing == {r \in Requests : Settled(view[r]) /\ ~HasOutcome(l.recs, r)}
     IN  Continue(p, "restore", [l EXCEPT !.view = view, !.status = attempts[l.att],
           !.todo = {Outcome(r, view[r].status,
                       IF view[r].charge = "known" THEN view[r].amount ELSE Unknown) : r \in missing}])
  /\ UNCHANGED <<storeVars, ledgerVars, Provider, faults>>

RestoreReceipt(p) ==
  /\ pc[p] = "restore"
  /\ \E e \in loc[p].todo :
       \/ /\ Append(e)
          /\ Continue(p, "restore", [loc[p] EXCEPT !.todo = @ \ {e}])
          /\ UNCHANGED faults
       \/ AppendRefused /\ Pause(p) /\ UNCHANGED faults
       \/ AppendFaulted(e) /\ Pause(p) /\ Fault
  /\ UNCHANGED <<storeVars, Provider>>

-----------------------------------------------------------------------------
(* After the reconciliation: return a saved outcome, honour a durable      *)
(* cancellation, settle open reservations in sequence order, or loop.      *)
Restored(p) == pc[p] = "restore" /\ loc[p].todo = {}
CancelledOf(l) == {r \in Requests : Cancelled(r) \in l.recs}
OpenOf(view) == {r \in Requests : view[r].status = "reserved"}

ReturnSaved(p) ==
  /\ Restored(p) /\ loc[p].status \in Terminal
  /\ Return(p, loc[p].status)
  /\ UNCHANGED <<storeVars, ledgerVars, Provider, faults>>

HonourCancellation(p) ==
  /\ Restored(p) /\ loc[p].status \notin Terminal
  /\ \E r \in CancelledOf(loc[p]) : Continue(p, "cancelled", [loc[p] EXCEPT !.cur = r])
  /\ UNCHANGED <<storeVars, ledgerVars, Provider, faults>>

BeginSettling(p) ==
  /\ Restored(p) /\ loc[p].status \notin Terminal /\ CancelledOf(loc[p]) = {}
  /\ IF OpenOf(loc[p].view) # {} THEN Continue(p, "open", loc[p]) ELSE Loop(p, loc[p])
  /\ UNCHANGED <<storeVars, ledgerVars, Provider, faults>>

FirstOpen(p) == {r \in OpenOf(loc[p].view) : \A q \in OpenOf(loc[p].view) : r[2] <= q[2]}

(* No intent in the ledger: the request was never sent.                    *)
AbandonUnsent(p) ==
  /\ pc[p] = "open"
  /\ \E r \in FirstOpen(p) :
       /\ Intent(r) \notin loc[p].recs
       /\ Abandon(r, FALSE)
       /\ Continue(p, "open", [loc[p] EXCEPT !.view[r] = AbandonedRow(@, FALSE)])
  /\ UNCHANGED <<attempts, ledgerVars, Provider, faults>>

(* An outcome in the ledger: its charge is imported, its reply is lost.    *)
ImportOutcome(p) ==
  /\ pc[p] = "open"
  /\ \E r \in FirstOpen(p), e \in loc[p].recs :
       /\ Intent(r) \in loc[p].recs
       /\ e.type = "request_outcome" /\ e.req = r
       /\ Record(r, e.outcome, e.charge, "none")
       /\ IF RecordConflict(rows[r], e.charge) THEN Pause(p)
          ELSE Settle(p, loc[p], IF e.outcome = "no_response" THEN "uncertain" ELSE "response_lost")
  /\ UNCHANGED <<attempts, ledgerVars, Provider, faults>>

(* An intent without an outcome: it may have been sent and charged.        *)
MarkUncertain(p) ==
  /\ pc[p] = "open"
  /\ \E r \in FirstOpen(p) :
       /\ Intent(r) \in loc[p].recs /\ ~HasOutcome(loc[p].recs, r)
       /\ Record(r, "no_response", Unknown, "none")
       /\ Settle(p, loc[p], "uncertain")
  /\ UNCHANGED <<attempts, ledgerVars, Provider, faults>>

EndSettling(p) ==
  /\ pc[p] = "open" /\ OpenOf(loc[p].view) = {}
  /\ Loop(p, [loc[p] EXCEPT !.view = RowsOf(loc[p].att)])
  /\ UNCHANGED <<storeVars, ledgerVars, Provider, faults>>

-----------------------------------------------------------------------------
(* The dispatch loop. *)

(* beforeDispatch ends with a check of the lock on its own connection.     *)
PreCheck(p) ==
  /\ pc[p] = "precheck"
  /\ IF owner = p THEN Continue(p, "reserve", loc[p]) ELSE Pause(p)
  /\ UNCHANGED <<storeVars, ledgerVars, Provider, faults>>

(* The next sequence follows every row of the attempt, abandoned ones too. *)
ReusedSequence(view) == Cardinality(PhysicalOf(view)) + 1    \* mutant: skips abandoned rows
NextSequence(view) == Cardinality(RecordedOf(view)) + 1

(* reserveRequest, in one transaction.  The sequence follows the rows last *)
(* read: it may be taken by another process or exceed its column.          *)
ReserveRequest(p) ==
  /\ pc[p] = "reserve"
  /\ LET l == loc[p]
         r == <<l.att, NextSequence(l.view)>>
     IN  IF r \in Requests /\ rows[r] = NoRow /\ FitsCap
         THEN /\ rows' = [rows EXCEPT ![r] = ReservedRow]
              /\ Continue(p, "intent", [l EXCEPT !.cur = r, !.view = Idle.view])
         ELSE UNCHANGED rows /\ Pause(p)
  /\ UNCHANGED <<attempts, ledgerVars, Provider, faults>>

UncheckedIntent(p) ==                    \* mutant: ignores a failed append
  /\ pc[p] = "intent"
  /\ Continue(p, "check", loc[p])
  /\ \/ Append(Intent(loc[p].cur)) /\ UNCHANGED faults
     \/ AppendRefused /\ UNCHANGED faults
     \/ AppendFaulted(Intent(loc[p].cur)) /\ Fault
  /\ UNCHANGED <<storeVars, Provider>>
AppendIntent(p) ==
  /\ pc[p] = "intent"
  /\ \/ Append(Intent(loc[p].cur)) /\ Continue(p, "check", loc[p]) /\ UNCHANGED faults
     \/ AppendRefused /\ Continue(p, "abandon", loc[p]) /\ UNCHANGED faults
     \/ AppendFaulted(Intent(loc[p].cur)) /\ Continue(p, "abandon", loc[p]) /\ Fault
  /\ UNCHANGED <<storeVars, Provider>>

AbandonUnrecorded(p) ==
  /\ pc[p] = "abandon"
  /\ Abandon(loc[p].cur, FALSE)
  /\ Pause(p)
  /\ UNCHANGED <<attempts, ledgerVars, Provider, faults>>

(* The checks once more, with the intent durable.                          *)
CheckNothing(p) ==                       \* mutant: no second check of the lock
  /\ pc[p] = "check"
  /\ Continue(p, "send", loc[p])
  /\ UNCHANGED <<storeVars, ledgerVars, Provider, faults>>
CheckAgain(p) ==
  /\ pc[p] = "check" /\ owner = p
  /\ Continue(p, "send", loc[p])
  /\ UNCHANGED <<storeVars, ledgerVars, Provider, faults>>

(* They fail: the lock is lost, or a permission was withdrawn.             *)
RefuseSend(p) ==
  /\ pc[p] = "check"
  /\ (owner # p /\ UNCHANGED faults) \/ Fault
  /\ Continue(p, "cancel", loc[p])
  /\ UNCHANGED <<storeVars, ledgerVars, Provider>>

AppendCancelled(p) ==
  /\ pc[p] = "cancel"
  /\ \/ Append(Cancelled(loc[p].cur)) /\ Continue(p, "cancelled", loc[p]) /\ UNCHANGED faults
     \/ AppendRefused /\ Pause(p) /\ UNCHANGED faults
     \/ AppendFaulted(Cancelled(loc[p].cur)) /\ Pause(p) /\ Fault
  /\ UNCHANGED <<storeVars, Provider>>

AbandonCancelled(p) ==
  /\ pc[p] = "cancelled"
  /\ Abandon(loc[p].cur, TRUE)
  /\ Settle(p, loc[p], "failed")
  /\ UNCHANGED <<attempts, ledgerVars, Provider, faults>>

(* model.send: the request leaves and the provider will bill it.           *)
Send(p) ==
  /\ pc[p] = "send"
  /\ sent' = sent \cup {loc[p].cur}
  /\ \E cost \in Bills : bill' = [bill EXCEPT ![loc[p].cur] = cost]
  /\ Continue(p, "await", loc[p])
  /\ UNCHANGED <<storeVars, ledgerVars, faults>>

(* An exchange comes back; one without a response states no charge.        *)
Receive(p) ==
  /\ pc[p] = "await"
  /\ \E kind \in ReplyKinds, c \in {Unknown, bill[loc[p].cur]} :
       /\ kind = "lost" => c = Unknown
       /\ Continue(p, "outcome", [loc[p] EXCEPT !.reply = kind, !.charge = c])
  /\ UNCHANGED <<storeVars, ledgerVars, Provider, faults>>

ExchangeStatus(l) == IF l.reply = "lost" THEN "no_response" ELSE "responded"
AppendOutcome(p) ==
  /\ pc[p] = "outcome"
  /\ LET l == loc[p]
         e == Outcome(l.cur, ExchangeStatus(l), l.charge)
         failed == [l EXCEPT !.acctFailed = TRUE]
     IN  \/ Append(e) /\ Continue(p, "record", l) /\ UNCHANGED faults
         \/ AppendRefused /\ Continue(p, "record", failed) /\ UNCHANGED faults
         \/ AppendFaulted(e) /\ Continue(p, "record", failed) /\ Fault
  /\ UNCHANGED <<storeVars, Provider>>

RecordOutcome(p) ==
  /\ pc[p] = "record"
  /\ Record(loc[p].cur, ExchangeStatus(loc[p]), loc[p].charge, loc[p].reply)
  /\ IF RecordConflict(rows[loc[p].cur], loc[p].charge) THEN Pause(p)
     ELSE Continue(p, "after", [loc[p] EXCEPT !.cur = NoRequest, !.reply = "none",
                                              !.charge = Unknown])
  /\ UNCHANGED <<attempts, ledgerVars, Provider, faults>>

(* Without durable accounting nothing more is dispatched, and Luna draws   *)
(* no conclusion.                                                          *)
EagerRetry(l, verdict) == l.acctFailed /\ Luna                   \* mutant: retries anyway
Withheld(l, verdict) == l.acctFailed /\ (Luna \/ verdict = "pending")

(* The rows are read back and the last one is concluded.                   *)
ReadOutcome(p) ==
  /\ pc[p] = "after"
  /\ LET l == [loc[p] EXCEPT !.view = RowsOf(loc[p].att)]
     IN  \E last \in LastOf(RecordedOf(l.view)) :
           LET verdict == Conclude(l.view[last])
           IN  IF Withheld(l, verdict) THEN Pause(p)
               ELSE IF verdict # "pending"
               THEN Settle(p, l, verdict)
               ELSE Loop(p, l)
  /\ UNCHANGED <<storeVars, ledgerVars, Provider, faults>>

UnfencedFinish(p) ==                     \* mutant: the write does not need the lock
  /\ pc[p] = "finish"
  /\ FinishAttempt(loc[p].att, loc[p].goal)
  /\ Pause(p)
  /\ UNCHANGED <<rows, ledgerVars, Provider, faults>>

(* finish: the terminal write runs in the lock's own transaction; then the *)
(* saved outcome is read back and returned, or "paused" if its accounting  *)
(* failed or it cannot be read.                                            *)
Finish(p) ==
  /\ pc[p] = "finish"
  /\ LET l == loc[p]
     IN  \/ owner # p /\ UNCHANGED <<attempts, faults>> /\ Pause(p)
         \/ /\ owner = p
            /\ FinishAttempt(l.att, l.goal)
            /\ \/ l.acctFailed /\ Pause(p) /\ UNCHANGED faults
               \/ /\ ~l.acctFailed /\ UNCHANGED faults
                  /\ Return(p, FinishedStatus(attempts[l.att], l.goal))
               \/ Pause(p) /\ Fault
  /\ UNCHANGED <<rows, ledgerVars, Provider>>

-----------------------------------------------------------------------------
(* The process dies, PostgreSQL stays unavailable past its retries, or a   *)
(* check throws: the call ends with what is durable.  A dead process or    *)
(* connection frees the lock.                                              *)
Stop(p) ==
  /\ pc[p] # "idle" /\ Fault
  /\ Pause(p)
  /\ UNCHANGED <<storeVars, ledgerVars, Provider>>

(* The connection that carries the lock fails and the process goes on.     *)
LoseLock(p) ==
  /\ owner = p /\ pc[p] \in StallPoints /\ Fault
  /\ owner' = NoProc
  /\ UNCHANGED <<storeVars, ledgerVars, Provider, pc, loc, told>>

Recover(p) == \/ ReadAttempt(p) \/ CreateAttempt(p) \/ ReadReceipts(p) \/ ReconcileLate(p)
              \/ ReadAgain(p) \/ RestoreReceipt(p) \/ ReturnSaved(p)
              \/ HonourCancellation(p) \/ BeginSettling(p) \/ AbandonUnsent(p)
              \/ ImportOutcome(p) \/ MarkUncertain(p) \/ EndSettling(p)
DispatchLoop(p) == \/ PreCheck(p) \/ ReserveRequest(p) \/ AppendIntent(p)
                   \/ AbandonUnrecorded(p) \/ CheckAgain(p) \/ RefuseSend(p)
                   \/ AppendCancelled(p) \/ AbandonCancelled(p) \/ Send(p) \/ Receive(p)
                   \/ AppendOutcome(p) \/ RecordOutcome(p) \/ ReadOutcome(p) \/ Finish(p)
Step(p) == Recover(p) \/ DispatchLoop(p)

Next == \E p \in Procs : \/ \E a \in Attempts, d \in BOOLEAN : Start(p, a, d)
                         \/ Step(p) \/ Stop(p) \/ LoseLock(p)

Spec == Init /\ [][Next]_vars

-----------------------------------------------------------------------------
(* Properties *)

SentOf(a) == {r \in sent : r[1] = a}

(* A request leaves the process only with its intent durable in the ledger *)
(* and never once a cancellation is: whatever append reports, a crash or a *)
(* takeover around it cannot hide a physical request from recovery.        *)
SendsAreRecorded == \A r \in sent : Intent(r) \in ledger /\ Cancelled(r) \notin ledger

(* "A reservation with no intent or a durable cancellation was never       *)
(* sent": no request whose reservation was released is at the provider.    *)
AbandonedNeverSent == \A r \in sent : rows[r].status \notin {"none", "abandoned"}

(* What the provider bills for the run, over all its attempts and whatever *)
(* was lost on the way, stays within the cap while no single bill exceeds  *)
(* its reservation.                                                        *)
WithinCap == SumFunction(bill) <= Cap

(* A charge saved as known, in a row or in a receipt, is what the provider *)
(* billed for that request, however late or often it was imported.         *)
ChargesAreBills ==
  /\ \A r \in Requests : rows[r].charge = "known" => r \in sent /\ rows[r].amount = bill[r]
  /\ \A e \in ledger : e.charge # Unknown => e.req \in sent /\ e.charge = bill[e.req]

(* What a caller is told is settled once no process runs: an outcome left  *)
(* no reservation open, and "valid" rests on a saved reply to the last     *)
(* physical request with the outcome of every request in the ledger, since *)
(* a failed append pauses the run instead.                                 *)
ToldIsSettled ==
  (\A p \in Procs : pc[p] = "idle") =>
     \A a \in Attempts :
        /\ told[a] # "none" => \A r \in Requests : r[1] = a => rows[r].status # "reserved"
        /\ told[a] = "valid" =>
             \E r \in SentOf(a) : /\ rows[r].status = "responded" /\ rows[r].reply = "accepted"
                                  /\ \A q \in SentOf(a) : q[2] <= r[2] /\ HasOutcome(ledger, q)

(* While no process reads or recovers on a lock it lost, nor loses it      *)
(* between the last check and the send, the executor implements the        *)
(* abstract attempts: the rows say which requests may be retried, the      *)
(* ledger which are accounted for, and every step is one of theirs or      *)
(* invisible.                                                              *)
Paid == INSTANCE PaidAttempts WITH
          retryable <- {r \in Requests : rows[r].status = "responded" /\ rows[r].reply = "retryable"},
          accounted <- {r \in sent : HasOutcome(ledger, r)},
          verdict <- [a \in Attempts |-> IF attempts[a] = "absent" THEN "pending" ELSE attempts[a]]
ImplementsPaidAttempts == Paid!Spec

-----------------------------------------------------------------------------
(* Liveness.  A call that has begun goes on (every await is answered or    *)
(* times out); an attempt is resumed with dispatch allowed again and       *)
(* again; and a deferred retry becomes eligible, so a resume that may      *)
(* dispatch does not defer for ever.                                       *)
Resume(a) == \E p \in Procs : Start(p, a, TRUE)
Undeferred(p) == (BeginSettling(p) \/ EndSettling(p)) /\ pc'[p] # "idle"
FairSpec == /\ Spec
            /\ \A p \in Procs : WF_vars(Step(p)) /\ SF_vars(Undeferred(p))
            /\ \A a \in Attempts : SF_vars(Resume(a))

(* Every attempt gets a terminal outcome, whatever faults strike on the    *)
(* way, unless the ledger is left with a torn line that nobody repairs.    *)
EventuallyDecided == \A a \in Attempts : <>(attempts[a] \in Terminal \/ torn)
=============================================================================
