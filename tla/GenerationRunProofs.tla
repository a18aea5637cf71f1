------------------------- MODULE GenerationRunProofs -------------------------
(***************************************************************************)
(* Theorems about the planner and writer coordinators, for any runs,       *)
(* processes, replies, deployments and faults: every reachable state is    *)
(* well typed; a run with a request that may be in the air has not ended   *)
(* and owns the candidate; what is selected can be used again; and a       *)
(* lesson is authorized under the plan it was written from.                *)
(***************************************************************************)
EXTENDS GenerationRun, TLAPS

(* A call that has begun is about a run.                                   *)
Called == \A p \in Procs : pc[p] # "idle" => job[p].run \in Runs
Typed == TypeOK /\ Called

(* The lock's holder has the claim under its own token.                    *)
HolderOwns == \A p \in Procs : lock = p => /\ pc[p] \notin {"idle", "claim"}
                                           /\ claim = [run |-> job[p].run, token |-> p]

(* Requests change under the lock: a process that lost it is elsewhere.    *)
HandsOnLock == \A p \in Procs : pc[p] \in {"check", "send", "restore"} => lock = p

(* A run that owns the candidate has not ended, and rows that do not exist *)
(* are referred to by nobody.                                              *)
OwnerLives == \A r \in Runs : claim.run = r => runs[r].status \in {"pending", "paused"}
Made == \A r \in Runs : runs[r].status = "absent" =>
          /\ \A s \in Stages : selected[s] # r
          /\ \A p \in Procs : job[p].run # r

OpenIsPending == \A r \in Runs : attempts[r].req = "open" => attempts[r].status = "pending"

(* A run pays for a request only if no selected result would do, and while *)
(* it owns the candidate nobody selects one.                               *)
Pays(r) == runs[r].fresh \/ ~SameIdentity(selected[runs[r].stage], r)
OpenPays == /\ \A r \in Runs : attempts[r].req = "open" => Pays(r)
            /\ \A p \in Procs : lock = p /\ pc[p] \in {"execute", "check", "send"} => Pays(job[p].run)

(* No request is in the air where the run is about to end.                 *)
Landed == \A p \in Procs : lock = p /\ pc[p] \in {"authorize", "commit", "stop", "close"} =>
            attempts[job[p].run].req # "open"

Owned == /\ HolderOwns /\ HandsOnLock /\ OwnerLives /\ Made
         /\ OpenIsPending /\ OpenPays /\ Landed /\ OpenKeepsOwner
OwnerInv == Typed /\ Owned

-----------------------------------------------------------------------------
(* Type correctness. *)

Places == {"idle", "claim", "permit", "choose", "execute", "check", "send", "authorize", "commit",
           "stop", "paused", "close", "restore"}
JobTypes == [call : {"none", "run", "recover"}, run : Runs \cup {NoRun}, picked : Runs \cup {NoRun},
             plan : Runs \cup {NoRun}]
RunTypes == [stage : Stages, fresh : BOOLEAN, input : Inputs, code : Codes,
             status : {"absent", "pending", "paused", "accepted", "rejected", "failed"}]
AttemptTypes == [status : {"none", "pending", "valid", "failed"},
                 req : {"none", "open", "retry", "saved"}, answer : Answers]

(* The locals of the processes and who holds the lock.                     *)
CallTypes == /\ pc \in [Procs -> Places]
             /\ job \in [Procs -> JobTypes]
             /\ lock \in Procs \cup {NoProc}
             /\ Called

(* Ways a step may change them.                                            *)
LEMMA GotoTypes ==
  ASSUME CallTypes, NEW p \in Procs, NEW place \in Places \ {"idle"}, pc[p] # "idle",
         Goto(p, place), lock' \in {lock, p}
  PROVE  CallTypes'
BY DEF CallTypes, Called, Goto

LEMMA LeaveTypes ==
  ASSUME CallTypes, NEW p \in Procs, Leave(p)
  PROVE  CallTypes'
BY DEF CallTypes, Called, Leave, NoJob, JobTypes, Places

LEMMA CaughtType == ASSUME NEW p PROVE Caught(p) \in {"paused", "stop"}
BY DEF Caught

(* The rows.                                                               *)
TableTypes == /\ runs \in [Runs -> RunTypes]
              /\ claim \in [run : Runs, token : Procs] \cup {NoClaim}
              /\ attempts \in [Runs -> AttemptTypes]
              /\ \A r \in Runs : attempts[r].status = "valid" => attempts[r].answer # NoAnswer
              /\ results \in [Runs -> Answers]
              /\ selected \in [Stages -> Runs \cup {NoRun}]
              /\ auths \subseteq [run : Runs, result : Runs, plan : Runs \cup {NoRun}]
WorldTypes == permits \subseteq Permissions /\ code \in Codes /\ faults \in 0 .. MaxFaults

LEMMA TypedParts == /\ Typed <=> TableTypes /\ CallTypes /\ WorldTypes
                    /\ Typed' <=> TableTypes' /\ CallTypes' /\ WorldTypes'
BY DEF Typed, TypeOK, TableTypes, CallTypes, WorldTypes, Places, JobTypes, RunTypes, AttemptTypes

LEMMA AttemptChange ==
  ASSUME TableTypes, NEW r, NEW status \in {"none", "pending", "valid", "failed"},
         NEW req \in {"none", "open", "retry", "saved"}, NEW answer \in Answers,
         status = "valid" => answer # NoAnswer, SetAttempt(r, status, req, answer),
         UNCHANGED <<runs, claim, results, selected, auths>>
  PROVE  TableTypes'
BY DEF TableTypes, SetAttempt, AttemptTypes

LEMMA TypedInit == Init => Typed
<1> SUFFICES ASSUME Init PROVE Typed
  OBVIOUS
<1>1. TableTypes
  <2>1. /\ runs \in [Runs -> RunTypes]
        /\ claim \in [run : Runs, token : Procs] \cup {NoClaim}
        /\ auths = {} /\ results \in [Runs -> Answers]
    BY DEF Init, NewRun, RunTypes, Inputs, Stages
  <2>2. selected \in [Stages -> Runs \cup {NoRun}]
    BY FirstAssumption DEF Init
  <2>3. \A r \in Runs : /\ r = First => results[r] \in Plans \ {Empty}
                        /\ r # First => results[r] = NoAnswer
    BY DEF Init
  <2>4. /\ attempts \in [Runs -> AttemptTypes]
        /\ \A r \in Runs : attempts[r].status = "valid" => attempts[r].answer # NoAnswer
    BY <2>1, <2>3, NamesAssumption DEF Init, AttemptTypes, NoAttempt, Answers, NoAnswer
  <2> QED
    BY <2>1, <2>2, <2>4 DEF TableTypes
<1>2. CallTypes
  BY DEF Init, CallTypes, Called, Places, JobTypes, NoJob
<1>3. WorldTypes
  BY MaxFaultsAssumption DEF Init, WorldTypes
<1> QED
  BY <1>1, <1>2, <1>3, TypedParts

LEMMA AttType ==
  ASSUME Typed, NEW p \in Procs, pc[p] # "idle"
  PROVE  /\ job[p].run \in Runs
         /\ Att(p).status \in {"none", "pending", "valid", "failed"}
         /\ Att(p).req \in {"none", "open", "retry", "saved"}
         /\ Att(p).answer \in Answers
         /\ Att(p).status = "valid" => Att(p).answer # NoAnswer
BY TypedParts DEF TableTypes, CallTypes, Called, AttemptTypes, Att

(* A step that leaves the rows alone.                                      *)
LEMMA TablesKept == ASSUME Typed, UNCHANGED tables PROVE TableTypes'
BY TypedParts DEF TableTypes, tables

LEMMA WorldKept == ASSUME Typed, UNCHANGED <<permits, code>>, faults' \in 0 .. MaxFaults PROVE WorldTypes'
BY TypedParts DEF WorldTypes

(* One more fault within the bound.                                        *)
LEMMA FaultType == ASSUME Typed, faults < MaxFaults, faults' = faults + 1 PROVE faults' \in 0 .. MaxFaults
BY TypedParts, MaxFaultsAssumption DEF WorldTypes

LEMMA InputType == ASSUME Typed, NEW stage \in Stages, stage = "planner" \/ Plannable
                   PROVE  InputNow(stage) \in Inputs
<1>1. CASE stage = "planner"
  BY <1>1 DEF InputNow, Inputs
<1>2. CASE Plannable /\ stage # "planner"
  <2>1. selected["planner"] \in Runs
    BY <1>2, TypedParts DEF TableTypes, Plannable, Stages
  <2>2. Validated(selected["planner"])
    BY <1>2 DEF Plannable, Usable
  <2>3. results[selected["planner"]] # NoAnswer
    BY <2>1, <2>2, TypedParts DEF TableTypes, Validated
  <2> QED
    BY <1>2, <2>1, <2>3, TypedParts DEF InputNow, Inputs, TableTypes, Answers
<1> QED
  BY <1>1, <1>2

LEMMA BeginTypes ==
  ASSUME Typed
  PROVE  /\ \A r \in Runs, stage \in Stages, fresh \in BOOLEAN : Create(r, stage, fresh) => Typed'
         /\ \A p \in Procs, r \in Runs, call \in {"run", "recover"} : Begin(p, r, call) => Typed'
<1> USE TypedParts
<1>1. ASSUME NEW r \in Runs, NEW stage \in Stages, NEW fresh \in BOOLEAN, Create(r, stage, fresh)
      PROVE  Typed'
  <2>1. InputNow(stage) \in Inputs
    BY <1>1, InputType DEF Create, Stages
  <2>2. TableTypes'
    BY <1>1, <2>1 DEF Create, TableTypes, WorldTypes, RunTypes
  <2> QED
    BY <1>1, <2>2 DEF Create, CallTypes, Called, WorldTypes
<1>2. ASSUME NEW p \in Procs, NEW r \in Runs, NEW call \in {"run", "recover"}, Begin(p, r, call)
      PROVE  Typed'
  <2>1. CallTypes'
    BY <1>2 DEF Begin, CallTypes, Called, JobTypes, NoJob, Places
  <2> QED
    BY <1>2, <2>1, TablesKept DEF Begin, WorldTypes
<1> QED
  BY <1>1, <1>2

LEMMA ClaimTypes == ASSUME Typed, NEW p \in Procs, Claim(p) PROVE Typed'
<1> USE TypedParts
<1>1. pc[p] # "idle" /\ job[p].run \in Runs
  BY AttType DEF Claim
<1>2. claim' = claim \/ claim' = [run |-> job[p].run, token |-> p]
  BY DEF Claim
<1>3. TableTypes'
  BY <1>1, <1>2 DEF Claim, TableTypes
<1>4. CallTypes'
  <2>1. CASE Leave(p)
    BY <2>1, LeaveTypes
  <2>2. ASSUME NEW place \in {"permit", "restore"}, lock' = p, Goto(p, place)
        PROVE  CallTypes'
    BY <1>1, <2>2, GotoTypes DEF Places
  <2> QED
    BY <2>1, <2>2 DEF Claim
<1> QED
  BY <1>3, <1>4 DEF Claim, WorldTypes

(* Steps of a call that change no rows.                                    *)
LEMMA QuietTypes ==
  ASSUME Typed, NEW p \in Procs,
         \/ Permit(p) \/ Choose(p) \/ SendThrows(p) \/ Pause(p) \/ Authorize(p) \/ RestoreBlocked(p)
         \/ Restored(p) \/ Stale(p) \/ StorageFails(p) \/ Interrupt(p) \/ LoseLock(p)
  PROVE  Typed'
<1> USE TypedParts
<1>1. TableTypes'
  BY TablesKept DEF Permit, Choose, SendThrows, Pause, Authorize, RestoreBlocked, Restored, Stale, StorageFails,
                    Interrupt, LoseLock
<1>2. WorldTypes'
  <2>1. faults' = faults \/ faults' \in 0 .. MaxFaults
    BY FaultType DEF Permit, Choose, SendThrows, Pause, Authorize, RestoreBlocked, Restored, Stale, StorageFails,
                     Interrupt, LoseLock
  <2> QED
    BY <2>1, WorldKept DEF Permit, Choose, SendThrows, Pause, Authorize, RestoreBlocked, Restored, Stale,
                           StorageFails, Interrupt, LoseLock, WorldTypes
<1>3. CallTypes'
  <2>1. ASSUME NEW place \in Places \ {"idle"}, Goto(p, place), pc[p] # "idle", UNCHANGED lock
        PROVE  CallTypes'
    BY <2>1, GotoTypes
  <2>2. CASE Leave(p)
    BY <2>2, LeaveTypes
  <2>3. CASE Permit(p) \/ SendThrows(p) \/ Pause(p) \/ RestoreBlocked(p) \/ Restored(p) \/ StorageFails(p)
    BY <2>1, <2>3, CaughtType DEF Permit, SendThrows, Pause, RestoreBlocked, Restored, StorageFails, Places
  <2>4. CASE Stale(p) \/ Interrupt(p)
    BY <2>2, <2>4 DEF Stale, Interrupt
  <2>5. CASE Choose(p)
    <3>1. selected[runs[job[p].run].stage] \in Runs \cup {NoRun}
      BY <2>5, AttType DEF Choose, TableTypes, RunTypes
    <3>2. CASE /\ pc' = [pc EXCEPT ![p] = "authorize"]
               /\ job' = [job EXCEPT ![p].picked = selected[runs[job[p].run].stage]]
      BY <2>5, <3>1, <3>2 DEF Choose, CallTypes, Called, Places, JobTypes
    <3> QED
      BY <2>1, <2>5, <3>2, CaughtType DEF Choose, Places
  <2>6. CASE Authorize(p)
    <3>1. selected["planner"] \in Runs \cup {NoRun}
      BY DEF TableTypes, Stages
    <3>2. CASE /\ pc' = [pc EXCEPT ![p] = "commit"]
               /\ job' = [job EXCEPT ![p].plan = selected["planner"]]
      BY <2>6, <3>1, <3>2 DEF Authorize, CallTypes, Called, Places, JobTypes
    <3> QED
      BY <2>1, <2>6, <3>2, CaughtType DEF Authorize, Places
  <2>7. CASE LoseLock(p)
    BY <2>7 DEF LoseLock, CallTypes, Called
  <2> QED
    BY <2>3, <2>4, <2>5, <2>6, <2>7
<1> QED
  BY <1>1, <1>2, <1>3

(* Steps that change the run's attempt.                                    *)
LEMMA AttemptTyped ==
  ASSUME Typed, NEW p \in Procs,
         \/ CreateAttempt(p) \/ Reserve(p) \/ Check(p) \/ Conclude(p) \/ Stop(p) \/ SettleOpen(p)
         \/ \E req \in {"retry", "saved"}, answer \in Answers : Reply(p, req, answer)
  PROVE  Typed'
<1> USE TypedParts
<1>1. pc[p] # "idle"
  BY DEF CreateAttempt, Reserve, Check, Conclude, Stop, SettleOpen, Reply
<1>2. NoAnswer \in Answers
  BY DEF Answers
<1>3. UNCHANGED <<runs, claim, results, selected, auths, permits, code, faults>>
  BY DEF CreateAttempt, Reserve, Check, Conclude, Stop, SettleOpen, Reply
<1>4. TableTypes'
  <2>1. CASE UNCHANGED attempts
    BY <1>3, <2>1, TablesKept DEF tables
  <2>2. ASSUME NEW status \in {"none", "pending", "valid", "failed"},
               NEW req \in {"none", "open", "retry", "saved"}, NEW answer \in Answers,
               SetAttempt(job[p].run, status, req, answer), status = "valid" => answer # NoAnswer
        PROVE  TableTypes'
    BY <1>3, <2>2, AttemptChange
  <2>3. CASE CreateAttempt(p) \/ Reserve(p)
    BY <1>2, <2>1, <2>2, <2>3 DEF CreateAttempt, Reserve
  <2>4. CASE Conclude(p)
    BY <1>1, <2>2, <2>4, AttType DEF Conclude
  <2>5. CASE Stop(p)
    BY <1>1, <1>2, <2>1, <2>2, <2>5, AttType DEF Stop
  <2>6. CASE SettleOpen(p)
    BY <1>2, <2>2, <2>6 DEF SettleOpen
  <2>7. CASE \E req \in {"retry", "saved"}, answer \in Answers : Reply(p, req, answer)
    BY <2>2, <2>7 DEF Reply
  <2>8. CASE Check(p)
    <3>1. CASE UNCHANGED attempts \/ SetAttempt(job[p].run, "failed", "none", NoAnswer)
      BY <1>2, <2>1, <2>2, <3>1
    <3>2. CASE SetAttempt(job[p].run, Att(p).status, "none", Att(p).answer)
      BY <1>1, <2>2, <3>2, AttType
    <3> QED
      BY <2>8, <3>1, <3>2 DEF Check
  <2> QED
    BY <2>3, <2>4, <2>5, <2>6, <2>7, <2>8
<1>5. CallTypes'
  <2>1. ASSUME NEW place \in Places \ {"idle"}, Goto(p, place), UNCHANGED lock
        PROVE  CallTypes'
    BY <1>1, <2>1, GotoTypes
  <2>2. CASE Leave(p)
    BY <2>2, LeaveTypes
  <2>3. CASE UNCHANGED <<pc, job, lock>>
    BY <2>3 DEF CallTypes, Called
  <2> QED
    BY <2>1, <2>2, <2>3, CaughtType DEF CreateAttempt, Reserve, Check, Conclude, Stop, SettleOpen, Reply, Places
<1> QED
  BY <1>3, <1>4, <1>5 DEF WorldTypes

(* Steps that end a call with its run.                                     *)
LEMMA CompleteTypes ==
  ASSUME Typed, NEW p \in Procs, CompletePaused(p) \/ CompleteFailed(p)
  PROVE  Typed'
<1> USE TypedParts
<1>1. PICK status \in {"paused", "failed"}, keep \in BOOLEAN : Complete(p, status, keep)
  BY DEF CompletePaused, CompleteFailed
<1>2. TableTypes'
  BY <1>1 DEF Complete, TableTypes, RunTypes
<1> QED
  BY <1>1, <1>2, LeaveTypes DEF Complete, WorldTypes

LEMMA CommitTypes == ASSUME Typed, NEW p \in Procs, Commit(p) PROVE Typed'
<1> USE TypedParts
<1> DEFINE j == job[p]
           r == IF j.picked = NoRun THEN j.run ELSE j.picked
<1>1. j.run \in Runs /\ r \in Runs /\ j.plan \in Runs \cup {NoRun} /\ Att(p).answer \in Answers
  BY AttType DEF Commit, CallTypes, JobTypes
<1>2. /\ results' \in [Runs -> Answers]
      /\ selected' \in [Stages -> Runs \cup {NoRun}]
  BY <1>1 DEF Commit, TableTypes
<1>3. auths' \subseteq [run : Runs, result : Runs, plan : Runs \cup {NoRun}]
  BY <1>1 DEF Commit, TableTypes
<1>4. runs' \in [Runs -> RunTypes]
  <2>1. PICK status \in {"accepted", "rejected"} : runs' = [runs EXCEPT ![j.run].status = status]
    BY DEF Commit, Verdict
  <2> QED
    BY <1>1, <2>1 DEF TableTypes, RunTypes
<1>5. TableTypes'
  BY <1>2, <1>3, <1>4 DEF Commit, TableTypes
<1> QED
  BY <1>5, LeaveTypes DEF Commit, WorldTypes

LEMMA WorldStep ==
  ASSUME Typed, (\E c \in Codes : Deploy(c)) \/ (\E x \in Permissions : Withdraw(x) \/ Grant(x))
  PROVE  Typed'
<1> USE TypedParts
<1>1. faults' \in 0 .. MaxFaults
  BY FaultType DEF Deploy, Withdraw, Grant, WorldTypes
<1>2. permits' \subseteq Permissions /\ code' \in Codes
  BY DEF Deploy, Withdraw, Grant, WorldTypes
<1>3. CallTypes'
  BY DEF Deploy, Withdraw, Grant, CallTypes, Called
<1> QED
  BY <1>1, <1>2, <1>3, TablesKept DEF Deploy, Withdraw, Grant, WorldTypes

LEMMA TypedStep == Typed /\ [Next]_vars => Typed'
<1> SUFFICES ASSUME Typed, [Next]_vars PROVE Typed'
  OBVIOUS
<1>1. CASE UNCHANGED vars
  BY <1>1 DEF vars, Typed, TypeOK, Called
<1>2. ASSUME NEW p \in Procs, Step(p)
      PROVE  Typed'
  BY <1>2, ClaimTypes, QuietTypes, AttemptTyped, CompleteTypes, CommitTypes DEF Step
<1> QED
  BY <1>1, <1>2, BeginTypes, QuietTypes, WorldStep DEF Next

(* Rows, permissions, locks and locals always have their types.            *)
THEOREM GenerationTypes == Spec => []TypeOK
<1>1. Typed => TypeOK
  BY DEF Typed
<1> QED
  BY TypedInit, TypedStep, <1>1, PTL DEF Spec
-----------------------------------------------------------------------------
(* Open requests keep their run the owner. *)

LEMMA OwnedInit == Init => Owned
<1> SUFFICES ASSUME Init PROVE Owned
  OBVIOUS
<1>1. HolderOwns /\ HandsOnLock
  BY NamesAssumption DEF Init, HolderOwns, HandsOnLock
<1>2. OwnerLives
  BY NamesAssumption DEF Init, OwnerLives, NoClaim
<1>3. Made
  BY NamesAssumption DEF Init, Made, NewRun, NoJob
<1>4. \A r \in Runs : attempts[r].req # "open"
  BY DEF Init, NoAttempt
<1>5. OpenIsPending /\ OpenPays /\ Landed /\ OpenKeepsOwner
  BY <1>4, NamesAssumption DEF Init, OpenIsPending, OpenPays, Landed, OpenKeepsOwner
<1> QED
  BY <1>1, <1>2, <1>3, <1>5 DEF Owned

(* A call goes on at another place, perhaps with its attempt changed.      *)
LEMMA ActOwned ==
  ASSUME OwnerInv, NEW p \in Procs, pc[p] # "idle", NEW place \in Places \ {"idle", "claim"},
         UNCHANGED <<runs, claim, selected, lock>>,
         pc' = [pc EXCEPT ![p] = place],
         \A q \in Procs : job'[q].run = job[q].run,
         \A r \in Runs : r # job[p].run => attempts'[r] = attempts[r],
         attempts'[job[p].run].req = "open" =>
           /\ attempts'[job[p].run].status = "pending"
           /\ Att(p).req = "open" \/ (lock = p /\ Pays(job[p].run)),
         place \in {"check", "send", "restore"} => lock = p,
         lock = p /\ place \in {"execute", "check", "send"} => Pays(job[p].run),
         lock = p /\ place \in {"authorize", "commit", "stop", "close"} => attempts'[job[p].run].req # "open"
  PROVE  Owned'
<1> USE TypedParts DEF OwnerInv, Owned
<1>1. \A q \in Procs : pc'[q] = IF q = p THEN place ELSE pc[q]
  BY DEF CallTypes
<1>2. \A r \in Runs : Pays(r)' <=> Pays(r)
  BY DEF Pays, SameIdentity
<1>3. job[p].run \in Runs
  BY AttType
<1>4. HolderOwns' /\ HandsOnLock'
  BY <1>1 DEF HolderOwns, HandsOnLock
<1>5. OwnerLives' /\ Made'
  BY DEF OwnerLives, Made
<1>6. lock = p => claim.run = job[p].run
  BY DEF HolderOwns
<1>7. \A r \in Runs : attempts'[r].req = "open" =>
        /\ attempts'[r].status = "pending"
        /\ attempts[r].req = "open" \/ (r = job[p].run /\ lock = p /\ Pays(r))
  <2> TAKE r \in Runs
  <2>1. CASE r = job[p].run
    BY <2>1 DEF Att
  <2>2. CASE r # job[p].run
    BY <2>2 DEF OpenIsPending
  <2> QED
    BY <2>1, <2>2
<1>8. OpenIsPending' /\ OpenKeepsOwner'
  BY <1>6, <1>7 DEF OpenIsPending, OpenKeepsOwner, OwnerLives, Terminal
<1>9. OpenPays'
  <2>1. \A r \in Runs : attempts'[r].req = "open" => Pays(r)'
    BY <1>2, <1>7 DEF OpenPays
  <2>2. ASSUME NEW q \in Procs, lock' = q, pc'[q] \in {"execute", "check", "send"}
        PROVE  Pays(job[q].run)
    BY <1>1, <2>2 DEF OpenPays
  <2>3. ASSUME NEW q \in Procs, lock' = q, pc'[q] \in {"execute", "check", "send"}
        PROVE  Pays(job[q].run)'
    BY <2>2, <2>3 DEF Pays, SameIdentity
  <2> QED
    BY <2>1, <2>3 DEF OpenPays
<1>10. Landed'
  <2>1. ASSUME NEW q \in Procs, lock' = q, pc'[q] \in {"authorize", "commit", "stop", "close"}
        PROVE  attempts'[job'[q].run].req # "open"
    <3>1. CASE q = p
      BY <1>1, <2>1, <3>1
    <3>2. CASE q # p
      <4>1. attempts[job[q].run].req # "open" /\ pc[q] # "idle"
        BY <1>1, <2>1, <3>2 DEF Landed
      <4>2. job[q].run \in Runs
        BY <4>1, AttType
      <4> QED
        BY <1>7, <2>1, <3>2, <4>1, <4>2
    <3> QED
      BY <3>1, <3>2
  <2> QED
    BY <2>1 DEF Landed
<1> QED
  BY <1>4, <1>5, <1>8, <1>9, <1>10

(* A call ends and leaves its run's open request, if any, to the owner.    *)
LEMMA LeaveOwned ==
  ASSUME OwnerInv, NEW p \in Procs, Leave(p), UNCHANGED <<runs, claim, selected>>,
         \A r \in Runs : attempts'[r] = attempts[r] \/ attempts'[r].req # "open"
  PROVE  Owned'
<1> USE TypedParts DEF OwnerInv, Owned
<1>1. \A q \in Procs : /\ q # p => pc'[q] = pc[q] /\ job'[q] = job[q]
                       /\ q = p => pc'[q] = "idle" /\ job'[q].run = NoRun
  BY DEF CallTypes, Leave, NoJob
<1>2. lock' # p /\ (lock' = lock \/ lock' = NoProc)
  BY NamesAssumption DEF Leave
<1>3. \A r \in Runs : Pays(r)' <=> Pays(r)
  BY DEF Pays, SameIdentity
<1>4. HolderOwns'
  BY <1>1, <1>2, NamesAssumption DEF HolderOwns
<1>5. HandsOnLock'
  BY <1>1, <1>2 DEF HandsOnLock, Leave
<1>6. OwnerLives' /\ Made'
  BY <1>1, NamesAssumption DEF OwnerLives, Made
<1>7. OpenIsPending' /\ OpenKeepsOwner'
  BY DEF OpenIsPending, OpenKeepsOwner
<1>8. \A q \in Procs : lock' = q => lock = q /\ q # p /\ job[q].run \in Runs
  BY <1>2, NamesAssumption, AttType DEF HolderOwns
<1>9. OpenPays'
  BY <1>1, <1>3, <1>8 DEF OpenPays, Pays, SameIdentity
<1>10. Landed'
  BY <1>1, <1>8 DEF Landed
<1> QED
  BY <1>4, <1>5, <1>6, <1>7, <1>9, <1>10

(* A place reached with the attempt as it is.                              *)
LEMMA GotoOwned ==
  ASSUME OwnerInv, NEW p \in Procs, pc[p] # "idle", NEW place \in Places \ {"idle", "claim"},
         Goto(p, place), UNCHANGED <<runs, claim, selected, lock, attempts>>,
         place \in {"check", "send", "restore"} => lock = p,
         lock = p /\ place \in {"execute", "check", "send"} => Pays(job[p].run),
         lock = p /\ place \in {"authorize", "commit", "stop", "close"} => Att(p).req # "open"
  PROVE  Owned'
<1>1. job[p].run \in Runs
  BY AttType DEF OwnerInv
<1>2. Att(p).req = "open" => Att(p).status = "pending"
  BY <1>1 DEF OwnerInv, Owned, OpenIsPending, Att
<1> QED
  BY <1>1, <1>2, ActOwned DEF Goto, Att

LEMMA CaughtOwned ==
  ASSUME OwnerInv, NEW p \in Procs, pc[p] # "idle", Goto(p, Caught(p)),
         UNCHANGED <<runs, claim, selected, lock, attempts>>
  PROVE  Owned'
BY GotoOwned, CaughtType DEF Caught, Places

(* The attempt changes where the call is, and no request is opened.        *)
LEMMA SettleOwned ==
  ASSUME OwnerInv, NEW p \in Procs, pc[p] \notin {"idle", "claim"}, NEW status, NEW req, NEW answer, req # "open",
         SetAttempt(job[p].run, status, req, answer), UNCHANGED <<runs, claim, selected, lock, pc, job>>
  PROVE  Owned'
<1>1. job[p].run \in Runs /\ pc[p] \in Places
  BY AttType, TypedParts DEF OwnerInv, CallTypes
<1>2. attempts'[job[p].run].req # "open"
  BY <1>1, TypedParts DEF SetAttempt, OwnerInv, TableTypes
<1>3. \A r \in Runs : r # job[p].run => attempts'[r] = attempts[r]
  BY TypedParts DEF SetAttempt, OwnerInv, TableTypes
<1>4. pc' = [pc EXCEPT ![p] = pc[p]]
  BY TypedParts DEF OwnerInv, CallTypes
<1>5. /\ pc[p] \in {"check", "send", "restore"} => lock = p
      /\ lock = p /\ pc[p] \in {"execute", "check", "send"} => Pays(job[p].run)
  BY DEF OwnerInv, Owned, HandsOnLock, OpenPays
<1> QED
  BY <1>1, <1>2, <1>3, <1>4, <1>5, ActOwned

(* The same, and the call goes on at a place that needs no request.        *)
LEMMA MoveOwned ==
  ASSUME OwnerInv, NEW p \in Procs, pc[p] # "idle", NEW status, NEW req, NEW answer, req # "open",
         NEW place \in {"execute", "close"}, place = "execute" => lock = p /\ Pays(job[p].run),
         SetAttempt(job[p].run, status, req, answer), Goto(p, place), UNCHANGED <<runs, claim, selected, lock>>
  PROVE  Owned'
<1>1. job[p].run \in Runs
  BY AttType DEF OwnerInv
<1>2. attempts'[job[p].run].req # "open"
  BY <1>1, TypedParts DEF SetAttempt, OwnerInv, TableTypes
<1>3. \A r \in Runs : r # job[p].run => attempts'[r] = attempts[r]
  BY TypedParts DEF SetAttempt, OwnerInv, TableTypes
<1> QED
  BY <1>1, <1>2, <1>3, ActOwned DEF Goto, Places

LEMMA CreateOwned ==
  ASSUME OwnerInv, NEW r \in Runs, NEW stage \in Stages, NEW fresh \in BOOLEAN, Create(r, stage, fresh)
  PROVE  Owned'
<1> USE TypedParts DEF OwnerInv, Owned
<1>1. runs[r].status = "absent" /\ claim.run # r /\ attempts[r].req # "open"
  BY DEF Create, OwnerLives, OpenKeepsOwner
<1>2. /\ \A q \in Runs : q # r => runs'[q] = runs[q]
      /\ runs'[r].status = "pending"
  BY DEF Create, TableTypes
<1>3. \A q \in Runs : q # r => (Pays(q)' <=> Pays(q))
  <2> TAKE q \in Runs
  <2> HAVE q # r
  <2>1. runs[q].stage \in Stages
    BY DEF TableTypes, RunTypes
  <2>2. selected[runs[q].stage] # r /\ selected[runs[q].stage] \in Runs \cup {NoRun}
    BY <1>1, <2>1 DEF Made, TableTypes
  <2> QED
    BY <1>2, <2>1, <2>2 DEF Create, Pays, SameIdentity
<1>4. \A p \in Procs : pc[p] # "idle" => job[p].run \in Runs \ {r}
  BY <1>1, AttType DEF Made
<1>5. HolderOwns' /\ HandsOnLock' /\ Landed' /\ OpenIsPending'
  BY DEF Create, HolderOwns, HandsOnLock, Landed, OpenIsPending
<1>6. OwnerLives' /\ Made' /\ OpenKeepsOwner'
  BY <1>1, <1>2 DEF Create, OwnerLives, Made, OpenKeepsOwner, Terminal
<1>7. OpenPays'
  <2>1. \A q \in Runs : attempts'[q].req = "open" => Pays(q)'
    BY <1>1, <1>3 DEF Create, OpenPays
  <2>2. \A p \in Procs : lock' = p /\ pc'[p] \in {"execute", "check", "send"} => Pays(job[p].run)'
    BY <1>3, <1>4 DEF Create, OpenPays
  <2> QED
    BY <2>1, <2>2 DEF OpenPays, Create
<1> QED
  BY <1>5, <1>6, <1>7

LEMMA BeginOwned ==
  ASSUME OwnerInv, NEW p \in Procs, NEW r \in Runs, NEW call \in {"run", "recover"}, Begin(p, r, call)
  PROVE  Owned'
<1> USE TypedParts DEF OwnerInv, Owned
<1>1. \A q \in Procs : /\ q # p => pc'[q] = pc[q] /\ job'[q] = job[q]
                       /\ q = p => pc'[q] = "claim" /\ job'[q].run = r
  BY DEF Begin, CallTypes, NoJob
<1>2. lock' = lock /\ lock # p
  BY DEF Begin, HolderOwns, tables
<1>3. UNCHANGED <<runs, claim, attempts, selected>>
  BY DEF Begin, tables
<1>4. HolderOwns' /\ HandsOnLock' /\ Landed' /\ OpenIsPending' /\ OpenKeepsOwner'
  BY <1>1, <1>2, <1>3 DEF HolderOwns, HandsOnLock, Landed, OpenIsPending, OpenKeepsOwner
<1>5. OwnerLives' /\ Made'
  BY <1>1, <1>3 DEF Begin, OwnerLives, Made
<1>6. OpenPays'
  BY <1>1, <1>2, <1>3 DEF OpenPays, Pays, SameIdentity
<1> QED
  BY <1>4, <1>5, <1>6

LEMMA ClaimOwned == ASSUME OwnerInv, NEW p \in Procs, Claim(p) PROVE Owned'
<1> USE TypedParts DEF OwnerInv, Owned
<1> DEFINE r == job[p].run
<1>1. r \in Runs /\ pc[p] = "claim" /\ UNCHANGED <<runs, attempts, selected>>
  BY AttType DEF Claim
<1>2. CASE Leave(p) /\ UNCHANGED claim
  BY <1>1, <1>2, LeaveOwned
<1>3. CASE lock = NoProc /\ Claimable(r, job[p].call) /\ claim' = [run |-> r, token |-> p]
  <2>1. claim.run \in {r, NoRun}
    BY <1>3 DEF Claimable
  <2>2. runs[r].status \in {"pending", "paused"}
    <3>1. runs[r].status # "absent"
      BY <1>1 DEF Made
    <3>2. ~Terminal(runs[r].status)
      BY <1>1, <1>3, NamesAssumption DEF Claimable, OwnerLives, Terminal
    <3> QED
      BY <1>1, <3>1, <3>2 DEF TableTypes, RunTypes, Terminal
  <2>3. OwnerLives' /\ OpenKeepsOwner'
    BY <1>1, <1>3, <2>1, <2>2, NamesAssumption DEF OwnerLives, OpenKeepsOwner, Terminal
  <2>4. OpenIsPending' /\ \A q \in Runs : attempts'[q].req = "open" => Pays(q)'
    BY <1>1 DEF OpenIsPending, OpenPays, Pays, SameIdentity
  <2>5. \A q \in Procs : lock # q /\ pc[q] \notin {"check", "send", "restore"}
    BY <1>3, NamesAssumption DEF HandsOnLock
  <2>6. CASE Leave(p)
    <3>1. \A q \in Procs : /\ q # p => pc'[q] = pc[q] /\ job'[q] = job[q]
                           /\ q = p => pc'[q] = "idle" /\ job'[q].run = NoRun
      BY <2>6 DEF CallTypes, Leave, NoJob
    <3>2. \A q \in Procs : lock' # q
      BY <1>3, <2>5, <2>6, NamesAssumption DEF Leave
    <3>3. HolderOwns' /\ HandsOnLock' /\ Landed'
      BY <2>5, <3>1, <3>2 DEF HolderOwns, HandsOnLock, Landed
    <3>4. Made'
      BY <1>1, <3>1, NamesAssumption DEF Made
    <3>5. OpenPays'
      BY <2>4, <3>2 DEF OpenPays
    <3> QED
      BY <2>3, <2>4, <3>3, <3>4, <3>5
  <2>7. ASSUME NEW place \in {"permit", "restore"}, lock' = p, Goto(p, place)
        PROVE  Owned'
    <3>1. \A q \in Procs : pc'[q] = IF q = p THEN place ELSE pc[q]
      BY <2>7 DEF CallTypes, Goto
    <3>2. UNCHANGED job
      BY <2>7 DEF Goto
    <3>3. HolderOwns' /\ HandsOnLock' /\ Landed'
      BY <1>3, <2>5, <2>7, <3>1, <3>2 DEF HolderOwns, HandsOnLock, Landed
    <3>4. Made'
      BY <1>1, <3>2 DEF Made
    <3>5. OpenPays'
      BY <2>4, <2>7, <3>1 DEF OpenPays
    <3> QED
      BY <2>3, <2>4, <3>3, <3>4, <3>5
  <2> QED
    BY <1>3, <2>6, <2>7 DEF Claim
<1> QED
  BY <1>2, <1>3 DEF Claim

(* The holder's own run is the only one with a request in the air.         *)
LEMMA OnlyHolder ==
  ASSUME OwnerInv, NEW p \in Procs, Fenced(p), NEW r \in Runs, attempts[r].req = "open"
  PROVE  r = job[p].run
BY DEF OwnerInv, Owned, OpenKeepsOwner, Fenced

(* A run ends, or pauses and keeps the candidate.                          *)
LEMMA CompleteOwned ==
  ASSUME OwnerInv, NEW p \in Procs, CompletePaused(p) \/ CompleteFailed(p) \/ Commit(p)
  PROVE  Owned'
<1> USE TypedParts DEF OwnerInv, Owned
<1> DEFINE r == job[p].run
<1>1. r \in Runs /\ Fenced(p) /\ Leave(p) /\ UNCHANGED attempts
  BY AttType DEF CompletePaused, CompleteFailed, Commit, Complete
<1>2. runs[r].status \in {"pending", "paused"} /\ claim.run = r
  BY <1>1 DEF OwnerLives, Fenced
<1>3. \A q \in Procs : /\ q # p => pc'[q] = pc[q] /\ job'[q] = job[q]
                       /\ q = p => pc'[q] = "idle" /\ job'[q].run = NoRun
                       /\ lock' # q
                       /\ q # p => pc[q] \notin {"check", "send", "restore"}
  BY <1>1, NamesAssumption DEF CallTypes, Leave, NoJob, Fenced, HandsOnLock
<1>4. HolderOwns' /\ HandsOnLock' /\ Landed'
  BY <1>3 DEF HolderOwns, HandsOnLock, Landed
<1>5. OpenIsPending'
  BY <1>1 DEF OpenIsPending
<1>6. CASE CompletePaused(p)
  <2>1. UNCHANGED <<claim, selected>> /\ runs' = [runs EXCEPT ![r].status = "paused"]
    BY <1>6 DEF CompletePaused, Complete
  <2>2. \A q \in Runs : /\ q # r => runs'[q] = runs[q]
                        /\ runs'[r].status = "paused"
                        /\ runs'[q].fresh = runs[q].fresh /\ runs'[q].stage = runs[q].stage
                        /\ runs'[q].input = runs[q].input /\ runs'[q].code = runs[q].code
    BY <1>1, <2>1 DEF TableTypes, RunTypes
  <2>3. OwnerLives' /\ OpenKeepsOwner'
    BY <1>1, <1>2, <2>1, <2>2 DEF OwnerLives, OpenKeepsOwner, Terminal
  <2>4. Made'
    BY <1>2, <1>3, <2>1, <2>2, NamesAssumption DEF Made
  <2>5. \A q \in Runs : runs[q].stage \in Stages /\ selected[runs[q].stage] \in Runs \cup {NoRun}
    BY DEF TableTypes, RunTypes
  <2>6. \A q \in Runs : Pays(q)' <=> Pays(q)
    BY <2>1, <2>2, <2>5 DEF Pays, SameIdentity
  <2>7. OpenPays'
    BY <1>1, <1>3, <2>6 DEF OpenPays
  <2> QED
    BY <1>4, <1>5, <2>3, <2>4, <2>7
<1>7. CASE CompleteFailed(p) \/ Commit(p)
  <2>1. attempts[r].req # "open"
    BY <1>1, <1>7 DEF CompleteFailed, Commit, Landed, Fenced, OpenIsPending, Att
  <2>2. \A q \in Runs : attempts'[q].req # "open"
    BY <1>1, <2>1, OnlyHolder
  <2>3. claim' = NoClaim
    BY <1>7 DEF CompleteFailed, Commit, Complete
  <2>4. PICK status \in {"failed", "accepted", "rejected"} : runs' = [runs EXCEPT ![r].status = status]
    BY <1>7 DEF CompleteFailed, Commit, Complete, Verdict
  <2>5. \A q \in Runs : runs'[q].status = "absent" => runs[q].status = "absent" /\ q # r
    BY <1>1, <2>4 DEF TableTypes, RunTypes
  <2>6. selected' = selected \/ selected' = [selected EXCEPT ![runs[r].stage] = r]
    BY <1>7 DEF CompleteFailed, Commit, Complete
  <2>7. Made'
    BY <1>1, <1>3, <2>5, <2>6, NamesAssumption DEF Made, TableTypes
  <2>8. OwnerLives' /\ OpenKeepsOwner' /\ OpenPays'
    BY <1>3, <2>2, <2>3, NamesAssumption DEF OwnerLives, OpenKeepsOwner, OpenPays, NoClaim
  <2> QED
    BY <1>4, <1>5, <2>7, <2>8
<1> QED
  BY <1>6, <1>7

(* Steps of a call that leave the rows alone.                              *)
LEMMA QuietOwned ==
  ASSUME OwnerInv, NEW p \in Procs,
         \/ Permit(p) \/ Choose(p) \/ SendThrows(p) \/ Pause(p) \/ Authorize(p) \/ RestoreBlocked(p)
         \/ Restored(p) \/ Stale(p) \/ StorageFails(p) \/ Interrupt(p) \/ LoseLock(p)
  PROVE  Owned'
<1> USE TypedParts DEF OwnerInv
<1>1. UNCHANGED <<runs, claim, selected, attempts>>
  BY DEF Permit, Choose, SendThrows, Pause, Authorize, RestoreBlocked, Restored, Stale, StorageFails, Interrupt,
         LoseLock, tables
<1>2. CASE Stale(p) \/ Interrupt(p)
  BY <1>1, <1>2, LeaveOwned DEF Stale, Interrupt
<1>3. CASE Pause(p) \/ RestoreBlocked(p) \/ StorageFails(p)
  BY <1>1, <1>3, GotoOwned DEF Pause, RestoreBlocked, StorageFails, Places
<1>4. CASE Permit(p) \/ SendThrows(p)
  <2>1. CASE Goto(p, "choose")
    BY <1>1, <1>4, <2>1, GotoOwned DEF Permit, SendThrows, Places
  <2> QED
    BY <1>1, <1>4, <2>1, CaughtOwned DEF Permit, SendThrows
<1>5. CASE Choose(p)
  <2> DEFINE r == job[p].run
             s == selected[runs[r].stage]
  <2>1. r \in Runs /\ pc[p] = "choose" /\ UNCHANGED lock
    BY <1>5, AttType DEF Choose
  <2>2. CASE ~runs[r].fresh /\ SameIdentity(s, r) /\ Usable(s)
    <3>1. Att(p).req # "open"
      BY <2>1, <2>2 DEF Owned, OpenPays, Pays, Att
    <3>2. pc' = [pc EXCEPT ![p] = "authorize"] /\ job' = [job EXCEPT ![p].picked = s]
      BY <1>5, <2>2 DEF Choose
    <3>3. \A q \in Procs : job'[q].run = job[q].run
      BY <3>2 DEF CallTypes, JobTypes
    <3> QED
      BY <1>1, <2>1, <3>1, <3>2, <3>3, ActOwned DEF Att, Places
  <2>3. CASE Goto(p, Caught(p))
    BY <1>1, <2>1, <2>3, CaughtOwned
  <2>4. CASE Goto(p, "execute") /\ ~(~runs[r].fresh /\ SameIdentity(s, r))
    BY <1>1, <2>1, <2>4, GotoOwned DEF Pays, Places
  <2> QED
    BY <1>5, <2>2, <2>3, <2>4 DEF Choose
<1>6. CASE Authorize(p)
  <2>1. job[p].run \in Runs /\ pc[p] \in {"authorize", "execute"} /\ UNCHANGED lock
    BY <1>6, AttType DEF Authorize
  <2>2. lock = p => Att(p).req # "open"
    BY <1>6, <2>1 DEF Authorize, Owned, Landed, OpenIsPending, Att
  <2>3. CASE pc' = [pc EXCEPT ![p] = "commit"] /\ job' = [job EXCEPT ![p].plan = selected["planner"]]
    <3>1. \A q \in Procs : job'[q].run = job[q].run
      BY <2>3 DEF CallTypes, JobTypes
    <3>2. Att(p).req = "open" => Att(p).status = "pending"
      BY <2>1 DEF Owned, OpenIsPending, Att
    <3> QED
      BY <1>1, <2>1, <2>2, <2>3, <3>1, <3>2, ActOwned DEF Att, Places
  <2> QED
    BY <1>1, <1>6, <2>1, <2>3, CaughtOwned DEF Authorize
<1>7. CASE Restored(p)
  <2>1. job[p].run \in Runs /\ pc[p] = "restore" /\ UNCHANGED lock
    BY <1>7, AttType DEF Restored
  <2>2. Att(p).req # "open"
    BY <1>7, <2>1 DEF Restored, Owned, OpenIsPending, Att
  <2> QED
    BY <1>1, <1>7, <2>1, <2>2, GotoOwned DEF Restored, Places
<1>8. CASE LoseLock(p)
  <2>1. pc[p] \notin {"check", "send", "restore"} /\ UNCHANGED <<pc, job>> /\ lock' = NoProc
    BY <1>8, StallAssumption DEF LoseLock
  <2>2. \A q \in Procs : lock' # q
    BY <2>1, NamesAssumption
  <2>3. HolderOwns' /\ HandsOnLock' /\ Landed'
    BY <1>8, <2>1, <2>2 DEF LoseLock, Owned, HolderOwns, HandsOnLock, Landed
  <2>4. OwnerLives' /\ Made' /\ OpenIsPending' /\ OpenKeepsOwner'
    BY <1>1, <2>1 DEF Owned, OwnerLives, Made, OpenIsPending, OpenKeepsOwner
  <2>5. OpenPays'
    BY <1>1, <2>2 DEF Owned, OpenPays, Pays, SameIdentity
  <2> QED
    BY <2>3, <2>4, <2>5 DEF Owned
<1> QED
  BY <1>2, <1>3, <1>4, <1>5, <1>6, <1>7, <1>8

(* Steps that change the run's attempt.                                    *)
LEMMA AttemptOwned ==
  ASSUME OwnerInv, NEW p \in Procs,
         \/ CreateAttempt(p) \/ Reserve(p) \/ Check(p) \/ Conclude(p) \/ Stop(p) \/ SettleOpen(p)
         \/ \E req \in {"retry", "saved"}, answer \in Answers : Reply(p, req, answer)
  PROVE  Owned'
<1> USE TypedParts DEF OwnerInv
<1>1. UNCHANGED <<runs, claim, selected>>
  BY DEF CreateAttempt, Reserve, Check, Conclude, Stop, SettleOpen, Reply
<1>2. CASE CreateAttempt(p) \/ Conclude(p) \/ SettleOpen(p)
  BY <1>1, <1>2, SettleOwned DEF CreateAttempt, Conclude, SettleOpen
<1>3. CASE Reserve(p)
  <2>1. job[p].run \in Runs /\ pc[p] = "execute"
    BY <1>3, AttType DEF Reserve
  <2>2. CASE Permitted(job[p].run) /\ Fenced(p)
    <3>1. attempts'[job[p].run] = [status |-> "pending", req |-> "open", answer |-> NoAnswer]
      BY <1>3, <2>1, <2>2 DEF Reserve, SetAttempt, TableTypes
    <3>2. \A r \in Runs : r # job[p].run => attempts'[r] = attempts[r]
      BY <1>3, <2>2 DEF Reserve, SetAttempt, TableTypes
    <3>3. lock = p /\ Pays(job[p].run)
      BY <2>1, <2>2 DEF Fenced, Owned, OpenPays
    <3> QED
      BY <1>1, <1>3, <2>1, <2>2, <3>1, <3>2, <3>3, ActOwned DEF Reserve, Goto, Places
  <2>3. CASE Leave(p) /\ UNCHANGED attempts
    BY <1>1, <2>3, LeaveOwned
  <2>4. CASE Goto(p, Caught(p)) /\ UNCHANGED <<lock, attempts>>
    BY <1>1, <2>1, <2>4, CaughtOwned
  <2> QED
    BY <1>3, <2>2, <2>3, <2>4 DEF Reserve
<1>4. CASE Check(p)
  <2>1. job[p].run \in Runs /\ pc[p] = "check"
    BY <1>4, AttType DEF Check
  <2>2. lock = p /\ Pays(job[p].run)
    BY <2>1 DEF Owned, HandsOnLock, OpenPays
  <2>3. CASE Goto(p, "send") /\ UNCHANGED <<attempts, lock>>
    BY <1>1, <2>1, <2>2, <2>3, GotoOwned DEF Places
  <2>4. CASE SetAttempt(job[p].run, "failed", "none", NoAnswer) /\ Goto(p, "execute") /\ UNCHANGED lock
    BY <1>1, <2>1, <2>2, <2>4, MoveOwned
  <2>5. Fenced(p)
    BY <2>2 DEF Owned, HolderOwns, Fenced
  <2> QED
    BY <1>4, <2>3, <2>4, <2>5 DEF Check
<1>5. CASE Stop(p)
  <2>1. job[p].run \in Runs /\ pc[p] = "stop"
    BY <1>5, AttType DEF Stop
  <2>2. CASE UNCHANGED attempts
    <3>1. lock = p => Att(p).req # "open"
      BY <2>1 DEF Owned, Landed, Att
    <3> QED
      BY <1>1, <1>5, <2>1, <2>2, <3>1, GotoOwned DEF Stop, Places
  <2>3. CASE Att(p).req \in {"none", "saved"} /\ SetAttempt(job[p].run, "failed", Att(p).req, NoAnswer)
    BY <1>1, <1>5, <2>1, <2>3, MoveOwned DEF Stop
  <2> QED
    BY <1>5, <2>2, <2>3 DEF Stop
<1>6. ASSUME NEW req \in {"retry", "saved"}, NEW answer \in Answers, Reply(p, req, answer)
      PROVE  Owned'
  <2>1. job[p].run \in Runs /\ pc[p] = "send"
    BY <1>6, AttType DEF Reply
  <2>2. lock = p /\ Pays(job[p].run)
    BY <2>1 DEF Owned, HandsOnLock, OpenPays
  <2> QED
    BY <1>1, <1>6, <2>1, <2>2, MoveOwned DEF Reply
<1> QED
  BY <1>2, <1>3, <1>4, <1>5, <1>6

LEMMA WorldOwned ==
  ASSUME OwnerInv, \/ \E c \in Codes : Deploy(c)
                   \/ \E x \in Permissions : Withdraw(x) \/ Grant(x)
                   \/ UNCHANGED vars
  PROVE  Owned'
<1>1. UNCHANGED <<runs, claim, lock, attempts, selected, pc, job>>
  BY DEF Deploy, Withdraw, Grant, tables, vars
<1> QED
  BY <1>1 DEF OwnerInv, Owned, HolderOwns, HandsOnLock, OwnerLives, Made, OpenIsPending, OpenPays, Pays,
              SameIdentity, Landed, OpenKeepsOwner

LEMMA OwnedStep == OwnerInv /\ [Next]_vars => OwnerInv'
<1> SUFFICES ASSUME OwnerInv, [Next]_vars PROVE Owned'
  BY TypedStep DEF OwnerInv
<1>1. ASSUME NEW p \in Procs, Step(p)
      PROVE  Owned'
  BY <1>1, ClaimOwned, QuietOwned, AttemptOwned, CompleteOwned DEF Step
<1> QED
  BY <1>1, CreateOwned, BeginOwned, QuietOwned, WorldOwned DEF Next

(* While a request of a run may be in the air, the run has not ended and   *)
(* owns the candidate.                                                     *)
THEOREM OpenOwnsCandidate == Spec => []OpenKeepsOwner
<1>1. Init => OwnerInv
  BY TypedInit, OwnedInit DEF OwnerInv
<1>2. OwnerInv => OpenKeepsOwner
  BY DEF OwnerInv, Owned
<1> QED
  BY <1>1, OwnedStep, <1>2, PTL DEF Spec
-----------------------------------------------------------------------------
(* Selected results stand, and a lesson follows the selected plan. *)

(* A request is sent for the reservation that is at hand.                  *)
OpenAtHand == \A p \in Procs : pc[p] \in {"check", "send"} => Att(p).req = "open"

(* A picked result was judged on the same input; without one, the run's    *)
(* own attempt is valid when it is committed.                              *)
Ready == \A p \in Procs :
           /\ pc[p] = "authorize" => job[p].picked # NoRun
           /\ pc[p] = "commit" /\ job[p].picked = NoRun => Att(p).status = "valid"
           /\ job[p].picked # NoRun => /\ runs[job[p].picked].status # "absent"
                                       /\ runs[job[p].picked].input = runs[job[p].run].input
                                       /\ pc[p] # "idle"

(* The plan a lesson is committed under.                                   *)
Planned == \A p \in Procs : lock = p /\ pc[p] = "commit" /\ runs[job[p].run].stage = "writer" =>
             /\ job[p].plan = selected["planner"]
             /\ runs[job[p].run].input = results[job[p].plan]
             /\ results[job[p].plan] # Empty

StandInv == OwnerInv /\ SelectedStands /\ OpenAtHand /\ Ready /\ Planned

LEMMA StandInit == Init => StandInv
<1> SUFFICES ASSUME Init PROVE StandInv
  OBVIOUS
<1>1. OwnerInv
  BY TypedInit, OwnedInit DEF OwnerInv
<1>2. SelectedStands
  <2> SUFFICES ASSUME NEW s \in Stages, selected[s] # NoRun PROVE Validated(selected[s])
    BY DEF SelectedStands
  <2>1. selected[s] = First /\ First \in Runs
    BY FirstAssumption DEF Init
  <2>2. /\ runs[First].status = "accepted" /\ runs[First].stage = "planner"
        /\ results[First] # Empty
        /\ attempts[First].status = "valid" /\ attempts[First].answer = results[First]
    BY <2>1 DEF Init, NewRun
  <2> QED
    BY <2>1, <2>2 DEF Validated, Verdict
<1>3. OpenAtHand /\ Ready /\ Planned
  BY DEF Init, OpenAtHand, Ready, Planned, NoJob
<1> QED
  BY <1>1, <1>2, <1>3 DEF StandInv

(* What a step does to an attempt it does under the lock, or it creates    *)
(* the attempt.                                                            *)
LEMMA AttemptsChange ==
  ASSUME StandInv, [Next]_vars
  PROVE  \/ UNCHANGED attempts
         \/ \E p \in Procs : /\ Att(p).status \in {"none", "pending"}
                             /\ Att(p).status = "pending" => lock = p
                             /\ \A r \in Runs : r # job[p].run => attempts'[r] = attempts[r]
                             /\ UNCHANGED <<runs, results, selected>>
                             /\ pc[p] # "idle"
                             /\ pc[p] \in {"check", "send"} => pc'[p] \notin {"check", "send"}
<1> USE TypedParts DEF StandInv, OwnerInv
<1>1. ASSUME NEW p \in Procs,
             \/ CreateAttempt(p) \/ Reserve(p) \/ Check(p) \/ Conclude(p) \/ Stop(p) \/ SettleOpen(p)
             \/ \E req \in {"retry", "saved"}, answer \in Answers : Reply(p, req, answer)
      PROVE  \/ UNCHANGED attempts
             \/ /\ Att(p).status \in {"none", "pending"}
                /\ Att(p).status = "pending" => lock = p
                /\ \A r \in Runs : r # job[p].run => attempts'[r] = attempts[r]
                /\ UNCHANGED <<runs, results, selected>>
                /\ pc[p] # "idle"
                /\ pc[p] \in {"check", "send"} => pc'[p] \notin {"check", "send"}
  <2>1. pc[p] # "idle" /\ UNCHANGED <<runs, results, selected>>
    BY <1>1 DEF CreateAttempt, Reserve, Check, Conclude, Stop, SettleOpen, Reply
  <2>2. UNCHANGED attempts \/ \A r \in Runs : r # job[p].run => attempts'[r] = attempts[r]
    BY <1>1 DEF CreateAttempt, Reserve, Check, Conclude, Stop, SettleOpen, Reply, SetAttempt, TableTypes
  <2>3. CASE CreateAttempt(p) \/ Reserve(p) \/ Conclude(p) \/ Stop(p) \/ SettleOpen(p)
    BY <2>1, <2>2, <2>3 DEF CreateAttempt, Reserve, Conclude, Stop, SettleOpen, Fenced, Owned, HandsOnLock
  <2>4. CASE pc[p] \in {"check", "send"}
    <3>1. Att(p).req = "open" /\ lock = p /\ job[p].run \in Runs
      BY <2>4, AttType DEF OpenAtHand, Owned, HandsOnLock
    <3>2. Att(p).status = "pending"
      BY <3>1 DEF Owned, OpenIsPending, Att
    <3>3. UNCHANGED attempts \/ pc'[p] \in {"execute", "idle"}
      BY <1>1, <2>4 DEF Check, Reply, CreateAttempt, Reserve, Conclude, Stop, SettleOpen, Goto, Leave, CallTypes
    <3> QED
      BY <2>1, <2>2, <3>1, <3>2, <3>3
  <2> QED
    BY <1>1, <2>3, <2>4 DEF Check, Reply
<1>2. ASSUME NEW p \in Procs,
             \/ Claim(p) \/ Permit(p) \/ Choose(p) \/ SendThrows(p) \/ Pause(p) \/ Authorize(p) \/ RestoreBlocked(p)
             \/ Restored(p) \/ Stale(p) \/ StorageFails(p) \/ Interrupt(p) \/ LoseLock(p)
             \/ CompletePaused(p) \/ CompleteFailed(p) \/ Commit(p)
      PROVE  UNCHANGED attempts
  BY <1>2 DEF Claim, Permit, Choose, SendThrows, Pause, Authorize, RestoreBlocked, Restored, Stale, StorageFails,
              Interrupt, LoseLock, CompletePaused, CompleteFailed, Commit, Complete, tables
<1>3. ASSUME \/ \E r \in Runs, stage \in Stages, fresh \in BOOLEAN : Create(r, stage, fresh)
             \/ \E p \in Procs, r \in Runs, call \in {"run", "recover"} : Begin(p, r, call)
             \/ \E c \in Codes : Deploy(c)
             \/ \E x \in Permissions : Withdraw(x) \/ Grant(x)
             \/ UNCHANGED vars
      PROVE  UNCHANGED attempts
  BY <1>3 DEF Create, Begin, Deploy, Withdraw, Grant, tables, vars
<1> QED
  BY <1>1, <1>2, <1>3 DEF Next, Step

(* What a run was asked for never changes, nor does what a run that ended  *)
(* has come to.                                                            *)
LEMMA RowsKept ==
  ASSUME StandInv, [Next]_vars
  PROVE  \A r \in Runs :
           /\ runs[r].status # "absent" => /\ runs'[r].status # "absent"
                                           /\ runs'[r].stage = runs[r].stage
                                           /\ runs'[r].input = runs[r].input
           /\ Terminal(runs[r].status) => /\ runs'[r] = runs[r]
                                          /\ results'[r] = results[r]
           /\ attempts[r].status = "valid" => attempts'[r] = attempts[r]
<1> USE TypedParts DEF StandInv, OwnerInv
<1>1. \A r \in Runs : attempts[r].status = "valid" => attempts'[r] = attempts[r]
  BY AttemptsChange DEF Att
<1>2. ASSUME NEW p \in Procs, CompletePaused(p) \/ CompleteFailed(p) \/ Commit(p)
      PROVE  /\ \E status \in {"paused", "failed", "accepted", "rejected"} :
                  runs' = [runs EXCEPT ![job[p].run].status = status]
             /\ \A r \in Runs : r # job[p].run => results'[r] = results[r]
             /\ runs[job[p].run].status \in {"pending", "paused"}
             /\ job[p].run \in Runs
  <2>1. Fenced(p) /\ pc[p] # "idle"
    BY <1>2 DEF CompletePaused, CompleteFailed, Complete, Commit
  <2>2. job[p].run \in Runs /\ claim.run = job[p].run
    BY <2>1, AttType DEF Fenced
  <2>3. CASE Commit(p)
    BY <2>1, <2>2, <2>3 DEF Commit, Verdict, Owned, OwnerLives, TableTypes
  <2>4. CASE CompletePaused(p) \/ CompleteFailed(p)
    BY <2>1, <2>2, <2>4 DEF CompletePaused, CompleteFailed, Complete, Owned, OwnerLives
  <2> QED
    BY <1>2, <2>3, <2>4
<1>3. ASSUME NEW p \in Procs, CompletePaused(p) \/ CompleteFailed(p) \/ Commit(p), NEW r \in Runs
      PROVE  /\ runs[r].status # "absent" => /\ runs'[r].status # "absent"
                                             /\ runs'[r].stage = runs[r].stage
                                             /\ runs'[r].input = runs[r].input
             /\ Terminal(runs[r].status) => runs'[r] = runs[r] /\ results'[r] = results[r]
  <2>1. PICK status \in {"paused", "failed", "accepted", "rejected"} :
          runs' = [runs EXCEPT ![job[p].run].status = status]
    BY <1>2, <1>3
  <2>2. runs[r] \in RunTypes /\ runs \in [Runs -> RunTypes]
    BY <1>3 DEF TableTypes
  <2>3. CASE r = job[p].run
    <3>1. runs'[r] = [runs[r] EXCEPT !.status = status]
      BY <2>1, <2>2, <2>3, <1>3
    <3>2. ~Terminal(runs[r].status)
      BY <1>2, <1>3, <2>3 DEF Terminal
    <3> QED
      BY <2>2, <3>1, <3>2 DEF RunTypes
  <2>4. CASE r # job[p].run
    BY <1>2, <1>3, <2>1, <2>2, <2>4
  <2> QED
    BY <2>3, <2>4
<1>4. ASSUME NEW x \in Runs, NEW stage \in Stages, NEW fresh \in BOOLEAN, Create(x, stage, fresh)
      PROVE  /\ \A r \in Runs : r # x => runs'[r] = runs[r]
             /\ runs[x].status = "absent" /\ UNCHANGED results
  BY <1>4 DEF Create, TableTypes
<1>5. ASSUME NEW p \in Procs,
             \/ CreateAttempt(p) \/ Reserve(p) \/ Check(p) \/ Conclude(p) \/ Stop(p) \/ SettleOpen(p)
             \/ \E req \in {"retry", "saved"}, answer \in Answers : Reply(p, req, answer)
             \/ Claim(p) \/ Permit(p) \/ Choose(p) \/ SendThrows(p) \/ Pause(p) \/ Authorize(p) \/ RestoreBlocked(p)
             \/ Restored(p) \/ Stale(p) \/ StorageFails(p) \/ Interrupt(p) \/ LoseLock(p)
      PROVE  UNCHANGED <<runs, results, selected>>
  BY <1>5 DEF CreateAttempt, Reserve, Check, Conclude, Stop, SettleOpen, Reply, Claim, Permit, Choose, SendThrows,
              Pause, Authorize, RestoreBlocked, Restored, Stale, StorageFails, Interrupt, LoseLock, tables
<1>6. ASSUME \/ \E p \in Procs, r \in Runs, call \in {"run", "recover"} : Begin(p, r, call)
             \/ \E c \in Codes : Deploy(c)
             \/ \E x \in Permissions : Withdraw(x) \/ Grant(x)
             \/ UNCHANGED vars
      PROVE  UNCHANGED <<runs, results, selected>>
  BY <1>6 DEF Begin, Deploy, Withdraw, Grant, tables, vars
<1>7. \/ UNCHANGED <<runs, results>>
      \/ \E p \in Procs : CompletePaused(p) \/ CompleteFailed(p) \/ Commit(p)
      \/ \E x \in Runs, stage \in Stages, fresh \in BOOLEAN : Create(x, stage, fresh)
  BY <1>5, <1>6 DEF Next, Step
<1>8. CASE UNCHANGED <<runs, results>>
  BY <1>1, <1>8
<1>9. CASE \E p \in Procs : CompletePaused(p) \/ CompleteFailed(p) \/ Commit(p)
  BY <1>1, <1>3, <1>9
<1>10. CASE \E x \in Runs, stage \in Stages, fresh \in BOOLEAN : Create(x, stage, fresh)
  BY <1>1, <1>4, <1>10 DEF Terminal
<1> QED
  BY <1>7, <1>8, <1>9, <1>10

(* Only a commit replaces a selection.                                     *)
LEMMA SelectionKept ==
  ASSUME [Next]_vars
  PROVE  UNCHANGED <<results, selected, auths>> \/ \E p \in Procs : Commit(p)
<1>1. ASSUME NEW p \in Procs, Step(p), ~Commit(p)
      PROVE  UNCHANGED <<results, selected, auths>>
  BY <1>1 DEF Step, CreateAttempt, Reserve, Check, Conclude, Stop, SettleOpen, Reply, Claim, Permit, Choose,
              Pause, Authorize, Restored, Stale, CompletePaused, CompleteFailed, Complete, tables
<1> QED
  BY <1>1 DEF Next, Create, Begin, SendThrows, RestoreBlocked, StorageFails, Interrupt, LoseLock, Deploy,
              Withdraw, Grant, tables, vars

LEMMA SelectedStep ==
  ASSUME StandInv, [Next]_vars, OwnerInv'
  PROVE  SelectedStands'
<1> USE TypedParts DEF StandInv, OwnerInv
<1>1. ASSUME NEW r \in Runs, Validated(r)
      PROVE  Validated(r)'
  <2>1. Terminal(runs[r].status) /\ attempts[r].status = "valid"
    BY <1>1 DEF Validated, Verdict, Terminal
  <2>2. runs'[r] = runs[r] /\ results'[r] = results[r] /\ attempts'[r] = attempts[r]
    BY <2>1, RowsKept
  <2> QED
    BY <1>1, <2>2 DEF Validated, Verdict
<1>2. ASSUME NEW p \in Procs, Commit(p), job[p].picked = NoRun, NEW r \in Runs, r = job[p].run
      PROVE  Validated(r)'
  <2>1. pc[p] = "commit"
    BY <1>2 DEF Commit
  <2>2. attempts'[r] = attempts[r] /\ results'[r] = attempts[r].answer /\ attempts[r].status = "valid"
    BY <1>2, <2>1 DEF Commit, Ready, Att, TableTypes
  <2>3. runs'[r].stage = runs[r].stage /\ runs'[r].status = Verdict(runs[r].stage, results'[r])
    BY <1>2 DEF Commit, TableTypes, RunTypes
  <2>4. runs'[r].status = Verdict(runs[r].stage, results[r])'
    BY <2>3 DEF Verdict
  <2> QED
    BY <2>2, <2>3, <2>4 DEF Validated, Verdict
<1>3. ASSUME NEW s \in Stages, NEW r \in Runs, selected'[s] = r
      PROVE  Validated(r)'
  <2>1. CASE selected'[s] = selected[s]
    <3>1. r # NoRun
      BY NamesAssumption
    <3> QED
      BY <1>1, <1>3, <2>1, <3>1 DEF SelectedStands
  <2>2. CASE selected'[s] # selected[s]
    <3>1. PICK p \in Procs : Commit(p)
      BY <2>2, SelectionKept
    <3>2. job[p].picked = NoRun /\ selected'[s] = job[p].run
      BY <2>2, <3>1 DEF Commit, TableTypes
    <3> QED
      BY <1>2, <1>3, <3>1, <3>2
  <2> QED
    BY <2>1, <2>2
<1>4. selected' \in [Stages -> Runs \cup {NoRun}]
  BY DEF TableTypes
<1> QED
  BY <1>3, <1>4 DEF SelectedStands

(* A step moves one process at most.                                       *)
Acts(q) == \/ Step(q) \/ SendThrows(q) \/ RestoreBlocked(q) \/ StorageFails(q) \/ Interrupt(q)
           \/ \E r \in Runs, call \in {"run", "recover"} : Begin(q, r, call)

LEMMA OthersStay ==
  ASSUME Typed, [Next]_vars, NEW q \in Procs
  PROVE  Acts(q) \/ (pc'[q] = pc[q] /\ job'[q] = job[q])
<1> USE TypedParts
<1>1. ASSUME NEW p \in Procs, Acts(p), p # q
      PROVE  pc'[q] = pc[q] /\ job'[q] = job[q]
  <2>1. ASSUME Step(p)
        PROVE  pc'[q] = pc[q] /\ job'[q] = job[q]
    BY <1>1, <2>1 DEF Step, CreateAttempt, Reserve, Check, Conclude, Stop, SettleOpen, Reply, Claim, Permit, Choose,
              Pause, Authorize, Restored, Stale, CompletePaused, CompleteFailed, Complete, Commit,
              Goto, Leave, CallTypes
  <2> QED
    BY <1>1, <2>1 DEF Acts, SendThrows, RestoreBlocked, StorageFails, Interrupt, Begin, Goto, Leave, CallTypes
<1>2. CASE \E p \in Procs : Acts(p)
  BY <1>1, <1>2
<1>3. CASE \/ \E p \in Procs : LoseLock(p)
           \/ \E r \in Runs, stage \in Stages, fresh \in BOOLEAN : Create(r, stage, fresh)
           \/ \E c \in Codes : Deploy(c)
           \/ \E x \in Permissions : Withdraw(x) \/ Grant(x)
           \/ UNCHANGED vars
  BY <1>3 DEF LoseLock, Create, Deploy, Withdraw, Grant, vars
<1> QED
  BY <1>2, <1>3 DEF Next, Acts

(* Where the process that acts goes.                                       *)
LEMMA WhereTo ==
  ASSUME Typed, NEW p \in Procs, Acts(p)
  PROVE  \/ pc'[p] = pc[p] /\ job'[p] = job[p]
         \/ Leave(p)
         \/ pc'[p] = "claim" /\ job'[p].picked = NoRun
         \/ pc'[p] \in Places \ {"authorize", "commit", "check", "idle"} /\ job'[p] = job[p] /\ pc'[p] # "send"
         \/ Reserve(p) /\ pc'[p] = "check" /\ job'[p] = job[p]
         \/ Check(p) /\ pc'[p] = "send" /\ job'[p] = job[p]
         \/ Choose(p) \/ Authorize(p)
<1> USE TypedParts DEF Places, CallTypes
<1>1. CASE Reserve(p) \/ Check(p)
  BY <1>1, CaughtType DEF Reserve, Check, Goto
<1>2. CASE Choose(p) \/ Authorize(p)
  BY <1>2
<1>3. CASE Claim(p) \/ Permit(p) \/ Stop(p) \/ Pause(p) \/ Restored(p) \/ SendThrows(p) \/ RestoreBlocked(p)
           \/ StorageFails(p) \/ \E req \in {"retry", "saved"}, answer \in Answers : Reply(p, req, answer)
  BY <1>3, CaughtType DEF Claim, Permit, Stop, Pause, Restored, SendThrows, RestoreBlocked, StorageFails, Reply, Goto
<1>4. CASE CreateAttempt(p) \/ Conclude(p) \/ SettleOpen(p)
  BY <1>4 DEF CreateAttempt, Conclude, SettleOpen
<1>5. CASE CompletePaused(p) \/ CompleteFailed(p) \/ Commit(p) \/ Stale(p) \/ Interrupt(p)
  BY <1>5 DEF CompletePaused, CompleteFailed, Complete, Commit, Stale, Interrupt
<1>6. CASE \E r \in Runs, call \in {"run", "recover"} : Begin(p, r, call)
  BY <1>6 DEF Begin, NoJob, JobTypes
<1> QED
  BY <1>1, <1>2, <1>3, <1>4, <1>5, <1>6 DEF Acts, Step

LEMMA OpenAtHandStep == ASSUME StandInv, [Next]_vars PROVE OpenAtHand'
<1> USE TypedParts DEF StandInv, OwnerInv
<1> SUFFICES ASSUME NEW q \in Procs, pc'[q] \in {"check", "send"}
             PROVE  Att(q)'.req = "open"
  BY DEF OpenAtHand
<1>1. CASE Reserve(q) /\ pc'[q] = "check" /\ job'[q] = job[q]
  <2>1. job[q].run \in Runs /\ SetAttempt(job[q].run, "pending", "open", NoAnswer)
    BY <1>1, AttType, CaughtType DEF Reserve, Goto, Leave, CallTypes
  <2> QED
    BY <1>1, <2>1 DEF SetAttempt, Att, TableTypes
<1>2. CASE Check(q) /\ pc'[q] = "send" /\ job'[q] = job[q]
  BY <1>2 DEF Check, OpenAtHand, Att, Goto, SetAttempt, Leave, CallTypes
<1>3. CASE pc'[q] = pc[q] /\ job'[q] = job[q]
  <2>1. Att(q).req = "open" /\ lock = q /\ job[q].run \in Runs
    BY <1>3, AttType DEF OpenAtHand, Owned, HandsOnLock
  <2>2. Att(q).status = "pending"
    BY <2>1 DEF Owned, OpenIsPending, Att
  <2>3. attempts'[job[q].run] = attempts[job[q].run]
    <3>1. CASE UNCHANGED attempts
      BY <3>1
    <3>2. ASSUME NEW p \in Procs, Att(p).status \in {"none", "pending"}, Att(p).status = "pending" => lock = p,
                 \A r \in Runs : r # job[p].run => attempts'[r] = attempts[r],
                 pc[p] \in {"check", "send"} => pc'[p] \notin {"check", "send"}
          PROVE  attempts'[job[q].run] = attempts[job[q].run]
      BY <1>3, <2>1, <2>2, <3>2 DEF Att
    <3> QED
      BY <3>1, <3>2, AttemptsChange
  <2> QED
    BY <1>3, <2>1, <2>3 DEF Att
<1>4. CASE Leave(q) \/ Choose(q) \/ Authorize(q)
  BY <1>4, CaughtType DEF Leave, Choose, Authorize, Goto, CallTypes
<1> QED
  BY <1>1, <1>2, <1>3, <1>4, OthersStay, WhereTo

LEMMA ReadyStep == ASSUME StandInv, [Next]_vars PROVE Ready'
<1> USE TypedParts DEF StandInv, OwnerInv
<1> SUFFICES ASSUME NEW q \in Procs
             PROVE  /\ pc'[q] = "authorize" => job'[q].picked # NoRun
                    /\ pc'[q] = "commit" /\ job'[q].picked = NoRun => Att(q)'.status = "valid"
                    /\ job'[q].picked # NoRun => /\ runs'[job'[q].picked].status # "absent"
                                                 /\ runs'[job'[q].picked].input = runs'[job'[q].run].input
                                                 /\ pc'[q] # "idle"
  BY DEF Ready
<1> DEFINE Kept(i) == i # NoRun => /\ runs'[i].status # "absent"
                                   /\ runs'[i].input = runs'[job[q].run].input
<1>1. ASSUME pc[q] # "idle", NEW i \in Runs, runs[i].status # "absent", runs[i].input = runs[job[q].run].input
      PROVE  Kept(i)
  <2>1. job[q].run \in Runs /\ runs[job[q].run].status # "absent"
    BY <1>1, AttType DEF Owned, Made
  <2> QED
    BY <1>1, <2>1, RowsKept
<1>2. Kept(job[q].picked) /\ job[q] \in JobTypes
  <2>1. job[q] \in JobTypes
    BY DEF CallTypes
  <2>2. CASE job[q].picked # NoRun
    BY <2>1, <2>2, <1>1 DEF Ready, JobTypes
  <2> QED
    BY <2>1, <2>2
<1>3. CASE pc'[q] = pc[q] /\ job'[q] = job[q]
  <2>1. pc[q] = "commit" /\ job[q].picked = NoRun => Att(q)'.status = "valid"
    <3> SUFFICES ASSUME pc[q] = "commit", job[q].picked = NoRun PROVE Att(q)'.status = "valid"
      OBVIOUS
    <3>1. job[q].run \in Runs /\ attempts[job[q].run].status = "valid"
      BY AttType DEF Ready, Att
    <3>2. attempts'[job[q].run] = attempts[job[q].run]
      BY <3>1, RowsKept
    <3> QED
      BY <1>3, <3>1, <3>2 DEF Att
  <2> QED
    BY <1>2, <1>3, <2>1 DEF Ready
<1>4. CASE Leave(q)
  BY <1>4 DEF Leave, NoJob, CallTypes
<1>5. CASE pc'[q] = "claim" /\ job'[q].picked = NoRun
  BY <1>5
<1>6. CASE pc'[q] \in Places \ {"authorize", "commit", "idle"} /\ job'[q] = job[q]
  BY <1>2, <1>6
<1>7. CASE Choose(q)
  <2> DEFINE r == job[q].run
             s == selected[runs[r].stage]
  <2>1. r \in Runs /\ pc[q] = "choose"
    BY <1>7, AttType DEF Choose
  <2>2. CASE pc' = [pc EXCEPT ![q] = "authorize"] /\ job' = [job EXCEPT ![q].picked = s] /\ SameIdentity(s, r)
    <3>1. runs[r].stage \in Stages /\ s \in Runs
      BY <2>1, <2>2 DEF TableTypes, RunTypes, SameIdentity
    <3>2. runs[s].status # "absent" /\ runs[s].input = runs[r].input
      BY <2>2, <3>1 DEF Owned, Made, SameIdentity
    <3>3. Kept(s)
      BY <2>1, <3>1, <3>2, <1>1
    <3>4. pc'[q] = "authorize" /\ job'[q].picked = s /\ job'[q].run = r /\ s # NoRun
      BY <1>2, <2>2, <3>1, NamesAssumption DEF CallTypes, JobTypes
    <3> QED
      BY <3>3, <3>4
  <2>3. CASE Goto(q, "execute") \/ Goto(q, Caught(q))
    BY <1>2, <2>3, CaughtType DEF Goto, CallTypes
  <2> QED
    BY <1>7, <2>2, <2>3 DEF Choose
<1>8. CASE Authorize(q)
  <2>1. CASE Goto(q, Caught(q))
    BY <1>2, <2>1, CaughtType DEF Goto, CallTypes
  <2>2. CASE pc' = [pc EXCEPT ![q] = "commit"] /\ job' = [job EXCEPT ![q].plan = selected["planner"]]
    <3>1. pc'[q] = "commit" /\ job'[q].picked = job[q].picked /\ job'[q].run = job[q].run
      BY <1>2, <2>2 DEF CallTypes, JobTypes
    <3>2. job[q].picked = NoRun => Att(q).status = "valid" /\ UNCHANGED attempts
      BY <1>8 DEF Authorize, Ready, tables
    <3> QED
      BY <1>2, <3>1, <3>2 DEF Att
  <2> QED
    BY <1>8, <2>1, <2>2 DEF Authorize
<1> QED
  BY <1>3, <1>4, <1>5, <1>6, <1>7, <1>8, OthersStay, WhereTo DEF Places

LEMMA PlannedStep == ASSUME StandInv, [Next]_vars PROVE Planned'
<1> USE TypedParts DEF StandInv, OwnerInv
<1> SUFFICES ASSUME NEW q \in Procs, lock' = q, pc'[q] = "commit", runs'[job'[q].run].stage = "writer"
             PROVE  /\ job'[q].plan = selected'["planner"]
                    /\ runs'[job'[q].run].input = results'[job'[q].plan]
                    /\ results'[job'[q].plan] # Empty
  BY DEF Planned
<1>1. CASE pc'[q] = pc[q] /\ job'[q] = job[q]
  <2>1. job[q].run \in Runs /\ runs[job[q].run].status # "absent"
    BY <1>1, AttType DEF Owned, Made
  <2>2. /\ runs'[job[q].run].stage = runs[job[q].run].stage
        /\ runs'[job[q].run].input = runs[job[q].run].input
    BY <2>1, RowsKept
  <2>3. lock = q
    <3>1. ASSUME NEW p \in Procs, Step(p), ~Claim(p)
          PROVE  lock' \in {lock, NoProc}
      BY <3>1 DEF Step, CreateAttempt, Reserve, Check, Conclude, Stop, SettleOpen, Reply, Permit, Choose,
              Pause, Authorize, Restored, Stale, CompletePaused, CompleteFailed, Complete, Commit, Leave
    <3>2. ASSUME NEW p \in Procs, Claim(p)
          PROVE  lock' \in {lock, NoProc} \/ pc'[lock'] # "commit"
      BY <3>2 DEF Claim, Goto, Leave, CallTypes
    <3>3. lock' \in {lock, NoProc} \/ pc'[lock'] # "commit"
      BY <3>1, <3>2 DEF Next, SendThrows, RestoreBlocked, StorageFails, Interrupt, LoseLock, Create, Begin,
                        Deploy, Withdraw, Grant, Leave, vars
    <3> QED
      BY <3>3, NamesAssumption
  <2>4. UNCHANGED <<results, selected>>
    <3>1. ASSUME NEW p \in Procs, Commit(p)
          PROVE  FALSE
      BY <1>1, <2>3, <3>1 DEF Commit, Fenced, Leave, CallTypes
    <3> QED
      BY <3>1, SelectionKept
  <2> QED
    BY <1>1, <2>2, <2>3, <2>4 DEF Planned
<1>2. CASE Authorize(q)
  <2>1. Permitted(job[q].run) /\ job' = [job EXCEPT ![q].plan = selected["planner"]]
    BY <1>2, CaughtType DEF Authorize, Goto, CallTypes
  <2>2. UNCHANGED <<runs, results, selected>>
    BY <1>2 DEF Authorize, tables
  <2>3. job'[q].plan = selected["planner"] /\ job'[q].run = job[q].run
    BY <2>1 DEF CallTypes, JobTypes
  <2>4. Plannable /\ runs[job[q].run].input = results[selected["planner"]]
    BY <2>1, <2>2, <2>3 DEF Permitted, Current, InputNow
  <2> QED
    BY <2>2, <2>3, <2>4 DEF Plannable
<1>3. CASE Leave(q) \/ Choose(q)
  BY <1>3, CaughtType DEF Leave, Choose, Goto, CallTypes
<1> QED
  BY <1>1, <1>2, <1>3, OthersStay, WhereTo

LEMMA StandStep == StandInv /\ [Next]_vars => StandInv'
BY OwnedStep, SelectedStep, OpenAtHandStep, ReadyStep, PlannedStep DEF StandInv

(* What is selected can always be used again, whoever resumed, recovered   *)
(* or gave up the run it comes from.                                       *)
THEOREM SelectedResultsStand == Spec => []SelectedStands
<1>1. StandInv => SelectedStands
  BY DEF StandInv
<1> QED
  BY StandInit, StandStep, <1>1, PTL DEF Spec

(* A lesson is authorized under the plan that is selected at that moment,  *)
(* and it was written from what that plan says.                            *)
THEOREM LessonIsOfItsPlan == Spec => LessonFollowsPlan
<1>1. StandInv /\ [Next]_vars => [\A a \in auths' \ auths : runs[a.run].stage = "writer" =>
                                    /\ a.plan = selected["planner"]
                                    /\ runs[a.result].input = results[a.plan]
                                    /\ results[a.plan] # Empty]_vars
  <2> SUFFICES ASSUME StandInv, [Next]_vars, NEW a \in auths', a \notin auths, runs[a.run].stage = "writer"
               PROVE  /\ a.plan = selected["planner"]
                      /\ runs[a.result].input = results[a.plan]
                      /\ results[a.plan] # Empty
    OBVIOUS
  <2>1. PICK p \in Procs : Commit(p)
    BY SelectionKept
  <2>2. a = [run |-> job[p].run, result |-> IF job[p].picked = NoRun THEN job[p].run ELSE job[p].picked,
             plan |-> job[p].plan]
    BY <2>1 DEF Commit
  <2>3. lock = p /\ pc[p] = "commit"
    BY <2>1 DEF Commit, Fenced
  <2>4. runs[a.result].input = runs[a.run].input
    BY <2>2, <2>3 DEF StandInv, Ready
  <2> QED
    BY <2>2, <2>3, <2>4 DEF StandInv, Planned
<1> QED
  BY <1>1, StandInit, StandStep, PTL DEF Spec, LessonFollowsPlan
=============================================================================
