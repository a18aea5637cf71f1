--------------------------- MODULE GenerationRun ---------------------------
(***************************************************************************)
(* The planner and writer coordinators (pipeline/planner-run.ts and        *)
(* writer-run.ts) over one candidate.  A run makes one trial or reuses the *)
(* selected result; a lesson is written from the plan that is selected.    *)
(* Both keep the candidate's claim of ProductionRun, but on conditions of  *)
(* their own: also a recovered run stays the owner, and a check that fails *)
(* ends the run.  The gates are a permission that comes and goes.          *)
(***************************************************************************)
EXTENDS Integers

CONSTANTS Runs, NoRun,          \* runs of the candidate
          First,                \* a planner run accepted before the others, or NoRun
          Procs, NoProc,        \* operators' processes, one call each at a time
          Plans, Empty,         \* what replies say; an empty plan teaches nothing
          Codes,                \* what the deployed code hashes to
          StallPoints,          \* places from which a process may outlive its lock
          MaxFaults             \* bound on interruptions, failures, stalls and deployments

ASSUME FirstAssumption == First \in Runs \cup {NoRun}
ASSUME NamesAssumption == /\ NoRun \notin Runs /\ NoProc \notin Procs
                          /\ Empty \in Plans /\ "none" \notin Plans
ASSUME MaxFaultsAssumption == MaxFaults \in Nat
(* What a process does to requests without its lock is StageExecutor's.    *)
ASSUME StallAssumption == StallPoints \cap {"check", "send", "restore"} = {}

VARIABLES runs,         \* private.production_runs: instructions and status
          claim,        \* the candidate's claim row
          lock,         \* whose connection holds the candidate's advisory lock
          attempts,     \* the single trial of each run, with its latest request
          results,      \* private.production_results, by run
          selected,     \* private.stage_selections
          auths,        \* private.reuse_authorizations and writer_authorizations
          permits,      \* what the owner has in force: the gates and two promotions
          code,         \* deployed
          pc, job,      \* each process's place and locals
          faults

vars == <<runs, claim, lock, attempts, results, selected, auths, permits, code, pc, job, faults>>
tables == <<runs, claim, attempts, results, selected, auths>>

Stages == {"planner", "writer"}
Permissions == {"gates", "planner", "writer"}
Terminal(status) == status \in {"accepted", "rejected", "failed"}

(* The planner's input is the candidate's evidence, the writer's a plan.   *)
Evidence == "evidence"
Inputs == Plans \cup {Evidence}

NoAnswer == "none"              \* no reply, or one that validation refuses
Answers == Plans \cup {NoAnswer}
NoClaim == [run |-> NoRun, token |-> NoProc]
NoAttempt == [status |-> "none", req |-> "none", answer |-> NoAnswer]
NoJob == [call |-> "none", run |-> NoRun, picked |-> NoRun, plan |-> NoRun]
NewRun(c, status) == [stage |-> "planner", fresh |-> FALSE, input |-> Evidence, code |-> c, status |-> status]

Init == /\ code \in Codes
        /\ runs = [r \in Runs |-> NewRun(code, IF r = First THEN "accepted" ELSE "absent")]
        /\ claim = NoClaim
        /\ lock = NoProc
        /\ results \in [Runs -> Answers]
        /\ \A r \in Runs : IF r = First THEN results[r] \in Plans \ {Empty} ELSE results[r] = NoAnswer
        /\ attempts = [r \in Runs |-> IF r = First
                                      THEN [status |-> "valid", req |-> "saved", answer |-> results[r]]
                                      ELSE NoAttempt]
        /\ selected = [s \in Stages |-> IF s = "planner" THEN First ELSE NoRun]
        /\ auths = {}
        /\ permits = Permissions
        /\ pc = [p \in Procs |-> "idle"]
        /\ job = [p \in Procs |-> NoJob]
        /\ faults = 0

------------------------------------------------------------------------------
(* What saved rows permit *)

Verdict(stage, answer) == IF stage = "planner" /\ answer = Empty THEN "rejected" ELSE "accepted"

(* validateSavedPlannerResult, validateSavedWriterResult: the run ended as *)
(* its result says, and the valid attempt's reply yields that result.      *)
Validated(r) == /\ runs[r].status = Verdict(runs[r].stage, results[r])
                /\ attempts[r].status = "valid"
                /\ attempts[r].answer = results[r]

(* The reuse identity hashes the stage's input and code.                   *)
SameIdentity(s, r) == /\ s # NoRun
                      /\ runs[s].stage = runs[r].stage
                      /\ runs[s].input = runs[r].input
                      /\ runs[s].code = runs[r].code

(* A result is used only while the code still hashes to its identity.      *)
Usable(r) == runs[r].code = code /\ Validated(r)

(* authorizeWriter: the selected plan is current and teaches something.    *)
Plannable == LET r == selected["planner"] IN
  /\ {"gates", "planner"} \subseteq permits
  /\ r # NoRun /\ Usable(r) /\ results[r] # Empty

InputNow(stage) == IF stage = "planner" THEN Evidence ELSE results[selected["planner"]]

(* current, and its comparison of the input with the run's *)
Current(r) == IF runs[r].stage = "planner" THEN "gates" \in permits
              ELSE Plannable /\ runs[r].input = InputNow("writer")

AnyPlan(r) ==                           \* mutant: does not compare the inputs
  /\ IF runs[r].stage = "planner" THEN "gates" \in permits ELSE Plannable
  /\ runs[r].stage \in permits

(* permissions: current, and the promotion of the run's configuration.     *)
Permitted(r) == Current(r) /\ runs[r].stage \in permits

AnyToken(p) == claim.run = job[p].run   \* mutant: any claim of the run will do

(* claim.assert and claim.transaction, as in ProductionRun *)
Fenced(p) == lock = p /\ claim = [run |-> job[p].run, token |-> p]

------------------------------------------------------------------------------
(* Calls *)

Goto(p, place) == pc' = [pc EXCEPT ![p] = place] /\ UNCHANGED job

Leave(p) == /\ pc' = [pc EXCEPT ![p] = "idle"]
            /\ job' = [job EXCEPT ![p] = NoJob]
            /\ lock' = IF lock = p THEN NoProc ELSE lock

Att(p) == attempts[job[p].run]

ForgetOpen(p) == "stop"                 \* mutant: forgets the request in the air

(* The catch of run: a reserved request keeps the run its owner.           *)
Caught(p) == IF Att(p).req = "open" THEN "paused" ELSE "stop"

SetAttempt(r, status, req, answer) ==
  attempts' = [attempts EXCEPT ![r] = [status |-> status, req |-> req, answer |-> answer]]

(* create freezes the input it was permitted for. *)
Create(r, stage, fresh) ==
  /\ runs[r].status = "absent"
  /\ stage \in permits
  /\ IF stage = "planner" THEN "gates" \in permits ELSE Plannable
  /\ runs' = [runs EXCEPT ![r] = [stage |-> stage, fresh |-> fresh, input |-> InputNow(stage),
                                  code |-> code, status |-> "pending"]]
  /\ UNCHANGED <<claim, lock, attempts, results, selected, auths, permits, code, pc, job, faults>>

(* run and recover up to the claim; recover compares the code afterwards.  *)
Begin(p, r, call) ==
  /\ pc[p] = "idle"
  /\ runs[r].status \in {"pending", "paused"}
  /\ call = "run" => runs[r].code = code
  /\ pc' = [pc EXCEPT ![p] = "claim"]
  /\ job' = [job EXCEPT ![p] = [NoJob EXCEPT !.call = call, !.run = r]]
  /\ UNCHANGED <<tables, lock, permits, code, faults>>

Claimable(r, call) ==
  /\ Terminal(runs[r].status) => call = "recover" /\ claim.run = r
  /\ \/ claim.run = NoRun
     \/ claim.run = r /\ (call = "recover" \/ runs[r].status = "paused")

(* claimCandidate; implementation_changed leaves the claim with the run.   *)
Claim(p) == LET r == job[p].run IN
  /\ pc[p] = "claim"
  /\ IF lock = NoProc /\ Claimable(r, job[p].call)
     THEN /\ claim' = [run |-> r, token |-> p]
          /\ IF job[p].call = "recover" /\ runs[r].code # code THEN Leave(p)
             ELSE lock' = p /\ Goto(p, IF job[p].call = "run" THEN "permit" ELSE "restore")
     ELSE Leave(p) /\ UNCHANGED claim
  /\ UNCHANGED <<runs, attempts, results, selected, auths, permits, code, faults>>

------------------------------------------------------------------------------
(* run *)

Permit(p) ==
  /\ pc[p] = "permit"
  /\ Goto(p, IF Permitted(job[p].run) THEN "choose" ELSE Caught(p))
  /\ UNCHANGED <<tables, lock, permits, code, faults>>

Choose(p) == LET r == job[p].run IN LET s == selected[runs[r].stage] IN
  /\ pc[p] = "choose"
  /\ IF ~runs[r].fresh /\ SameIdentity(s, r)
     THEN IF Usable(s)
          THEN /\ pc' = [pc EXCEPT ![p] = "authorize"]
               /\ job' = [job EXCEPT ![p].picked = s]
          ELSE Goto(p, Caught(p))
     ELSE Goto(p, "execute")
  /\ UNCHANGED <<tables, lock, permits, code, faults>>

CreateAttempt(p) ==
  /\ pc[p] = "execute"
  /\ Att(p).status = "none"
  /\ SetAttempt(job[p].run, "pending", "none", NoAnswer)
  /\ UNCHANGED <<runs, claim, lock, results, selected, auths, permits, code, pc, job, faults>>

(* The first check of a dispatch throws; then the request is reserved and  *)
(* its intent recorded.                                                    *)
Reserve(p) == LET r == job[p].run IN
  /\ pc[p] = "execute"
  /\ Att(p).status = "pending" /\ Att(p).req \in {"none", "retry"}
  /\ IF Permitted(r) /\ Fenced(p)
     THEN SetAttempt(r, "pending", "open", NoAnswer) /\ Goto(p, "check") /\ UNCHANGED lock
     ELSE /\ IF Permitted(r) THEN Leave(p) ELSE Goto(p, Caught(p)) /\ UNCHANGED lock
          /\ UNCHANGED attempts
  /\ UNCHANGED <<runs, claim, results, selected, auths, permits, code, faults>>

(* The second check cancels: the reservation is released and the attempt   *)
(* fails, for whoever still owns the candidate.                            *)
Check(p) == LET r == job[p].run IN
  /\ pc[p] = "check"
  /\ IF Permitted(r) /\ Fenced(p) THEN Goto(p, "send") /\ UNCHANGED <<attempts, lock>>
     ELSE IF Fenced(p) THEN SetAttempt(r, "failed", "none", NoAnswer) /\ Goto(p, "execute") /\ UNCHANGED lock
     ELSE SetAttempt(r, Att(p).status, "none", Att(p).answer) /\ Leave(p)
  /\ UNCHANGED <<runs, claim, results, selected, auths, permits, code, faults>>

(* The reply is recorded with its accounting. *)
Reply(p, req, answer) ==
  /\ pc[p] = "send"
  /\ req = "retry" => answer = NoAnswer
  /\ SetAttempt(job[p].run, "pending", req, answer)
  /\ Goto(p, "execute")
  /\ UNCHANGED <<runs, claim, lock, results, selected, auths, permits, code, faults>>

(* The adapter throws after the intent: the request stays reserved.        *)
SendThrows(p) ==
  /\ pc[p] = "send"
  /\ faults < MaxFaults
  /\ faults' = faults + 1
  /\ Goto(p, Caught(p))
  /\ UNCHANGED <<tables, lock, permits, code>>

AlwaysValid(p) ==                       \* mutant: does not look at the reply
  /\ pc[p] \in {"execute", "restore"}
  /\ Att(p).status = "pending" /\ Att(p).req \in {"saved", "retry"}
  /\ Fenced(p)
  /\ SetAttempt(job[p].run, "valid", Att(p).req, Att(p).answer)
  /\ UNCHANGED <<runs, claim, lock, results, selected, auths, permits, code, pc, job, faults>>

(* finish: from the saved reply, or when no retry is left.                 *)
Conclude(p) ==
  /\ pc[p] \in {"execute", "restore"}
  /\ Att(p).status = "pending" /\ Att(p).req \in {"saved", "retry"}
  /\ Fenced(p)
  /\ SetAttempt(job[p].run, IF Att(p).answer = NoAnswer THEN "failed" ELSE "valid", Att(p).req, Att(p).answer)
  /\ UNCHANGED <<runs, claim, lock, results, selected, auths, permits, code, pc, job, faults>>

(* A deferred retry, an exhausted budget, accounting that is unavailable.  *)
Pause(p) ==
  /\ pc[p] = "execute"
  /\ Att(p).status = "pending"
  /\ Goto(p, "paused")
  /\ UNCHANGED <<tables, lock, permits, code, faults>>

(* permissions again, before the result is committed *)
Authorize(p) ==
  /\ \/ pc[p] = "authorize"
     \/ pc[p] = "execute" /\ Att(p).status = "valid"
  /\ IF Permitted(job[p].run)
     THEN /\ pc' = [pc EXCEPT ![p] = "commit"]
          /\ job' = [job EXCEPT ![p].plan = selected["planner"]]
     ELSE Goto(p, Caught(p))
  /\ UNCHANGED <<tables, lock, permits, code, faults>>

(* completeProduction and completeWriter: the result, its selection, the   *)
(* authorization, the run's end and the claim's in one transaction.        *)
Commit(p) == LET j == job[p] IN
  /\ pc[p] = "commit"
  /\ Fenced(p)
  /\ IF j.picked = NoRun
     THEN /\ results' = [results EXCEPT ![j.run] = Att(p).answer]
          /\ selected' = [selected EXCEPT ![runs[j.run].stage] = j.run]
     ELSE UNCHANGED <<results, selected>>
  /\ LET r == IF j.picked = NoRun THEN j.run ELSE j.picked IN
       /\ auths' = auths \cup {[run |-> j.run, result |-> r, plan |-> j.plan]}
       /\ runs' = [runs EXCEPT ![j.run].status = Verdict(runs[j.run].stage, results'[r])]
  /\ claim' = NoClaim
  /\ Leave(p)
  /\ UNCHANGED <<attempts, permits, code, faults>>

------------------------------------------------------------------------------
(* Ways to end a call without a result *)

(* stopPendingAttempts *)
Stop(p) ==
  /\ pc[p] = "stop"
  /\ IF Att(p).status = "pending" /\ Att(p).req \in {"none", "saved"}
     THEN Fenced(p) /\ SetAttempt(job[p].run, "failed", Att(p).req, NoAnswer) ELSE UNCHANGED attempts
  /\ Goto(p, "close")
  /\ UNCHANGED <<runs, claim, lock, results, selected, auths, permits, code, faults>>

Complete(p, status, keep) ==
  /\ Fenced(p)
  /\ runs' = [runs EXCEPT ![job[p].run].status = status]
  /\ claim' = IF keep THEN claim ELSE NoClaim
  /\ Leave(p)
  /\ UNCHANGED <<attempts, results, selected, auths, permits, code, faults>>

CompletePaused(p) == pc[p] = "paused" /\ Complete(p, "paused", TRUE)
CompleteFailed(p) == /\ \/ pc[p] = "close"
                        \/ pc[p] = "execute" /\ Att(p).status = "failed"
                     /\ Complete(p, "failed", FALSE)

------------------------------------------------------------------------------
(* recover *)

(* execute without dispatch: an open request that was never recorded is    *)
(* released, and any other is settled and concluded.                       *)
SettleOpen(p) ==
  /\ pc[p] = "restore"
  /\ Att(p).status = "pending" /\ Att(p).req = "open"
  /\ \/ SetAttempt(job[p].run, "pending", "none", NoAnswer)
     \/ Fenced(p) /\ SetAttempt(job[p].run, "failed", "saved", NoAnswer)
  /\ UNCHANGED <<runs, claim, lock, results, selected, auths, permits, code, pc, job, faults>>

(* Accounting or storage is unavailable: nothing is decided. *)
RestoreBlocked(p) ==
  /\ pc[p] = "restore"
  /\ Att(p).status # "none"
  /\ faults < MaxFaults
  /\ faults' = faults + 1
  /\ Goto(p, "paused")
  /\ UNCHANGED <<tables, lock, permits, code>>

(* Without a failure of its own the run must still be permitted.           *)
Restored(p) ==
  /\ pc[p] = "restore"
  /\ Att(p).status = "pending" => Att(p).req \in {"none", "retry"}
  /\ Goto(p, IF Att(p).status = "failed" \/ ~Current(job[p].run) THEN "stop" ELSE "paused")
  /\ UNCHANGED <<tables, lock, permits, code, faults>>

------------------------------------------------------------------------------
(* claim_stale: the call ends and touches nothing. *)
Stale(p) ==
  /\ ~Fenced(p)
  /\ \/ pc[p] \in {"commit", "paused", "close"}
     \/ pc[p] = "execute" /\ Att(p).status = "failed"
     \/ pc[p] = "stop" /\ Att(p).status = "pending" /\ Att(p).req \in {"none", "saved"}
     \/ pc[p] \in {"execute", "restore"} /\ Att(p).status = "pending" /\ Att(p).req \in {"saved", "open"}
  /\ Leave(p)
  /\ UNCHANGED <<tables, permits, code, faults>>

(* A read or a write of the run fails with storage_unavailable.            *)
StorageFails(p) ==
  /\ pc[p] \in {"permit", "choose", "authorize", "commit"}
  /\ faults < MaxFaults
  /\ faults' = faults + 1
  /\ Goto(p, "paused")
  /\ UNCHANGED <<tables, lock, permits, code>>

(* A process stops. *)
Interrupt(p) ==
  /\ pc[p] # "idle"
  /\ faults < MaxFaults
  /\ faults' = faults + 1
  /\ Leave(p)
  /\ UNCHANGED <<tables, permits, code>>

(* PostgreSQL ends the session; the process goes on. *)
LoseLock(p) ==
  /\ pc[p] \in StallPoints
  /\ lock = p
  /\ faults < MaxFaults
  /\ faults' = faults + 1
  /\ lock' = NoProc
  /\ UNCHANGED <<tables, permits, code, pc, job>>

Deploy(c) ==
  /\ c # code
  /\ faults < MaxFaults
  /\ faults' = faults + 1
  /\ code' = c
  /\ UNCHANGED <<tables, lock, permits, pc, job>>

(* The owner's latest decision counts; the gates' selection, intake or     *)
(* readiness changes.                                                      *)
Withdraw(x) ==
  /\ x \in permits
  /\ faults < MaxFaults
  /\ faults' = faults + 1
  /\ permits' = permits \ {x}
  /\ UNCHANGED <<tables, lock, code, pc, job>>

Grant(x) ==
  /\ x \notin permits
  /\ permits' = permits \cup {x}
  /\ UNCHANGED <<tables, lock, code, pc, job, faults>>

Step(p) ==
  \/ Claim(p) \/ Permit(p) \/ Choose(p) \/ CreateAttempt(p) \/ Reserve(p) \/ Check(p)
  \/ \E req \in {"retry", "saved"}, answer \in Answers : Reply(p, req, answer)
  \/ Conclude(p) \/ Pause(p) \/ Authorize(p) \/ Commit(p)
  \/ Stop(p) \/ CompletePaused(p) \/ CompleteFailed(p)
  \/ SettleOpen(p) \/ Restored(p) \/ Stale(p)

Next ==
  \/ \E r \in Runs, stage \in Stages, fresh \in BOOLEAN : Create(r, stage, fresh)
  \/ \E p \in Procs, r \in Runs, call \in {"run", "recover"} : Begin(p, r, call)
  \/ \E p \in Procs : \/ Step(p) \/ SendThrows(p) \/ RestoreBlocked(p) \/ StorageFails(p)
                      \/ Interrupt(p) \/ LoseLock(p)
  \/ \E c \in Codes : Deploy(c)
  \/ \E x \in Permissions : Withdraw(x) \/ Grant(x)

Spec == Init /\ [][Next]_vars

------------------------------------------------------------------------------
(* Properties *)

(* Types of the tables, the permissions and the processes' locals.         *)
TypeOK ==
  /\ runs \in [Runs -> [stage : Stages, fresh : BOOLEAN, input : Inputs, code : Codes,
                        status : {"absent", "pending", "paused", "accepted", "rejected", "failed"}]]
  /\ claim \in [run : Runs, token : Procs] \cup {NoClaim}
  /\ lock \in Procs \cup {NoProc}
  /\ attempts \in [Runs -> [status : {"none", "pending", "valid", "failed"},
                            req : {"none", "open", "retry", "saved"}, answer : Answers]]
  /\ \A r \in Runs : attempts[r].status = "valid" => attempts[r].answer # NoAnswer
  /\ results \in [Runs -> Answers]
  /\ selected \in [Stages -> Runs \cup {NoRun}]
  /\ auths \subseteq [run : Runs, result : Runs, plan : Runs \cup {NoRun}]
  /\ permits \subseteq Permissions
  /\ code \in Codes
  /\ pc \in [Procs -> {"idle", "claim", "permit", "choose", "execute", "check", "send", "authorize", "commit",
                       "stop", "paused", "close", "restore"}]
  /\ job \in [Procs -> [call : {"none", "run", "recover"}, run : Runs \cup {NoRun}, picked : Runs \cup {NoRun},
                        plan : Runs \cup {NoRun}]]
  /\ faults \in 0 .. MaxFaults

(* A selected result can always be used: its run, its attempt and the      *)
(* result itself agree, whoever resumed, recovered or gave up that run.    *)
SelectedStands == \A s \in Stages : selected[s] # NoRun => Validated(selected[s])

(* A lesson is authorized only under the plan that is selected at that     *)
(* moment, and it was written from what that plan says: a plan replaced    *)
(* while the writer was at work never ends up beside the old plan's lesson.*)
LessonFollowsPlan ==
  [][\A a \in auths' \ auths : runs[a.run].stage = "writer" =>
       /\ a.plan = selected["planner"]
       /\ runs[a.result].input = results[a.plan]
       /\ results[a.plan] # Empty]_vars

(* While a request of a run may be in the air, the run is not over and     *)
(* owns the candidate: no refusal or withdrawn permission turns a          *)
(* recoverable reservation terminal.                                       *)
OpenKeepsOwner == \A r \in Runs : attempts[r].req = "open" => claim.run = r /\ ~Terminal(runs[r].status)

=============================================================================
