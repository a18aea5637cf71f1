--------------------------- MODULE ProductionRun ---------------------------
(***************************************************************************)
(* The production coordinator of pipeline/run.ts over one candidate: runs  *)
(* that pass the appropriateness and the usefulness gate, the durable      *)
(* claim and the session lock that keep them apart, the saved results, the *)
(* selection of one result per stage, and recovery.  A trial's execution   *)
(* is abstracted to what StageExecutor makes of it: an attempt is created, *)
(* its request leaves, and it is finished under the claim or it pauses.    *)
(***************************************************************************)
EXTENDS Integers, FiniteSets

CONSTANTS Runs, NoRun,          \* production runs of the candidate
          Procs, NoProc,        \* operators' processes, one call each at a time
          Identities,           \* what the code, its configuration and mode of execution hash to
          Kinds, Fresh,         \* the modes in which runs are created
          Trials,               \* trials of a gate
          MaxFaults,            \* bound on interruptions, lost locks and deployments
          Stalls                \* whether a process may outlive its lock's connection

ASSUME ModesAssumption == Kinds \subseteq {"normal", "appropriateness", "usefulness"} /\ Fresh \subseteq BOOLEAN
ASSUME TrialsAssumption == Trials \in Nat \ {0}
ASSUME MaxFaultsAssumption == MaxFaults \in Nat
ASSUME StallsAssumption == Stalls \in BOOLEAN
ASSUME NamesAssumption == NoRun \notin Runs /\ NoProc \notin Procs

VARIABLES runs,         \* private.production_runs: instructions and status
          claim,        \* the candidate's claim row
          lock,         \* whose connection holds the candidate's advisory lock
          attempts,     \* the attempt of each run's stage and trial
          results,      \* private.production_results
          selected,     \* private.stage_selections
          auths,        \* private.reuse_authorizations
          identity,     \* of the deployed code
          pc, job,      \* each process's place and locals
          faults

vars == <<runs, claim, lock, attempts, results, selected, auths, identity, pc, job, faults>>

Stages == {"appropriateness", "usefulness"}
Keys == Runs \X Stages \X (1 .. Trials)

(* UNIQUE (run_id, stage): a result is named by its run and stage. *)
Results == Runs \X Stages
NoResult == <<NoRun, "none">>

Terminal(status) == status \in {"accepted", "rejected", "failed"}

NoClaim == [run |-> NoRun, token |-> NoProc]
NoAttempt == [status |-> "none", answer |-> FALSE, prov |-> NoResult]
NoJob == [call |-> "none", run |-> NoRun, stage |-> "appropriateness", trial |-> 1, picked |-> NoResult,
          prev |-> NoResult, prov |-> NoResult, todo |-> {}, failed |-> FALSE]
AbsentRun(i) == [kind |-> "normal", fresh |-> FALSE, identity |-> i, status |-> "absent"]

Init == /\ identity \in Identities
        /\ runs = [r \in Runs |-> AbsentRun(identity)]
        /\ claim = NoClaim
        /\ lock = NoProc
        /\ attempts = [k \in Keys |-> NoAttempt]
        /\ results = [s \in Results |-> [verdict |-> "none", prov |-> NoResult]]
        /\ selected = [s \in Stages |-> NoResult]
        /\ auths = {}
        /\ pc = [p \in Procs |-> "idle"]
        /\ job = [p \in Procs |-> NoJob]
        /\ faults = 0

------------------------------------------------------------------------------
(* What saved rows say *)

(* averageDecision, combineTrials: the mean of the trials' answers decides. *)
Decision(r, s) ==
  IF 2 * Cardinality({i \in 1 .. Trials : attempts[<<r, s, i>>].answer}) > Trials THEN "accept" ELSE "reject"

(* validateAppropriate, validateUseful: before it is used, a saved result  *)
(* is derived again from its trials and, for usefulness, their provenance. *)
Proven(s) == /\ \A i \in 1 .. Trials :
                  LET a == attempts[<<s[1], s[2], i>>] IN a.status = "valid" /\ a.prov = results[s].prov
             /\ results[s].verdict = Decision(s[1], s[2])

Matches(s, id) == s # NoResult /\ runs[s[1]].identity = id

AcceptedAny(id) == LET s == selected["appropriateness"] IN      \* mutant: any verdict permits
  Matches(s, id) /\ Proven(s)

(* preceding: the selected appropriateness result permits usefulness.      *)
Accepted(id) == LET s == selected["appropriateness"] IN
  Matches(s, id) /\ Proven(s) /\ results[s].verdict = "accept"

(* The run has an authorization of its own for an appropriateness result.  *)
Checkpoint(r) == \E a \in auths : a.run = r /\ a.result[2] = "appropriateness"

Unfenced(p) == TRUE                     \* mutant: nothing checks the claim
RunFenced(p) == claim.run = job[p].run  \* mutant: any claim of the run will do

(* assert and transaction: the row still names this claim, and the query   *)
(* runs on the connection that holds the lock.                             *)
Fenced(p) == lock = p /\ claim = [run |-> job[p].run, token |-> p]

------------------------------------------------------------------------------
(* Calls *)

Leave(p) == /\ pc' = [pc EXCEPT ![p] = "idle"]
            /\ job' = [job EXCEPT ![p] = NoJob]
            /\ lock' = IF lock = p THEN NoProc ELSE lock

Goto(p, place, locals) == /\ pc' = [pc EXCEPT ![p] = place]
                          /\ job' = [job EXCEPT ![p] = locals]

(* create *)
Create(r, kind, fresh) ==
  /\ runs[r].status = "absent"
  /\ kind = "usefulness" => Accepted(identity)
  /\ runs' = [runs EXCEPT ![r] = [kind |-> kind, fresh |-> fresh, identity |-> identity, status |-> "pending"]]
  /\ UNCHANGED <<claim, lock, attempts, results, selected, auths, identity, pc, job, faults>>

(* run and recover up to the claim: a terminal run is only inspected, and  *)
(* a run of other code is refused.                                         *)
Begin(p, r, call) ==
  /\ pc[p] = "idle"
  /\ runs[r].status \in {"pending", "paused"}
  /\ runs[r].identity = identity
  /\ Goto(p, "claim", [NoJob EXCEPT !.call = call, !.run = r])
  /\ UNCHANGED <<runs, claim, lock, attempts, results, selected, auths, identity, faults>>

ResumeOnly(r, call) ==                  \* mutant: recovery takes no claim over
  /\ ~Terminal(runs[r].status)
  /\ \/ claim.run = NoRun
     \/ claim.run = r /\ runs[r].status = "paused"

Claimable(r, call) ==
  /\ Terminal(runs[r].status) => call = "recover" /\ claim.run = r
  /\ \/ claim.run = NoRun
     \/ claim.run = r /\ (call = "recover" \/ runs[r].status = "paused")

(* claimCandidate, one transaction behind the session lock *)
Claim(p) ==
  /\ pc[p] = "claim"
  /\ lock = NoProc
  /\ Claimable(job[p].run, job[p].call)
  /\ lock' = p
  /\ claim' = [run |-> job[p].run, token |-> p]
  /\ Goto(p, IF job[p].call = "run" THEN "choose" ELSE "list", job[p])
  /\ UNCHANGED <<runs, attempts, results, selected, auths, identity, faults>>

(* candidate_busy, run_completed, candidate_recovery_required *)
ClaimRefused(p) ==
  /\ pc[p] = "claim"
  /\ lock # NoProc \/ ~Claimable(job[p].run, job[p].call)
  /\ Leave(p)
  /\ UNCHANGED <<runs, claim, attempts, results, selected, auths, identity, faults>>

(* completeProduction: status and claim change together, with whatever the *)
(* caller adds to the transaction.                                         *)
Complete(p, status, keep) ==
  /\ Fenced(p)
  /\ runs' = [runs EXCEPT ![job[p].run].status = status]
  /\ claim' = IF keep THEN claim ELSE NoClaim

------------------------------------------------------------------------------
(* run: choosing between a saved result and new trials *)

Gated(r) == runs[r].kind # "usefulness"         \* the run judges appropriateness itself

ReuseFirst(r) == LET s == selected["appropriateness"] IN
  Matches(s, runs[r].identity) /\ (~runs[r].fresh \/ Checkpoint(r))

(* appropriateness_not_current *)
Superseded(r) == Checkpoint(r) /\ ~Matches(selected["appropriateness"], runs[r].identity)

ChooseSaved(p) == LET r == job[p].run IN
  /\ pc[p] = "choose"
  /\ ~Superseded(r)
  /\ Gated(r) /\ ReuseFirst(r) /\ Proven(selected["appropriateness"])
  /\ Goto(p, "reuse", [job[p] EXCEPT !.picked = selected["appropriateness"]])
  /\ UNCHANGED <<runs, claim, lock, attempts, results, selected, auths, identity, faults>>

ChooseTrials(p) == LET r == job[p].run IN
  /\ pc[p] = "choose"
  /\ ~Superseded(r)
  /\ Gated(r) /\ ~ReuseFirst(r)
  /\ Goto(p, "trial", job[p])
  /\ UNCHANGED <<runs, claim, lock, attempts, results, selected, auths, identity, faults>>

SkipGate(p) ==
  /\ pc[p] = "choose"
  /\ ~Superseded(job[p].run)
  /\ ~Gated(job[p].run)
  /\ Goto(p, "preceding", job[p])
  /\ UNCHANGED <<runs, claim, lock, attempts, results, selected, auths, identity, faults>>

LatestProvenance(r) == selected["appropriateness"]      \* mutant: forgets the first attempt's

(* The first usefulness attempt fixes the provenance of all of them.       *)
Provenance(r) == LET first == attempts[<<r, "usefulness", 1>>] IN
  IF first.status = "none" THEN selected["appropriateness"] ELSE first.prov

SavedUseful(r) == LET s == selected["usefulness"] IN ~runs[r].fresh /\ Matches(s, runs[r].identity)

UsefulnessSaved(p) == LET r == job[p].run IN
  /\ pc[p] = "preceding"
  /\ Accepted(runs[r].identity)
  /\ SavedUseful(r) /\ Proven(selected["usefulness"])
  /\ Goto(p, "reuse", [job[p] EXCEPT !.stage = "usefulness", !.prev = selected["appropriateness"],
                                     !.picked = selected["usefulness"]])
  /\ UNCHANGED <<runs, claim, lock, attempts, results, selected, auths, identity, faults>>

UsefulnessTrials(p) == LET r == job[p].run IN
  /\ pc[p] = "preceding"
  /\ Accepted(runs[r].identity)
  /\ ~SavedUseful(r)
  /\ Goto(p, "trial", [job[p] EXCEPT !.stage = "usefulness", !.trial = 1, !.prev = selected["appropriateness"],
                                     !.prov = Provenance(r)])
  /\ UNCHANGED <<runs, claim, lock, attempts, results, selected, auths, identity, faults>>

(* The end of a gate, in one transaction with its authorization: a normal  *)
(* run that passed the first goes on to the second and keeps its claim.    *)
Status(verdict) == IF verdict = "accept" THEN "accepted" ELSE "rejected"

Conclude(p, result, verdict) == LET j == job[p] IN
  /\ auths' = auths \cup {[run |-> j.run, result |-> result, app |-> j.prev]}
  /\ IF runs[j.run].kind = "normal" /\ j.stage = "appropriateness" /\ verdict = "accept"
     THEN /\ Complete(p, "pending", TRUE)
          /\ Goto(p, "preceding", j)
          /\ UNCHANGED lock
     ELSE Complete(p, Status(verdict), FALSE) /\ Leave(p)

Reuse(p) ==
  /\ pc[p] = "reuse"
  /\ Conclude(p, job[p].picked, results[job[p].picked].verdict)
  /\ UNCHANGED <<attempts, results, selected, identity, faults>>

------------------------------------------------------------------------------
(* run: trials *)

Key(p) == <<job[p].run, job[p].stage, job[p].trial>>
SetAttempt(k, status, answer) == attempts' = [attempts EXCEPT ![k].status = status, ![k].answer = answer]

(* The loop asserts ownership; productionTrial then names the attempt by   *)
(* its key, so that every call gets the same one.                          *)
BeginTrial(p) ==
  /\ pc[p] = "trial"
  /\ Fenced(p)
  /\ Goto(p, "execute", job[p])
  /\ UNCHANGED <<runs, claim, lock, attempts, results, selected, auths, identity, faults>>

CreateAttempt(p) ==
  /\ pc[p] = "execute"
  /\ attempts[Key(p)].status = "none"
  /\ attempts' = [attempts EXCEPT ![Key(p)] = [NoAttempt EXCEPT !.status = "pending", !.prov = job[p].prov]]
  /\ UNCHANGED <<runs, claim, lock, results, selected, auths, identity, pc, job, faults>>

(* beforeDispatch *)
Check(p) ==
  /\ pc[p] = "execute"
  /\ attempts[Key(p)].status = "pending"
  /\ job[p].stage = "usefulness" => Accepted(runs[job[p].run].identity)
  /\ Fenced(p)
  /\ Goto(p, "send", job[p])
  /\ UNCHANGED <<runs, claim, lock, attempts, results, selected, auths, identity, faults>>

(* A send of an attempt another process has decided meanwhile changes      *)
(* nothing here; StageExecutor says what happens to its request.           *)
Send(p) ==
  /\ pc[p] = "send"
  /\ IF attempts[Key(p)].status = "pending" THEN SetAttempt(Key(p), "sent", FALSE) ELSE UNCHANGED attempts
  /\ Goto(p, "execute", job[p])
  /\ UNCHANGED <<runs, claim, lock, results, selected, auths, identity, faults>>

(* finish: a valid outcome needs a request that left. *)
Finish(p, status, answer) ==
  /\ pc[p] = "execute"
  /\ attempts[Key(p)].status \in {"pending", "sent"}
  /\ status = "valid" => attempts[Key(p)].status = "sent"
  /\ status = "failed" => ~answer
  /\ Fenced(p)
  /\ SetAttempt(Key(p), status, answer)
  /\ UNCHANGED <<runs, claim, lock, results, selected, auths, identity, pc, job, faults>>

(* A pause may leave a request whose outcome is not accounted for, or      *)
(* permit its retry later.                                                 *)
Pause(p) ==
  /\ pc[p] = "execute"
  /\ attempts[Key(p)].status \in {"pending", "sent"}
  /\ Goto(p, "paused", job[p])
  /\ \/ UNCHANGED attempts
     \/ attempts[Key(p)].status = "sent" /\ SetAttempt(Key(p), "pending", FALSE)
  /\ UNCHANGED <<runs, claim, lock, results, selected, auths, identity, faults>>

PausedUnclaimed(p) ==                   \* mutant: a pause gives the claim up
  /\ pc[p] = "paused"
  /\ Complete(p, "paused", FALSE)
  /\ Leave(p)
  /\ UNCHANGED <<attempts, results, selected, auths, identity, faults>>

CompletePaused(p) ==
  /\ pc[p] = "paused"
  /\ Complete(p, "paused", TRUE)
  /\ Leave(p)
  /\ UNCHANGED <<attempts, results, selected, auths, identity, faults>>

FailedClaimed(p) ==                     \* mutant: a failed run keeps its claim
  /\ pc[p] = "execute"
  /\ attempts[Key(p)].status = "failed"
  /\ Complete(p, "failed", TRUE)
  /\ Leave(p)
  /\ UNCHANGED <<attempts, results, selected, auths, identity, faults>>

CompleteFailed(p) ==
  /\ pc[p] = "execute"
  /\ attempts[Key(p)].status = "failed"
  /\ Complete(p, "failed", FALSE)
  /\ Leave(p)
  /\ UNCHANGED <<attempts, results, selected, auths, identity, faults>>

TrialTooMany(p) == LET j == job[p] IN   \* mutant: the loop runs once too often
  /\ pc[p] = "execute"
  /\ attempts[Key(p)].status = "valid"
  /\ IF j.trial <= Trials THEN Goto(p, "trial", [j EXCEPT !.trial = @ + 1])
     ELSE Goto(p, IF j.stage = "appropriateness" THEN "commit" ELSE "recheck", j)
  /\ UNCHANGED <<runs, claim, lock, attempts, results, selected, auths, identity, faults>>

(* A valid trial, new or saved: on to the next or to the gate's end.       *)
NextTrial(p) == LET j == job[p] IN
  /\ pc[p] = "execute"
  /\ attempts[Key(p)].status = "valid"
  /\ IF j.trial < Trials THEN Goto(p, "trial", [j EXCEPT !.trial = @ + 1])
     ELSE Goto(p, IF j.stage = "appropriateness" THEN "commit" ELSE "recheck", j)
  /\ UNCHANGED <<runs, claim, lock, attempts, results, selected, auths, identity, faults>>

(* preceding again after the trials: appropriateness_changed *)
Recheck(p) ==
  /\ pc[p] = "recheck"
  /\ Accepted(runs[job[p].run].identity)
  /\ selected["appropriateness"] = job[p].prev
  /\ Goto(p, "commit", job[p])
  /\ UNCHANGED <<runs, claim, lock, attempts, results, selected, auths, identity, faults>>

CommitResult(p) == LET s == <<job[p].run, job[p].stage>> IN
  /\ pc[p] = "commit"
  /\ results[s].verdict = "none"
  /\ results' = [results EXCEPT ![s] = [verdict |-> Decision(s[1], s[2]), prov |-> job[p].prov]]
  /\ selected' = [selected EXCEPT ![s[2]] = s]
  /\ Conclude(p, s, Decision(s[1], s[2]))
  /\ UNCHANGED <<attempts, identity, faults>>

------------------------------------------------------------------------------
(* recover *)

ListTrials(p) ==
  /\ pc[p] = "list"
  /\ Goto(p, "recover", [job[p] EXCEPT !.todo = {k \in Keys : k[1] = job[p].run /\ attempts[k].status # "none"}])
  /\ UNCHANGED <<runs, claim, lock, attempts, results, selected, auths, identity, faults>>

(* execute without dispatch: a saved outcome is read, a request that left  *)
(* is settled from its receipts and reply, or the attempt stays pending    *)
(* with nothing in flight, since its process is gone.                      *)
RecoverTrial(p, k, status, answer) ==
  /\ pc[p] = "recover"
  /\ k \in job[p].todo
  /\ \/ <<attempts[k].status, attempts[k].answer>> = <<status, answer>>
     \/ /\ attempts[k].status \in {"pending", "sent"}
        /\ status = "valid" => attempts[k].status = "sent"
        /\ answer => status = "valid"
        /\ Fenced(p)
  /\ SetAttempt(k, status, answer)
  /\ Goto(p, "recover", [job[p] EXCEPT !.todo = @ \ {k}, !.failed = @ \/ status = "failed"])
  /\ UNCHANGED <<runs, claim, lock, results, selected, auths, identity, faults>>

CompleteRecovery(p) ==
  /\ pc[p] = "recover"
  /\ job[p].todo = {}
  /\ Complete(p, IF job[p].failed THEN "failed" ELSE "paused", FALSE)
  /\ Leave(p)
  /\ UNCHANGED <<attempts, results, selected, auths, identity, faults>>

------------------------------------------------------------------------------
(* A check throws: what the call relied on is not there any more.          *)
Owning == {"trial", "reuse", "paused", "commit"}

Refused(p) == LET r == job[p].run IN
  \/ pc[p] = "choose" /\ Superseded(r)
  \/ pc[p] = "choose" /\ Gated(r) /\ ReuseFirst(r) /\ ~Proven(selected["appropriateness"])
  \/ pc[p] = "preceding" /\ ~Accepted(runs[r].identity)
  \/ pc[p] = "preceding" /\ SavedUseful(r) /\ ~Proven(selected["usefulness"])
  \/ pc[p] = "recheck" /\ (~Accepted(runs[r].identity) \/ selected["appropriateness"] # job[p].prev)
  \/ pc[p] \in Owning /\ ~Fenced(p)
  \/ pc[p] = "commit" /\ results[<<r, job[p].stage>>].verdict # "none"
  \/ pc[p] = "execute" /\ attempts[Key(p)].status # "valid" /\ ~Fenced(p)
  \/ pc[p] = "execute" /\ attempts[Key(p)].status = "pending" /\ job[p].stage = "usefulness"
       /\ ~Accepted(runs[r].identity)
  \/ pc[p] = "recover" /\ ~Fenced(p)

Throw(p) ==
  /\ Refused(p)
  /\ Leave(p)
  /\ UNCHANGED <<runs, claim, attempts, results, selected, auths, identity, faults>>

(* A process stops, or storage or a permission fails it, anywhere.         *)
Interrupt(p) ==
  /\ pc[p] # "idle"
  /\ faults < MaxFaults
  /\ faults' = faults + 1
  /\ Leave(p)
  /\ UNCHANGED <<runs, claim, attempts, results, selected, auths, identity>>

(* PostgreSQL ends the session; the process goes on. *)
LoseLock(p) ==
  /\ Stalls
  /\ lock = p
  /\ faults < MaxFaults
  /\ faults' = faults + 1
  /\ lock' = NoProc
  /\ UNCHANGED <<runs, claim, attempts, results, selected, auths, identity, pc, job>>

(* Other code or configuration is deployed. *)
Deploy(i) ==
  /\ i # identity
  /\ faults < MaxFaults
  /\ faults' = faults + 1
  /\ identity' = i
  /\ UNCHANGED <<runs, claim, lock, attempts, results, selected, auths, pc, job>>

Step(p) ==
  \/ Claim(p) \/ ClaimRefused(p)
  \/ ChooseSaved(p) \/ ChooseTrials(p) \/ SkipGate(p)
  \/ UsefulnessSaved(p) \/ UsefulnessTrials(p) \/ Reuse(p)
  \/ BeginTrial(p) \/ CreateAttempt(p) \/ Check(p) \/ Send(p) \/ Pause(p)
  \/ \E answer \in BOOLEAN, status \in {"valid", "failed"} : Finish(p, status, answer)
  \/ CompletePaused(p) \/ CompleteFailed(p) \/ NextTrial(p) \/ Recheck(p) \/ CommitResult(p)
  \/ ListTrials(p) \/ CompleteRecovery(p)
  \/ \E k \in Keys, status \in {"pending", "valid", "failed"}, answer \in BOOLEAN : RecoverTrial(p, k, status, answer)
  \/ Throw(p)

Next ==
  \/ \E r \in Runs, kind \in Kinds, fresh \in Fresh : Create(r, kind, fresh)
  \/ \E p \in Procs, r \in Runs, call \in {"run", "recover"} : Begin(p, r, call)
  \/ \E p \in Procs : Step(p) \/ Interrupt(p) \/ LoseLock(p)
  \/ \E i \in Identities : Deploy(i)

Spec == Init /\ [][Next]_vars

------------------------------------------------------------------------------
(* Properties *)

ResultIds == Results \cup {NoResult}

(* Types of the tables and of the processes' locals. *)
TypeOK ==
  /\ runs \in [Runs -> [kind : Kinds \cup {"normal"}, fresh : BOOLEAN, identity : Identities,
                        status : {"absent", "pending", "paused", "accepted", "rejected", "failed"}]]
  /\ claim \in [run : Runs, token : Procs] \cup {NoClaim}
  /\ lock \in Procs \cup {NoProc}
  /\ attempts \in [Keys -> [status : {"none", "pending", "sent", "valid", "failed"}, answer : BOOLEAN,
                            prov : ResultIds]]
  /\ results \in [Results -> [verdict : {"none", "accept", "reject"}, prov : ResultIds]]
  /\ selected \in [Stages -> ResultIds]
  /\ auths \subseteq [run : Runs, result : Results, app : ResultIds]
  /\ identity \in Identities
  /\ pc \in [Procs -> {"idle", "claim", "choose", "preceding", "reuse", "trial", "execute", "send", "paused",
                       "recheck", "commit", "list", "recover"}]
  /\ job \in [Procs -> [call : {"none", "run", "recover"}, run : Runs \cup {NoRun}, stage : Stages,
                        trial : 1 .. Trials, picked : ResultIds, prev : ResultIds, prov : ResultIds,
                        todo : SUBSET Keys, failed : BOOLEAN]]
  /\ faults \in 0 .. MaxFaults

(* A run is accepted, rejected or failed for ever, also when a delayed     *)
(* resume read it as pending before another command completed it.          *)
FinalRuns == [][\A r \in Runs : Terminal(runs[r].status) => runs'[r] = runs[r]]_vars

(* A run that ended does not own the candidate: nothing else would ever    *)
(* free the claim for other runs.                                          *)
TerminalReleases == \A r \in Runs : Terminal(runs[r].status) => claim.run # r

(* A request that may be in the air belongs to the run that owns the       *)
(* candidate: paused ownership blocks competing paid trials.               *)
OneLiveRun == \A k \in Keys : attempts[k].status = "sent" => claim.run = k[1]

(* A saved verdict follows from the answers of all its own valid trials,   *)
(* whatever crashes and resumes they were collected over, and usefulness   *)
(* trials all judged under the preceding result that the verdict names:    *)
(* the first one freezes it, though the selection may change in between.   *)
ResultsEvidenced ==
  \A s \in Results : results[s].verdict # "none" =>
    /\ results[s].verdict = Decision(s[1], s[2])
    /\ \A i \in 1 .. Trials : LET a == attempts[<<s[1], s[2], i>>] IN
         a.status = "valid" /\ (s[2] = "usefulness" => a.prov = results[s].prov)

(* An accepted run rests on authorizations of its own: usefulness on a     *)
(* result that advances, below an accepted appropriateness result of the   *)
(* same code and, when it passed both gates, an authorization for that     *)
(* gate as well.                                                           *)
AcceptedIsAuthorized ==
  \A r \in Runs : runs[r].status = "accepted" =>
    IF runs[r].kind = "appropriateness"
    THEN \E a \in auths : a.run = r /\ a.result[2] = "appropriateness" /\ results[a.result].verdict = "accept"
    ELSE /\ \E a \in auths : /\ a.run = r
                             /\ a.result[2] = "usefulness"
                             /\ results[a.result].verdict = "accept"
                             /\ a.app # NoResult
                             /\ results[a.app].verdict = "accept"
                             /\ runs[a.app[1]].identity = runs[r].identity
         /\ runs[r].kind = "normal" => Checkpoint(r)

(* Usefulness is authorized only on the appropriateness result that is     *)
(* selected at that moment, and only while that result accepts: a process  *)
(* that outlived its claim cannot commit against a replaced selection.     *)
AuthorizedWhileSelected ==
  [][\A a \in auths' \ auths : a.app # NoResult =>
       a.app = selected["appropriateness"] /\ results[a.app].verdict = "accept"]_vars

------------------------------------------------------------------------------
(* Liveness.  A call that has begun goes on, and operators recover a run   *)
(* that owns the candidate again and again.                                *)
Fairness == /\ \A p \in Procs : WF_vars(Step(p))
            /\ \A r \in Runs : SF_vars(\E p \in Procs : Begin(p, r, "recover"))

FairSpec == Spec /\ Fairness

(* No crash or pause keeps the candidate owned by one run for ever.        *)
ClaimFreed == \A r \in Runs : claim.run = r ~> claim.run # r
=============================================================================
