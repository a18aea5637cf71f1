------------------------- MODULE ProductionRunProofs -------------------------
(***************************************************************************)
(* Theorems about the production coordinator, for any runs, processes,     *)
(* trials, deployments and faults.  Whether or not processes outlive their *)
(* locks: types, a run that ended owns no candidate and has ended for      *)
(* ever, acceptance rests on authorizations, usefulness follows the        *)
(* selection.  Where none does: a request in the air is the owner's, and   *)
(* saved verdicts are evidenced.                                           *)
(*                                                                         *)
(* The invariants come in layers, each preserved with the help of those    *)
(* before it: EndInv, Types, Authority, Order and Ownership.  A step moves *)
(* one process, so a layer's part about processes is shown for the one     *)
(* that moves; the others keep what they rely on, because tables only grow *)
(* (Grows) and only the lock's owner changes the claim and the selection.  *)
(***************************************************************************)
EXTENDS ProductionRun, TLAPS

RunStatus == {"absent", "pending", "paused", "accepted", "rejected", "failed"}

(* The fence needs the run rows to be records with a status.               *)
RunRows == runs \in [Runs -> [kind : Kinds \cup {"normal"}, fresh : BOOLEAN, identity : Identities, status : RunStatus]]

EndInv == RunRows /\ identity \in Identities /\ TerminalReleases

(* A step may end runs only under their claim, which it then gives up.     *)
Guarded == \/ UNCHANGED <<runs, claim>>
           \/ \E r \in Runs, kind \in Kinds, fresh \in BOOLEAN :
                /\ runs[r].status = "absent"
                /\ runs' = [runs EXCEPT ![r] = [kind |-> kind, fresh |-> fresh, identity |-> identity,
                                                status |-> "pending"]]
                /\ UNCHANGED claim
           \/ \E p \in Procs : /\ Claimable(job[p].run, job[p].call)
                               /\ claim' = [run |-> job[p].run, token |-> p]
                               /\ UNCHANGED runs
           \/ \E p \in Procs, status \in RunStatus, keep \in BOOLEAN :
                /\ Complete(p, status, keep)
                /\ Terminal(status) => ~keep

(* Every action is one of these, so what follows needs four cases only.    *)
LEMMA StepsAreGuarded == EndInv /\ [Next]_vars => Guarded /\ identity' \in Identities
<1> SUFFICES ASSUME EndInv, [Next]_vars
             PROVE  Guarded /\ identity' \in Identities
  OBVIOUS
<1>1. ASSUME NEW r \in Runs, NEW kind \in Kinds, NEW fresh \in Fresh, Create(r, kind, fresh)
      PROVE  Guarded /\ identity' \in Identities
  BY <1>1, ModesAssumption DEF Create, Guarded, EndInv
<1>2. ASSUME NEW p \in Procs, NEW r \in Runs, NEW call \in {"run", "recover"}, Begin(p, r, call)
      PROVE  Guarded /\ identity' \in Identities
  BY <1>2 DEF Begin, Guarded, EndInv
<1>3. ASSUME NEW p \in Procs, Step(p)
      PROVE  Guarded /\ identity' \in Identities
  <2>1. CASE Claim(p)
    BY <2>1 DEF Claim, Guarded, Goto, EndInv
  <2>2. CASE \/ ClaimRefused(p) \/ ChooseSaved(p) \/ ChooseTrials(p) \/ SkipGate(p)
             \/ UsefulnessSaved(p) \/ UsefulnessTrials(p) \/ BeginTrial(p) \/ CreateAttempt(p)
             \/ Check(p) \/ Send(p) \/ Pause(p) \/ NextTrial(p) \/ Recheck(p) \/ ListTrials(p) \/ Throw(p)
    BY <2>2 DEF ClaimRefused, ChooseSaved, ChooseTrials, SkipGate, UsefulnessSaved, UsefulnessTrials, BeginTrial,
                CreateAttempt, Check, Send, Pause, NextTrial, Recheck, ListTrials, Throw, Guarded, EndInv
  <2>3. CASE \/ \E answer \in BOOLEAN, status \in {"valid", "failed"} : Finish(p, status, answer)
             \/ \E k \in Keys, status \in {"pending", "valid", "failed"}, answer \in BOOLEAN :
                  RecoverTrial(p, k, status, answer)
    BY <2>3 DEF Finish, RecoverTrial, Guarded, EndInv
  <2>4. ASSUME NEW result, NEW verdict, Conclude(p, result, verdict)
        PROVE  Guarded
    <3>1. CASE Complete(p, "pending", TRUE)
      BY <3>1 DEF Guarded, RunStatus, Terminal
    <3>2. CASE Complete(p, Status(verdict), FALSE)
      BY <3>2 DEF Guarded, RunStatus, Status
    <3> QED
      BY <2>4, <3>1, <3>2 DEF Conclude
  <2>5. CASE Reuse(p) \/ CommitResult(p)
    BY <2>4, <2>5 DEF Reuse, CommitResult, EndInv
  <2>6. CASE CompletePaused(p)
    BY <2>6 DEF CompletePaused, Guarded, RunStatus, Terminal, EndInv
  <2>7. CASE CompleteFailed(p)
    BY <2>7 DEF CompleteFailed, Guarded, RunStatus, EndInv
  <2>8. CASE CompleteRecovery(p)
    BY <2>8 DEF CompleteRecovery, Guarded, RunStatus, EndInv
  <2> QED
    BY <1>3, <2>1, <2>2, <2>3, <2>5, <2>6, <2>7, <2>8 DEF Step
<1>4. ASSUME NEW p \in Procs, Interrupt(p) \/ LoseLock(p)
      PROVE  Guarded /\ identity' \in Identities
  BY <1>4 DEF Interrupt, LoseLock, Guarded, EndInv
<1>5. ASSUME NEW i \in Identities, Deploy(i)
      PROVE  Guarded /\ identity' \in Identities
  BY <1>5 DEF Deploy, Guarded, EndInv
<1>6. CASE UNCHANGED vars
  BY <1>6 DEF vars, Guarded, EndInv
<1> QED
  BY <1>1, <1>2, <1>3, <1>4, <1>5, <1>6 DEF Next

(* Under the invariant a claimed run has not ended, so that a fenced write *)
(* changes a run that may still change.                                    *)
LEMMA FencedIsOpen ==
  ASSUME EndInv, NEW p \in Procs, Fenced(p), job[p].run \in Runs
  PROVE  ~Terminal(runs[job[p].run].status)
BY DEF Fenced, EndInv, TerminalReleases

LEMMA EndInvInit == Init => EndInv
BY NamesAssumption DEF Init, EndInv, RunRows, RunStatus, TerminalReleases, AbsentRun, NoClaim, Terminal

LEMMA EndInvStep == EndInv /\ [Next]_vars => EndInv'
<1> SUFFICES ASSUME EndInv, [Next]_vars, Guarded, identity' \in Identities
             PROVE  EndInv'
  BY StepsAreGuarded
<1> USE DEF EndInv, RunRows, TerminalReleases
<1>1. CASE UNCHANGED <<runs, claim>>
  BY <1>1 DEF Terminal
<1>2. ASSUME NEW r \in Runs, NEW kind \in Kinds, NEW fresh \in BOOLEAN, UNCHANGED claim,
             runs' = [runs EXCEPT ![r] = [kind |-> kind, fresh |-> fresh, identity |-> identity, status |-> "pending"]]
      PROVE  EndInv'
  BY <1>2 DEF Terminal, RunStatus
<1>3. ASSUME NEW p \in Procs, Claimable(job[p].run, job[p].call), UNCHANGED runs,
             claim' = [run |-> job[p].run, token |-> p]
      PROVE  EndInv'
  BY <1>3 DEF Claimable
<1>4. ASSUME NEW p \in Procs, NEW status \in RunStatus, NEW keep \in BOOLEAN, Complete(p, status, keep),
             Terminal(status) => ~keep
      PROVE  EndInv'
  <2>1. RunRows'
    BY <1>4 DEF Complete
  <2>2. CASE keep
    BY <1>4, <2>2, <2>1 DEF Complete, Terminal
  <2>3. CASE ~keep
    BY <1>4, <2>3, <2>1, NamesAssumption DEF Complete, NoClaim
  <2> QED
    BY <2>2, <2>3
<1> QED
  BY <1>1, <1>2, <1>3, <1>4 DEF Guarded

LEMMA EndedForever == EndInv /\ [Next]_vars => \A r \in Runs : Terminal(runs[r].status) => runs'[r] = runs[r]
<1> SUFFICES ASSUME EndInv, [Next]_vars, Guarded, NEW r \in Runs, Terminal(runs[r].status)
             PROVE  runs'[r] = runs[r]
  BY StepsAreGuarded
<1>1. ASSUME NEW s \in Runs, NEW kind, NEW fresh, runs[s].status = "absent",
             runs' = [runs EXCEPT ![s] = [kind |-> kind, fresh |-> fresh, identity |-> identity, status |-> "pending"]]
      PROVE  runs'[r] = runs[r]
  BY <1>1 DEF Terminal, EndInv, RunRows
<1>2. ASSUME NEW p \in Procs, NEW status, NEW keep, Complete(p, status, keep)
      PROVE  runs'[r] = runs[r]
  BY <1>2, FencedIsOpen DEF Complete, EndInv, RunRows
<1> QED
  BY <1>1, <1>2 DEF Guarded

(* A run that ended does not own the candidate.                            *)
THEOREM EndedOwnsNothing == Spec => []TerminalReleases
<1>1. EndInv => TerminalReleases
  BY DEF EndInv
<1> QED
  BY EndInvInit, EndInvStep, <1>1, PTL DEF Spec

(* Accepted, rejected and failed runs never change again.                  *)
THEOREM EndIsFinal == Spec => FinalRuns
<1>1. EndInv /\ [Next]_vars => [\A r \in Runs : Terminal(runs[r].status) => runs'[r] = runs[r]]_vars
  BY EndedForever
<1> QED
  BY EndInvInit, EndInvStep, <1>1, PTL DEF Spec, FinalRuns

------------------------------------------------------------------------------
(* Types.  One conjunct per table, so that a step cites what it touches.   *)
Places == {"idle", "claim", "choose", "preceding", "reuse", "trial", "execute", "send", "paused",
           "recheck", "commit", "list", "recover"}
ClaimRows == [run : Runs, token : Procs] \cup {NoClaim}
AttemptRows == [status : {"none", "pending", "sent", "valid", "failed"}, answer : BOOLEAN, prov : ResultIds]
ResultRows == [verdict : {"none", "accept", "reject"}, prov : ResultIds]
Locals == [call : {"none", "run", "recover"}, run : Runs \cup {NoRun}, stage : Stages,
           trial : 1 .. Trials, picked : ResultIds, prev : ResultIds, prov : ResultIds,
           todo : SUBSET Keys, failed : BOOLEAN]

RowsTyped == /\ RunRows
             /\ claim \in ClaimRows
             /\ lock \in Procs \cup {NoProc}
             /\ identity \in Identities
             /\ faults \in 0 .. MaxFaults
SavedTyped == /\ attempts \in [Keys -> AttemptRows]
              /\ results \in [Results -> ResultRows]
              /\ selected \in [Stages -> ResultIds]
              /\ auths \subseteq [run : Runs, result : Results, app : ResultIds]
JobsTyped == pc \in [Procs -> Places] /\ job \in [Procs -> Locals]

(* A saved result belongs to a run that was created, and so does the       *)
(* claim.                                                                  *)
Saved(s) == s \in Results /\ results[s].verdict # "none"
SavedOfCreated == \A s \in Results : results[s].verdict # "none" => runs[s[1]].status # "absent"
SelectedSaved == \A st \in Stages : selected[st] # NoResult => Saved(selected[st]) /\ selected[st][2] = st
ClaimOfCreated == claim # NoClaim => runs[claim.run].status # "absent"

(* A call that has begun is about a created run, it judges appropriateness *)
(* unless it is inside the second gate, and what it picked for reuse was   *)
(* saved for the stage it judges.                                          *)
Judging == {"reuse", "trial", "execute", "send", "paused", "recheck", "commit"}
Begun(p) == /\ pc[p] # "idle" => job[p].run \in Runs /\ runs[job[p].run].status # "absent"
            /\ pc[p] \notin Judging => job[p].stage = "appropriateness"
            /\ pc[p] = "reuse" => Saved(job[p].picked) /\ job[p].picked[2] = job[p].stage

Types == /\ RowsTyped /\ SavedTyped /\ JobsTyped
         /\ SavedOfCreated /\ SelectedSaved /\ ClaimOfCreated
         /\ \A p \in Procs : Begun(p)

------------------------------------------------------------------------------
(* Authorization *)

(* What an accepted appropriateness result of the run's own code is.       *)
Advancing(s, id) == /\ Saved(s) /\ s[2] = "appropriateness"
                    /\ results[s].verdict = "accept" /\ runs[s[1]].identity = id

(* A call judges usefulness only for a run that does, after the run's own  *)
(* checkpoint if it judges both gates, and under an accepted result.       *)
GateDue(p) == LET j == job[p] IN
  /\ pc[p] \in Judging /\ j.stage = "appropriateness" => Gated(j.run)
  /\ pc[p] = "preceding" \/ j.stage = "usefulness" =>
       runs[j.run].kind # "appropriateness" /\ (runs[j.run].kind = "normal" => Checkpoint(j.run))
  /\ j.stage = "appropriateness" => j.prev = NoResult
  /\ j.stage = "usefulness" => Advancing(j.prev, runs[j.run].identity)

(* Only the claim takes the lock and only a return gives it back, so a     *)
(* process that still has it has had it, with the claim, since.  Nobody    *)
(* else selected anything meanwhile.                                       *)
Owns(p) == lock = p => /\ pc[p] \notin {"idle", "claim"}
                       /\ claim = [run |-> job[p].run, token |-> p]
                       /\ job[p].stage = "usefulness" => job[p].prev = selected["appropriateness"]

Authority == AcceptedIsAuthorized /\ \A p \in Procs : GateDue(p) /\ Owns(p)

------------------------------------------------------------------------------
(* Trials *)

Valid(r, s, i) == attempts[<<r, s, i>>].status = "valid"

(* Trials are run in their order.                                          *)
TrialsInOrder == \A r \in Runs, s \in Stages, i \in 1 .. Trials :
  attempts[<<r, s, i>>].status # "none" => \A h \in 1 .. Trials : h < i => Valid(r, s, h)
InOrder(p) == LET j == job[p] IN
  /\ pc[p] \in {"claim", "choose"} => j.trial = 1
  /\ pc[p] \in {"trial", "execute", "send", "paused"} => \A h \in 1 .. Trials : h < j.trial => Valid(j.run, j.stage, h)
  /\ pc[p] \in {"recheck", "commit"} => \A h \in 1 .. Trials : Valid(j.run, j.stage, h)
  /\ pc[p] = "recover" => \A k \in j.todo : k[1] = j.run /\ attempts[k].status # "none"
Decided == \A s \in Results : results[s].verdict # "none" =>
  results[s].verdict = Decision(s[1], s[2]) /\ \A i \in 1 .. Trials : Valid(s[1], s[2], i)

Order == TrialsInOrder /\ Decided /\ \A p \in Procs : InOrder(p)

------------------------------------------------------------------------------
(* Ownership, where a process does not outlive its lock                    *)

OneProvenance == \A r \in Runs, i \in 1 .. Trials :
  attempts[<<r, "usefulness", i>>].status # "none" =>
    attempts[<<r, "usefulness", i>>].prov = attempts[<<r, "usefulness", 1>>].prov

Sent(r, s) == \E i \in 1 .. Trials : attempts[<<r, s, i>>].status = "sent"
AppSent(r) == Sent(r, "appropriateness") => Gated(r) /\ ~ReuseFirst(r)
UseSent(r) == Sent(r, "usefulness") =>
  /\ ~SavedUseful(r)
  /\ Advancing(selected["appropriateness"], runs[r].identity)
  /\ runs[r].kind # "appropriateness"
  /\ runs[r].kind = "normal" => Checkpoint(r)

Trying == Judging \ {"reuse"}
Holds(p) == LET j == job[p] IN
  /\ pc[p] \notin {"idle", "claim"} => lock = p
  /\ pc[p] \in Trying /\ j.stage = "usefulness" /\ attempts[<<j.run, "usefulness", 1>>].status # "none" =>
       j.prov = attempts[<<j.run, "usefulness", 1>>].prov
  /\ pc[p] \in Trying /\ j.stage = "appropriateness" => ~ReuseFirst(j.run)
  /\ pc[p] \in Trying /\ j.stage = "usefulness" => ~SavedUseful(j.run)
  /\ pc[p] = "reuse" /\ j.stage = "appropriateness" => ReuseFirst(j.run) /\ j.picked = selected["appropriateness"]
  /\ pc[p] = "reuse" /\ j.stage = "usefulness" => SavedUseful(j.run)
  /\ pc[p] = "preceding" => ~Sent(j.run, "appropriateness")
  /\ pc[p] = "recover" => \A k \in Keys : attempts[k].status = "sent" => k \in j.todo

Ownership == /\ OneProvenance /\ ResultsEvidenced /\ OneLiveRun
             /\ \A r \in Runs : AppSent(r) /\ UseSent(r)
             /\ \A p \in Procs : Holds(p)

OwnershipUnlessStalled == Stalls \/ Ownership

------------------------------------------------------------------------------
(* What every step does to the tables: a created run keeps its             *)
(* instructions, a saved result and a valid trial stay as they are.        *)
Grows ==
  /\ \A r \in Runs : runs[r].status # "absent" =>
       /\ runs'[r].status # "absent"
       /\ runs'[r].kind = runs[r].kind /\ runs'[r].fresh = runs[r].fresh /\ runs'[r].identity = runs[r].identity
  /\ \A s \in Results : results[s].verdict # "none" => results'[s] = results[s]
  /\ auths \subseteq auths'
  /\ \A k \in Keys : attempts[k].status # "none" => attempts'[k].status # "none" /\ attempts'[k].prov = attempts[k].prov
  /\ \A k \in Keys : attempts[k].status = "valid" => attempts'[k] = attempts[k]

Tables == <<runs, attempts, results, selected, auths>>

LEMMA SameGrows == UNCHANGED Tables => Grows
BY DEF Tables, Grows

(* The other processes stay where they are.                                *)
Alone(p) == \A q \in Procs : q # p => pc'[q] = pc[q] /\ job'[q] = job[q]

LEMMA GotoAlone ==
  ASSUME JobsTyped, NEW p \in Procs, NEW place \in Places, NEW j \in Locals, Goto(p, place, j)
  PROVE  JobsTyped' /\ pc'[p] = place /\ job'[p] = j /\ Alone(p)
BY DEF JobsTyped, Goto, Alone

LEMMA NoJobIsLocals == NoJob \in Locals
BY TrialsAssumption DEF NoJob, Locals, Stages, ResultIds, Results, NoResult

LEMMA LeaveAlone ==
  ASSUME JobsTyped, NEW p \in Procs, Leave(p)
  PROVE  JobsTyped' /\ pc'[p] = "idle" /\ job'[p] = NoJob /\ Alone(p)
BY GotoAlone, NoJobIsLocals DEF Leave, Goto, Places

(* A process that does not move keeps what it relies on.                   *)
LEMMA BegunLater ==
  ASSUME Types, Grows, NEW p \in Procs, pc'[p] = pc[p], job'[p] = job[p]
  PROVE  Begun(p)'
BY DEF Types, SavedTyped, JobsTyped, Grows, Begun, Saved

LEMMA BegunAll ==
  ASSUME Types, Grows, NEW p \in Procs, Alone(p), Begun(p)'
  PROVE  \A q \in Procs : Begun(q)'
BY BegunLater DEF Alone

LEMMA LocalsOf ==
  ASSUME Types, NEW p \in Procs
  PROVE  /\ job[p] \in Locals /\ pc[p] \in Places
         /\ pc[p] # "idle" => job[p].run \in Runs /\ runs[job[p].run].status # "absent"
         /\ pc[p] \notin Judging => job[p].stage = "appropriateness"
         /\ pc[p] = "reuse" => job[p].picked \in Results /\ job[p].picked[2] = job[p].stage
BY DEF Types, JobsTyped, Begun, Saved

(* A call that moves on while no table changes.                            *)
LEMMA Moves ==
  ASSUME Types, NEW p \in Procs, NEW place \in Places, NEW j \in Locals, Goto(p, place, j),
         UNCHANGED <<runs, results, selected, auths, identity>>, attempts' \in [Keys -> AttemptRows], Grows,
         claim' \in ClaimRows, ClaimOfCreated',
         lock' \in Procs \cup {NoProc}, faults' \in 0 .. MaxFaults,
         place # "idle" => j.run \in Runs /\ runs[j.run].status # "absent",
         place \notin Judging => j.stage = "appropriateness",
         place = "reuse" => Saved(j.picked) /\ j.picked[2] = j.stage
  PROVE  Types'
<1>1. RowsTyped'
  BY DEF Types, RowsTyped, RunRows, ClaimRows
<1>2. SavedTyped'
  BY DEF Types, SavedTyped
<1>3. SavedOfCreated' /\ SelectedSaved'
  BY DEF Types, SavedOfCreated, SelectedSaved, Saved
<1>4. JobsTyped' /\ pc'[p] = place /\ job'[p] = j /\ Alone(p)
  BY GotoAlone DEF Types
<1>5. Begun(p)'
  BY <1>4 DEF Begun, Saved
<1> QED
  BY <1>1, <1>2, <1>3, <1>4, <1>5, BegunAll DEF Types

(* A call that ends a run's part, under its fence.                         *)
LEMMA Completes ==
  ASSUME Types, NEW p \in Procs, pc[p] # "idle", NEW status \in RunStatus, status # "absent", NEW keep \in BOOLEAN,
         Complete(p, status, keep)
  PROVE  /\ RowsTyped' \/ ~(lock' \in Procs \cup {NoProc} /\ UNCHANGED <<identity, faults>>)
         /\ ClaimOfCreated'
         /\ \A r \in Runs : /\ runs'[r].kind = runs[r].kind /\ runs'[r].fresh = runs[r].fresh
                            /\ runs'[r].identity = runs[r].identity
                            /\ runs[r].status # "absent" => runs'[r].status # "absent"
         /\ \A r \in Runs : r # job[p].run => runs'[r] = runs[r]
         /\ runs'[job[p].run].status = status
<1> USE LocalsOf DEF Types, RowsTyped, RunRows
<1>1. runs' \in [Runs -> [kind : Kinds \cup {"normal"}, fresh : BOOLEAN, identity : Identities, status : RunStatus]]
  BY DEF Complete
<1>2. claim' \in ClaimRows /\ (claim' = claim \/ claim' = NoClaim)
  BY DEF Complete, ClaimRows
<1>3. \A r \in Runs : /\ runs'[r].kind = runs[r].kind /\ runs'[r].fresh = runs[r].fresh
                      /\ runs'[r].identity = runs[r].identity
                      /\ runs[r].status # "absent" => runs'[r].status # "absent"
  BY DEF Complete
<1>4. ClaimOfCreated'
  BY <1>2, <1>3 DEF ClaimOfCreated, ClaimRows
<1> QED
  BY <1>1, <1>2, <1>3, <1>4 DEF Complete

LEMMA AcceptedSaved ==
  ASSUME Types, NEW id, Accepted(id)
  PROVE  Advancing(selected["appropriateness"], id)
BY DEF Types, SelectedSaved, Accepted, Matches, Advancing, Stages

LEMMA SelectedType ==
  ASSUME Types, NEW st \in Stages
  PROVE  /\ selected[st] \in ResultIds
         /\ selected[st] # NoResult => Saved(selected[st]) /\ selected[st][2] = st
BY DEF Types, SavedTyped, SelectedSaved

LEMMA AttemptChanges ==
  ASSUME Types, NEW k \in Keys, NEW a \in AttemptRows, attempts' = [attempts EXCEPT ![k] = a],
         attempts[k].status # "none" => a.status # "none" /\ a.prov = attempts[k].prov,
         attempts[k].status = "valid" => a = attempts[k],
         UNCHANGED <<runs, results, selected, auths>>
  PROVE  Grows /\ attempts' \in [Keys -> AttemptRows] /\ attempts'[k] = a
                /\ \A l \in Keys : l # k => attempts'[l] = attempts[l]
BY DEF Types, SavedTyped, Grows

LEMMA SetAttemptChanges ==
  ASSUME Types, NEW k \in Keys, NEW status \in {"pending", "sent", "valid", "failed"}, NEW answer \in BOOLEAN,
         SetAttempt(k, status, answer), attempts[k].status # "valid" \/ <<status, answer>> = <<"valid", attempts[k].answer>>,
         UNCHANGED <<runs, results, selected, auths>>
  PROVE  /\ Grows /\ attempts' \in [Keys -> AttemptRows]
         /\ attempts'[k] = [status |-> status, answer |-> answer, prov |-> attempts[k].prov]
         /\ \A l \in Keys : l # k => attempts'[l] = attempts[l]
<1> DEFINE a == [status |-> status, answer |-> answer, prov |-> attempts[k].prov]
<1>1. attempts[k] \in AttemptRows
  BY DEF Types, SavedTyped
<1>2. a \in AttemptRows /\ (attempts[k].status = "valid" => a = attempts[k])
  BY <1>1 DEF AttemptRows
<1>3. attempts' = [attempts EXCEPT ![k] = a]
  <2>1. DOMAIN attempts = Keys
    BY DEF Types, SavedTyped
  <2>2. DOMAIN attempts' = Keys /\ \A l \in Keys : l # k => attempts'[l] = attempts[l]
    BY <2>1 DEF SetAttempt
  <2>3. attempts'[k] = [[attempts[k] EXCEPT !.status = status] EXCEPT !.answer = answer]
    BY <2>1 DEF SetAttempt
  <2>4. attempts'[k] = a
    BY <1>1, <2>3 DEF AttemptRows
  <2>5. attempts' = [l \in Keys |-> attempts'[l]]
    BY <2>1, <2>2 DEF SetAttempt
  <2> QED
    BY <2>1, <2>2, <2>4, <2>5
<1> HIDE DEF a
<1>4. a.status # "none" /\ a.prov = attempts[k].prov
  BY DEF a
<1>5. Grows /\ attempts' \in [Keys -> AttemptRows] /\ attempts'[k] = a /\ \A l \in Keys : l # k => attempts'[l] = attempts[l]
  BY <1>2, <1>3, <1>4, AttemptChanges
<1> QED
  BY <1>5 DEF a

LEMMA KeyOf ==
  ASSUME Types, NEW p \in Procs, pc[p] # "idle"
  PROVE  Key(p) \in Keys /\ Key(p)[1] = job[p].run /\ Key(p)[2] = job[p].stage /\ Key(p)[3] = job[p].trial
BY LocalsOf DEF Key, Keys, Locals

(* What a call moves on with.                                              *)
LEMMA MovedLocals ==
  ASSUME Types, NEW p \in Procs
  PROVE  /\ \A r \in Runs, call \in {"run", "recover"} : [NoJob EXCEPT !.call = call, !.run = r] \in Locals
         /\ [job[p] EXCEPT !.picked = selected["appropriateness"]] \in Locals
         /\ [job[p] EXCEPT !.stage = "usefulness", !.prev = selected["appropriateness"],
                           !.picked = selected["usefulness"]] \in Locals
         /\ \A prov \in ResultIds : [job[p] EXCEPT !.stage = "usefulness", !.trial = 1, !.prev = selected["appropriateness"],
                                                   !.prov = prov] \in Locals
         /\ job[p].trial < Trials => [job[p] EXCEPT !.trial = @ + 1] \in Locals
         /\ [job[p] EXCEPT !.todo = {k \in Keys : k[1] = job[p].run /\ attempts[k].status # "none"}] \in Locals
         /\ \A k \in Keys, status \in {"pending", "valid", "failed"} :
              [job[p] EXCEPT !.todo = @ \ {k}, !.failed = @ \/ status = "failed"] \in Locals
<1> USE TrialsAssumption
<1>1. job[p] \in Locals /\ NoJob \in Locals
  BY LocalsOf, NoJobIsLocals
<1>2. selected["appropriateness"] \in ResultIds /\ selected["usefulness"] \in ResultIds
  BY SelectedType DEF Stages
<1>3. \A r \in Runs, call \in {"run", "recover"} : [NoJob EXCEPT !.call = call, !.run = r] \in Locals
  BY <1>1 DEF Locals, NoJob
<1>4. [job[p] EXCEPT !.picked = selected["appropriateness"]] \in Locals
  BY <1>1, <1>2 DEF Locals
<1>8. [job[p] EXCEPT !.stage = "usefulness", !.prev = selected["appropriateness"],
                     !.picked = selected["usefulness"]] \in Locals
  BY <1>1, <1>2 DEF Locals, Stages
<1>9. ASSUME NEW prov \in ResultIds
      PROVE  [job[p] EXCEPT !.stage = "usefulness", !.trial = 1, !.prev = selected["appropriateness"],
                            !.prov = prov] \in Locals
  <2>1. 1 \in 1 .. Trials /\ "usefulness" \in Stages
    BY DEF Stages
  <2>2. [job[p] EXCEPT !.stage = "usefulness", !.trial = 1] \in Locals
    BY <1>1, <2>1 DEF Locals
  <2>3. [[job[p] EXCEPT !.stage = "usefulness", !.trial = 1] EXCEPT !.prev = selected["appropriateness"],
                                                                    !.prov = prov] \in Locals
    BY <1>2, <2>2 DEF Locals
  <2> QED
    BY <2>3
<1>5. job[p].trial < Trials => [job[p] EXCEPT !.trial = @ + 1] \in Locals
  BY <1>1 DEF Locals
<1>6. [job[p] EXCEPT !.todo = {k \in Keys : k[1] = job[p].run /\ attempts[k].status # "none"}] \in Locals
  BY <1>1 DEF Locals
<1>7. \A k \in Keys, status \in {"pending", "valid", "failed"} :
        [job[p] EXCEPT !.todo = @ \ {k}, !.failed = @ \/ status = "failed"] \in Locals
  BY <1>1 DEF Locals
<1> QED
  BY <1>3, <1>4, <1>5, <1>6, <1>7, <1>8, <1>9

LEMMA ConcludesTyped ==
  ASSUME Types, NEW p \in Procs, pc[p] # "idle", NEW result \in Results, NEW verdict \in {"accept", "reject"},
         Conclude(p, result, verdict), UNCHANGED <<attempts, identity, faults>>, results' \in [Results -> ResultRows],
         \A s \in Results : results[s].verdict # "none" => results'[s] = results[s],
         \A s \in Results : results'[s].verdict # "none" => results[s].verdict # "none" \/ s[1] = job[p].run,
         selected' \in [Stages -> ResultIds],
         \A st \in Stages :
           \/ selected'[st] = selected[st]
           \/ selected'[st] \in Results /\ results'[selected'[st]].verdict # "none" /\ selected'[st][2] = st
  PROVE  Types' /\ Grows
<1> USE LocalsOf DEF Types
<1>1. /\ auths' = auths \cup {[run |-> job[p].run, result |-> result, app |-> job[p].prev]}
      /\ auths' \subseteq [run : Runs, result : Results, app : ResultIds]
  BY DEF Conclude, SavedTyped, Locals
<1>2. SavedTyped'
  BY <1>1 DEF SavedTyped
<1>3. \E status \in RunStatus, keep \in BOOLEAN : status # "absent" /\ Complete(p, status, keep)
  BY DEF Conclude, RunStatus, Status
<1>4. /\ lock' \in Procs \cup {NoProc}
      /\ JobsTyped' /\ Alone(p)
      /\ \/ pc'[p] = "preceding" /\ job'[p] = job[p] /\ job[p].stage = "appropriateness"
         \/ pc'[p] = "idle" /\ job'[p] = NoJob
  <2>1. CASE Goto(p, "preceding", job[p]) /\ UNCHANGED lock /\ job[p].stage = "appropriateness"
    <3>1. job[p] \in Locals /\ "preceding" \in Places
      BY DEF Places
    <3> QED
      BY <2>1, <3>1, GotoAlone DEF RowsTyped
  <2>2. CASE Leave(p)
    <3>1. lock' \in Procs \cup {NoProc}
      BY <2>2 DEF Leave, RowsTyped
    <3> QED
      BY <2>2, <3>1, LeaveAlone
  <2> QED
    BY <2>1, <2>2 DEF Conclude
<1>5. /\ RowsTyped' /\ ClaimOfCreated'
      /\ \A r \in Runs : /\ runs'[r].kind = runs[r].kind /\ runs'[r].fresh = runs[r].fresh
                         /\ runs'[r].identity = runs[r].identity
                         /\ runs[r].status # "absent" => runs'[r].status # "absent"
  BY <1>3, <1>4, Completes
<1>6. Grows
  BY <1>1, <1>5 DEF Grows
<1>7. SavedOfCreated' /\ SelectedSaved'
  BY <1>5, <1>6 DEF SavedOfCreated, SelectedSaved, Saved, Grows, SavedTyped, ResultIds, Results
<1>8. Begun(p)'
  BY <1>4, <1>6 DEF Begun, Grows, NoJob, Judging
<1> QED
  BY <1>2, <1>4, <1>5, <1>6, <1>7, <1>8, BegunAll

LEMMA DecisionType ==
  ASSUME NEW r, NEW s
  PROVE  Decision(r, s) \in {"accept", "reject"}
BY DEF Decision

LEMMA CompletedTyped ==
  ASSUME Types, NEW p \in Procs, pc[p] # "idle", NEW status \in RunStatus, status # "absent", NEW keep \in BOOLEAN,
         Complete(p, status, keep), Leave(p), UNCHANGED <<attempts, results, selected, auths, identity, faults>>
  PROVE  Types' /\ Grows
<1> USE DEF Types
<1>1. JobsTyped' /\ pc'[p] = "idle" /\ Alone(p)
  BY LeaveAlone
<1>2. lock' \in Procs \cup {NoProc}
  BY DEF Leave, RowsTyped
<1>3. /\ RowsTyped' /\ ClaimOfCreated'
      /\ \A r \in Runs : /\ runs'[r].kind = runs[r].kind /\ runs'[r].fresh = runs[r].fresh
                         /\ runs'[r].identity = runs[r].identity
                         /\ runs[r].status # "absent" => runs'[r].status # "absent"
  BY <1>2, Completes
<1>4. Grows
  BY <1>3 DEF Grows
<1>5. SavedTyped' /\ SavedOfCreated' /\ SelectedSaved'
  BY <1>3 DEF SavedTyped, SavedOfCreated, SelectedSaved, Saved, Results
<1>6. Begun(p)'
  BY <1>1, LeaveAlone DEF Begun, NoJob
<1> QED
  BY <1>1, <1>3, <1>4, <1>5, <1>6, BegunAll

LEMMA SameClaim ==
  ASSUME Types, UNCHANGED <<runs, claim>>
  PROVE  claim' \in ClaimRows /\ ClaimOfCreated'
BY DEF Types, RowsTyped, ClaimRows, ClaimOfCreated

LEMMA LeavesTyped ==
  ASSUME Types, NEW p \in Procs, Leave(p), faults' \in 0 .. MaxFaults,
         UNCHANGED <<runs, claim, attempts, results, selected, auths, identity>>
  PROVE  Types' /\ Grows
<1>1. Goto(p, "idle", NoJob) /\ lock' \in Procs \cup {NoProc} /\ NoJob.stage = "appropriateness" /\ "idle" \in Places
  BY DEF Leave, Goto, Types, RowsTyped, NoJob, Places
<1>2. Grows /\ attempts' \in [Keys -> AttemptRows]
  BY SameGrows DEF Tables, Types, SavedTyped
<1> QED
  BY <1>1, <1>2, SameClaim, Moves, NoJobIsLocals

(* A call that only reads the tables.                                      *)
LEMMA ReadsTyped ==
  ASSUME Types, NEW p \in Procs, pc[p] # "idle", NEW place \in Places \ {"idle"}, NEW j \in Locals, Goto(p, place, j),
         UNCHANGED <<runs, claim, lock, attempts, results, selected, auths, identity, faults>>,
         j.run = job[p].run, place \notin Judging => j.stage = "appropriateness",
         place = "reuse" => Saved(j.picked) /\ j.picked[2] = j.stage
  PROVE  Types' /\ Grows
<1>1. Grows /\ attempts' \in [Keys -> AttemptRows]
  BY SameGrows DEF Tables, Types, SavedTyped
<1>2. lock' \in Procs \cup {NoProc} /\ faults' \in 0 .. MaxFaults
  BY DEF Types, RowsTyped
<1> QED
  BY <1>1, <1>2, SameClaim, LocalsOf, Moves

(* One lemma per action or group of actions.                               *)
LEMMA CreateTyped ==
  ASSUME Types, NEW r \in Runs, NEW kind \in Kinds, NEW fresh \in Fresh, Create(r, kind, fresh)
  PROVE  Types' /\ Grows
<1> USE DEF Types
<1>1. RowsTyped'
  BY ModesAssumption DEF Create, RowsTyped, RunRows, RunStatus
<1>2. Grows
  BY DEF Create, Grows, RowsTyped, RunRows
<1>3. SavedTyped' /\ JobsTyped' /\ SavedOfCreated' /\ SelectedSaved' /\ ClaimOfCreated'
  BY DEF Create, SavedTyped, JobsTyped, SavedOfCreated, SelectedSaved, ClaimOfCreated, Saved, RowsTyped, RunRows,
         Results, ClaimRows
<1>4. \A p \in Procs : Begun(p)'
  BY <1>2, BegunLater DEF Create
<1> QED
  BY <1>1, <1>2, <1>3, <1>4

LEMMA BeginTyped ==
  ASSUME Types, NEW p \in Procs, NEW r \in Runs, NEW call \in {"run", "recover"}, Begin(p, r, call)
  PROVE  Types' /\ Grows
<1> DEFINE j == [NoJob EXCEPT !.call = call, !.run = r]
<1>1. j \in Locals
  BY MovedLocals
<1>2. j.run = r /\ j.stage = "appropriateness"
  BY DEF NoJob
<1>3. Grows /\ attempts' \in [Keys -> AttemptRows] /\ lock' \in Procs \cup {NoProc} /\ faults' \in 0 .. MaxFaults
  BY SameGrows DEF Begin, Tables, Types, SavedTyped, RowsTyped
<1>4. Goto(p, "claim", j) /\ runs[r].status # "absent" /\ "claim" \in Places
  BY DEF Begin, Places
<1> HIDE DEF j
<1> QED
  BY <1>1, <1>2, <1>3, <1>4, SameClaim, Moves DEF Begin

LEMMA ClaimTyped ==
  ASSUME Types, NEW p \in Procs, Claim(p)
  PROVE  Types' /\ Grows
<1>1. Grows /\ attempts' \in [Keys -> AttemptRows]
  BY SameGrows DEF Claim, Tables, Types, SavedTyped
<1>2. PICK place \in {"choose", "list"} : Goto(p, place, job[p])
  BY DEF Claim
<1>3. claim' \in ClaimRows /\ ClaimOfCreated'
  BY LocalsOf DEF Claim, ClaimRows, ClaimOfCreated
<1>4. job[p] \in Locals /\ job[p].run \in Runs /\ runs[job[p].run].status # "absent" /\ job[p].stage = "appropriateness"
  BY LocalsOf DEF Claim, Judging
<1> QED
  BY <1>1, <1>2, <1>3, <1>4, Moves DEF Claim, Places, Types, RowsTyped

LEMMA ReadersTyped ==
  ASSUME Types, NEW p \in Procs,
         \/ ChooseSaved(p) \/ ChooseTrials(p) \/ SkipGate(p) \/ UsefulnessSaved(p) \/ UsefulnessTrials(p)
         \/ BeginTrial(p) \/ Check(p) \/ NextTrial(p) \/ Recheck(p) \/ ListTrials(p)
  PROVE  Types' /\ Grows
<1>0. job[p] \in Locals
  BY LocalsOf
<1>1. CASE ChooseTrials(p) \/ SkipGate(p) \/ BeginTrial(p) \/ Check(p) \/ Recheck(p)
  BY <1>0, <1>1, LocalsOf, ReadsTyped DEF ChooseTrials, SkipGate, BeginTrial, Check, Recheck, Places, Judging
<1>2. CASE ChooseSaved(p)
  <2> DEFINE j == [job[p] EXCEPT !.picked = selected["appropriateness"]]
  <2>1. job[p].stage = "appropriateness"
    BY <1>2, LocalsOf DEF ChooseSaved, Judging
  <2>2. Saved(selected["appropriateness"]) /\ selected["appropriateness"][2] = "appropriateness"
    BY <1>2, SelectedType DEF ChooseSaved, ReuseFirst, Matches, Stages
  <2>3. j.run = job[p].run /\ j.picked = selected["appropriateness"] /\ j.stage = job[p].stage
    BY <1>0 DEF Locals
  <2> QED
    BY <1>2, <2>1, <2>2, <2>3, MovedLocals, ReadsTyped DEF ChooseSaved, Places, Judging
<1>3. CASE UsefulnessSaved(p)
  <2> DEFINE j == [job[p] EXCEPT !.stage = "usefulness", !.prev = selected["appropriateness"],
                                 !.picked = selected["usefulness"]]
  <2>1. Saved(selected["usefulness"]) /\ selected["usefulness"][2] = "usefulness"
    BY <1>3, SelectedType DEF UsefulnessSaved, SavedUseful, Matches, Stages
  <2>2. j.run = job[p].run /\ j.picked = selected["usefulness"] /\ j.stage = "usefulness"
    BY <1>0 DEF Locals
  <2> QED
    BY <1>3, <2>1, <2>2, MovedLocals, ReadsTyped DEF UsefulnessSaved, Places, Judging
<1>4. CASE UsefulnessTrials(p)
  <2>1. Provenance(job[p].run) \in ResultIds
    BY <1>4, LocalsOf, SelectedType, TrialsAssumption
    DEF UsefulnessTrials, Provenance, Stages, Types, SavedTyped, AttemptRows, Keys
  <2> DEFINE j == [job[p] EXCEPT !.stage = "usefulness", !.trial = 1, !.prev = selected["appropriateness"],
                                 !.prov = Provenance(job[p].run)]
  <2>2. j.run = job[p].run
    BY <1>0 DEF Locals
  <2> QED
    BY <1>4, <2>1, <2>2, MovedLocals, ReadsTyped DEF UsefulnessTrials, Places, Judging
<1>5. CASE NextTrial(p)
  <2>1. CASE job[p].trial < Trials
    <3> DEFINE j == [job[p] EXCEPT !.trial = @ + 1]
    <3>1. j.run = job[p].run
      BY <1>0 DEF Locals
    <3> QED
      BY <1>5, <2>1, <3>1, MovedLocals, ReadsTyped DEF NextTrial, Places, Judging
  <2>2. CASE ~(job[p].trial < Trials)
    BY <1>0, <1>5, <2>2, ReadsTyped DEF NextTrial, Places, Judging
  <2> QED
    BY <2>1, <2>2
<1>6. CASE ListTrials(p)
  <2> DEFINE j == [job[p] EXCEPT !.todo = {k \in Keys : k[1] = job[p].run /\ attempts[k].status # "none"}]
  <2>1. j.run = job[p].run /\ j.stage = "appropriateness"
    BY <1>0, <1>6, LocalsOf DEF Locals, ListTrials, Judging
  <2> QED
    BY <1>6, <2>1, MovedLocals, ReadsTyped DEF ListTrials, Places
<1> QED
  BY <1>1, <1>2, <1>3, <1>4, <1>5, <1>6

LEMMA AttemptsTyped ==
  ASSUME Types, NEW p \in Procs, pc[p] # "idle", Grows, attempts' \in [Keys -> AttemptRows],
         UNCHANGED <<runs, claim, lock, results, selected, auths, identity, faults>>,
         NEW place \in Judging \ {"reuse"}, Goto(p, place, job[p]) \/ UNCHANGED <<pc, job>>
  PROVE  Types'
<1>1. claim' \in ClaimRows /\ ClaimOfCreated' /\ lock' \in Procs \cup {NoProc} /\ faults' \in 0 .. MaxFaults
  BY SameClaim DEF Types, RowsTyped
<1>2. CASE Goto(p, place, job[p])
  BY <1>1, <1>2, LocalsOf, Moves DEF Judging, Places
<1>3. CASE UNCHANGED <<pc, job>>
  <2>1. \A q \in Procs : Begun(q)'
    BY <1>3, BegunLater
  <2>2. RowsTyped' /\ SavedTyped' /\ JobsTyped' /\ SavedOfCreated' /\ SelectedSaved'
    BY <1>3 DEF Types, RowsTyped, RunRows, SavedTyped, JobsTyped, SavedOfCreated, SelectedSaved, Saved
  <2> QED
    BY <1>1, <2>1, <2>2 DEF Types
<1> QED
  BY <1>2, <1>3

LEMMA CreateAttemptEffect ==
  ASSUME Types, NEW p \in Procs, CreateAttempt(p)
  PROVE  /\ Grows /\ attempts' \in [Keys -> AttemptRows]
         /\ attempts'[Key(p)].status = "pending" /\ attempts'[Key(p)].prov = job[p].prov
         /\ \A l \in Keys : l # Key(p) => attempts'[l] = attempts[l]
<1> DEFINE a == [NoAttempt EXCEPT !.status = "pending", !.prov = job[p].prov]
<1>0. NoAttempt \in AttemptRows
  BY DEF NoAttempt, AttemptRows, ResultIds
<1>1. a.status = "pending" /\ a.prov = job[p].prov
  BY <1>0 DEF AttemptRows
<1>2. a \in AttemptRows /\ Key(p) \in Keys
  BY <1>0, LocalsOf, KeyOf DEF CreateAttempt, Locals, AttemptRows
<1>3. attempts' = [attempts EXCEPT ![Key(p)] = a] /\ attempts[Key(p)].status = "none"
      /\ UNCHANGED <<runs, results, selected, auths>>
  BY DEF CreateAttempt
<1> HIDE DEF a
<1> QED
  BY <1>1, <1>2, <1>3, AttemptChanges

(* A call sets the attempt of the key it works on, and no valid one.       *)
Set(k, status, answer) ==
  /\ k \in Keys /\ Grows /\ attempts' \in [Keys -> AttemptRows]
  /\ attempts'[k] = [status |-> status, answer |-> answer, prov |-> attempts[k].prov]
  /\ \A l \in Keys : l # k => attempts'[l] = attempts[l]

LEMMA SendEffect ==
  ASSUME Types, NEW p \in Procs, Send(p)
  PROVE  \/ attempts[Key(p)].status = "pending" /\ Set(Key(p), "sent", FALSE)
         \/ UNCHANGED attempts /\ Grows
<1>1. Key(p) \in Keys
  BY KeyOf DEF Send
<1>2. CASE attempts[Key(p)].status = "pending"
  <2>1. SetAttempt(Key(p), "sent", FALSE) /\ UNCHANGED <<runs, results, selected, auths>>
    BY <1>2 DEF Send
  <2>2. attempts[Key(p)].status # "valid"
    BY <1>2
  <2> QED
    BY <1>1, <1>2, <2>1, <2>2, SetAttemptChanges DEF Set
<1>3. CASE attempts[Key(p)].status # "pending"
  BY <1>3, SameGrows DEF Send, Tables
<1> QED
  BY <1>2, <1>3

LEMMA FinishEffect ==
  ASSUME Types, NEW p \in Procs, NEW answer \in BOOLEAN, NEW status \in {"valid", "failed"}, Finish(p, status, answer)
  PROVE  Set(Key(p), status, answer)
<1>1. Key(p) \in Keys
  BY KeyOf DEF Finish
<1>2. SetAttempt(Key(p), status, answer) /\ UNCHANGED <<runs, results, selected, auths>>
  BY DEF Finish
<1>3. attempts[Key(p)].status # "valid"
  BY DEF Finish
<1> QED
  BY <1>1, <1>2, <1>3, SetAttemptChanges DEF Set

LEMMA PauseEffect ==
  ASSUME Types, NEW p \in Procs, Pause(p)
  PROVE  \/ attempts[Key(p)].status = "sent" /\ Set(Key(p), "pending", FALSE)
         \/ UNCHANGED attempts /\ Grows
<1>1. Key(p) \in Keys
  BY KeyOf DEF Pause
<1>2. CASE attempts[Key(p)].status = "sent" /\ SetAttempt(Key(p), "pending", FALSE)
  <2>1. attempts[Key(p)].status # "valid" /\ UNCHANGED <<runs, results, selected, auths>>
    BY <1>2 DEF Pause
  <2> QED
    BY <1>1, <1>2, <2>1, SetAttemptChanges DEF Set
<1>3. CASE UNCHANGED attempts
  BY <1>3, SameGrows DEF Pause, Tables
<1> QED
  BY <1>2, <1>3 DEF Pause

LEMMA RecoverTrialEffect ==
  ASSUME Types, NEW p \in Procs, NEW k \in Keys, NEW status \in {"pending", "valid", "failed"}, NEW answer \in BOOLEAN,
         RecoverTrial(p, k, status, answer)
  PROVE  Set(k, status, answer)
<1>1. SetAttempt(k, status, answer) /\ UNCHANGED <<runs, results, selected, auths>>
  BY DEF RecoverTrial
<1>2. attempts[k].status # "valid" \/ <<status, answer>> = <<"valid", attempts[k].answer>>
  BY DEF RecoverTrial
<1> QED
  BY <1>1, <1>2, SetAttemptChanges DEF Set

LEMMA AttemptActionsTyped ==
  ASSUME Types, NEW p \in Procs,
         \/ CreateAttempt(p) \/ Send(p) \/ Pause(p)
         \/ \E answer \in BOOLEAN, status \in {"valid", "failed"} : Finish(p, status, answer)
  PROVE  Types' /\ Grows
<1>0. attempts \in [Keys -> AttemptRows]
  BY DEF Types, SavedTyped
<1>1. CASE CreateAttempt(p)
  BY <1>1, CreateAttemptEffect, AttemptsTyped DEF CreateAttempt, Judging
<1>2. CASE Send(p)
  <2>1. Grows /\ attempts' \in [Keys -> AttemptRows]
    BY <1>0, <1>2, SendEffect DEF Set
  <2> QED
    BY <1>2, <2>1, AttemptsTyped DEF Send, Judging
<1>3. CASE Pause(p)
  <2>1. Grows /\ attempts' \in [Keys -> AttemptRows]
    BY <1>0, <1>3, PauseEffect DEF Set
  <2> QED
    BY <1>3, <2>1, AttemptsTyped DEF Pause, Judging
<1>4. ASSUME NEW answer \in BOOLEAN, NEW status \in {"valid", "failed"}, Finish(p, status, answer)
      PROVE  Types' /\ Grows
  BY <1>4, FinishEffect, AttemptsTyped DEF Finish, Judging, Set
<1> QED
  BY <1>1, <1>2, <1>3, <1>4

LEMMA RecoverTrialTyped ==
  ASSUME Types, NEW p \in Procs, NEW k \in Keys, NEW status \in {"pending", "valid", "failed"}, NEW answer \in BOOLEAN,
         RecoverTrial(p, k, status, answer)
  PROVE  Types' /\ Grows
<1> DEFINE j == [job[p] EXCEPT !.todo = @ \ {k}, !.failed = @ \/ status = "failed"]
<1>1. Grows /\ attempts' \in [Keys -> AttemptRows]
  BY RecoverTrialEffect DEF Set
<1>2. j \in Locals
  BY MovedLocals
<1>3. j.run = job[p].run /\ j.stage = "appropriateness"
  BY LocalsOf DEF RecoverTrial, Judging, Locals
<1>4. Goto(p, "recover", j) /\ UNCHANGED <<runs, claim, lock, results, selected, auths, identity, faults>> /\ pc[p] # "idle"
  BY DEF RecoverTrial
<1>5. claim' \in ClaimRows /\ ClaimOfCreated' /\ lock' \in Procs \cup {NoProc} /\ faults' \in 0 .. MaxFaults
  BY <1>4, SameClaim DEF Types, RowsTyped
<1>6. job[p].run \in Runs /\ runs[job[p].run].status # "absent" /\ "recover" \in Places
  BY <1>4, LocalsOf DEF Places
<1> HIDE DEF j
<1> QED
  BY <1>1, <1>2, <1>3, <1>4, <1>5, <1>6, Moves

LEMMA ConcludingTyped ==
  ASSUME Types, NEW p \in Procs, Reuse(p) \/ CommitResult(p)
  PROVE  Types' /\ Grows
<1>1. CASE Reuse(p)
  <2>1. pc[p] # "idle" /\ job[p].picked \in Results /\ results[job[p].picked].verdict \in {"accept", "reject"}
    BY <1>1 DEF Reuse, Types, Begun, Saved, SavedTyped, ResultRows
  <2>2. /\ results' \in [Results -> ResultRows]
        /\ \A s \in Results : results[s].verdict # "none" => results'[s] = results[s]
        /\ \A s \in Results : results'[s].verdict # "none" => results[s].verdict # "none" \/ s[1] = job[p].run
        /\ selected' \in [Stages -> ResultIds] /\ \A st \in Stages : selected'[st] = selected[st]
    BY <1>1 DEF Reuse, Types, SavedTyped
  <2> QED
    BY <1>1, <2>1, <2>2, ConcludesTyped DEF Reuse
<1>2. CASE CommitResult(p)
  <2> DEFINE s == <<job[p].run, job[p].stage>>
             v == Decision(s[1], s[2])
  <2>1. s \in Results /\ s[1] = job[p].run /\ s[2] = job[p].stage /\ job[p].stage \in Stages
    BY <1>2, LocalsOf DEF CommitResult, Results, Locals
  <2>2. v \in {"accept", "reject"}
    BY DecisionType
  <2>3. pc[p] # "idle" /\ Conclude(p, s, v) /\ UNCHANGED <<attempts, identity, faults>> /\ results[s].verdict = "none"
        /\ results' = [results EXCEPT ![s] = [verdict |-> v, prov |-> job[p].prov]]
        /\ selected' = [selected EXCEPT ![s[2]] = s]
    BY <1>2 DEF CommitResult
  <2> HIDE DEF s, v
  <2>4. /\ results' \in [Results -> ResultRows]
        /\ \A t \in Results : results[t].verdict # "none" => results'[t] = results[t]
        /\ \A t \in Results : results'[t].verdict # "none" => results[t].verdict # "none" \/ t[1] = job[p].run
        /\ results'[s].verdict # "none"
    BY <2>1, <2>2, <2>3, LocalsOf DEF Types, SavedTyped, ResultRows, Locals
  <2>5. /\ selected' \in [Stages -> ResultIds]
        /\ \A st \in Stages :
             \/ selected'[st] = selected[st]
             \/ selected'[st] \in Results /\ results'[selected'[st]].verdict # "none" /\ selected'[st][2] = st
    BY <2>1, <2>3, <2>4 DEF Types, SavedTyped, ResultIds
  <2> QED
    BY <2>1, <2>2, <2>3, <2>4, <2>5, ConcludesTyped
<1> QED
  BY <1>1, <1>2

LEMMA TypesStep == Types /\ [Next]_vars => Types' /\ Grows
<1> SUFFICES ASSUME Types, [Next]_vars
             PROVE  Types' /\ Grows
  OBVIOUS
<1>1. ASSUME NEW p \in Procs, Step(p)
      PROVE  Types' /\ Grows
  <2>1. CASE ClaimRefused(p) \/ Throw(p)
    BY <2>1, LeavesTyped DEF ClaimRefused, Throw, Types, RowsTyped
  <2>2. CASE CompletePaused(p)
    BY <2>2, CompletedTyped DEF CompletePaused, RunStatus
  <2>3. CASE CompleteFailed(p)
    BY <2>3, CompletedTyped DEF CompleteFailed, RunStatus
  <2>4. CASE CompleteRecovery(p)
    BY <2>4, CompletedTyped DEF CompleteRecovery, RunStatus
  <2> QED
    BY <1>1, <2>1, <2>2, <2>3, <2>4, ClaimTyped, ReadersTyped, AttemptActionsTyped, RecoverTrialTyped, ConcludingTyped
    DEF Step
<1>2. ASSUME NEW p \in Procs, Interrupt(p)
      PROVE  Types' /\ Grows
  BY <1>2, LeavesTyped, MaxFaultsAssumption DEF Interrupt, Types, RowsTyped
<1>3. CASE UNCHANGED <<runs, claim, attempts, results, selected, auths, pc, job>> /\ lock' \in Procs \cup {NoProc}
           /\ identity' \in Identities /\ faults' \in 0 .. MaxFaults
  <2>1. Grows
    BY <1>3, SameGrows DEF Tables
  <2>2. \A p \in Procs : Begun(p)'
    BY <1>3, <2>1, BegunLater
  <2>3. RowsTyped' /\ SavedTyped' /\ JobsTyped' /\ SavedOfCreated' /\ SelectedSaved' /\ ClaimOfCreated'
    BY <1>3 DEF Types, RowsTyped, RunRows, SavedTyped, JobsTyped, SavedOfCreated, SelectedSaved, ClaimOfCreated, Saved
  <2> QED
    BY <2>1, <2>2, <2>3 DEF Types
<1>4. ASSUME NEW p \in Procs, LoseLock(p)
      PROVE  Types' /\ Grows
  BY <1>3, <1>4, MaxFaultsAssumption DEF LoseLock, Types, RowsTyped
<1>5. ASSUME NEW i \in Identities, Deploy(i)
      PROVE  Types' /\ Grows
  BY <1>3, <1>5, MaxFaultsAssumption DEF Deploy, Types, RowsTyped
<1>6. CASE UNCHANGED vars
  BY <1>3, <1>6 DEF vars, Types, RowsTyped
<1> QED
  BY <1>1, <1>2, <1>4, <1>5, <1>6, CreateTyped, BeginTyped DEF Next

LEMMA TypesInit == Init => Types
<1> SUFFICES ASSUME Init
             PROVE  Types
  OBVIOUS
<1>1. RowsTyped
  BY MaxFaultsAssumption DEF Init, RowsTyped, RunRows, RunStatus, AbsentRun, ClaimRows
<1>2. SavedTyped
  BY DEF Init, SavedTyped, AttemptRows, ResultRows, ResultIds, NoAttempt
<1>3. JobsTyped
  BY NoJobIsLocals DEF Init, JobsTyped, Places
<1>4. SavedOfCreated /\ SelectedSaved /\ ClaimOfCreated
  BY DEF Init, SavedOfCreated, SelectedSaved, ClaimOfCreated
<1>5. \A p \in Procs : Begun(p)
  BY DEF Init, Begun, NoJob
<1> QED
  BY <1>1, <1>2, <1>3, <1>4, <1>5 DEF Types

(* The tables and the calls' locals have their types: in particular every  *)
(* saved, selected and authorized result is one of a run that was created, *)
(* whatever is deployed, interrupted or stalled in between.                *)
THEOREM ProductionTypes == Spec => []TypeOK
<1>1. Types => TypeOK
  BY DEF Types, RowsTyped, SavedTyped, JobsTyped, TypeOK, RunRows, RunStatus, ClaimRows, AttemptRows, ResultRows,
         Locals, Places
<1> QED
  BY TypesInit, TypesStep, <1>1, PTL DEF Spec

------------------------------------------------------------------------------
(* Authorization *)

LEMMA AdvancingLater ==
  ASSUME Types, Grows, NEW s, NEW r \in Runs, runs[r].status # "absent", Advancing(s, runs[r].identity)
  PROVE  Advancing(s, runs[r].identity)'
BY DEF Types, SavedOfCreated, Grows, Advancing, Saved, Results

LEMMA CheckpointLater ==
  ASSUME Grows, NEW r, Checkpoint(r)
  PROVE  Checkpoint(r)'
BY DEF Grows, Checkpoint

AuthorizedRun(r) ==
  IF runs[r].kind = "appropriateness"
  THEN \E a \in auths : a.run = r /\ a.result[2] = "appropriateness" /\ results[a.result].verdict = "accept"
  ELSE /\ \E a \in auths : /\ a.run = r
                           /\ a.result[2] = "usefulness"
                           /\ results[a.result].verdict = "accept"
                           /\ a.app # NoResult
                           /\ results[a.app].verdict = "accept"
                           /\ runs[a.app[1]].identity = runs[r].identity
       /\ runs[r].kind = "normal" => Checkpoint(r)

LEMMA AuthorizedLater ==
  ASSUME Types, Grows, NEW r \in Runs, runs[r].status # "absent", AuthorizedRun(r)
  PROVE  AuthorizedRun(r)'
<1>1. runs'[r].kind = runs[r].kind /\ runs'[r].identity = runs[r].identity /\ auths \subseteq auths'
  BY DEF Grows
<1>2. \A a \in auths : a.result \in Results /\ a.app \in ResultIds
  BY DEF Types, SavedTyped
<1>3. \A s \in Results : results[s].verdict = "accept" =>
        results'[s].verdict = "accept" /\ runs'[s[1]].identity = runs[s[1]].identity
  BY DEF Grows, Types, SavedOfCreated, Results
<1>4. CASE runs[r].kind = "appropriateness"
  BY <1>1, <1>2, <1>3, <1>4 DEF AuthorizedRun
<1>5. CASE runs[r].kind # "appropriateness"
  <2>1. runs[r].kind = "normal" => Checkpoint(r)'
    BY <1>5, CheckpointLater DEF AuthorizedRun
  <2>2. PICK a \in auths : /\ a.run = r
                           /\ a.result[2] = "usefulness"
                           /\ results[a.result].verdict = "accept"
                           /\ a.app # NoResult
                           /\ results[a.app].verdict = "accept"
                           /\ runs[a.app[1]].identity = runs[r].identity
    BY <1>5 DEF AuthorizedRun
  <2>3. a.app \in Results /\ a.result \in Results
    BY <1>2, <2>2 DEF ResultIds
  <2>4. /\ a \in auths' /\ results'[a.result].verdict = "accept" /\ results'[a.app].verdict = "accept"
        /\ runs'[a.app[1]].identity = runs'[r].identity
    BY <1>1, <1>3, <2>2, <2>3
  <2> QED
    BY <1>1, <1>5, <2>1, <2>2, <2>4 DEF AuthorizedRun
<1> QED
  BY <1>4, <1>5

LEMMA AcceptedLater ==
  ASSUME Types, Grows, AcceptedIsAuthorized,
         \A r \in Runs : runs'[r].status = "accepted" => runs[r].status = "accepted" \/ AuthorizedRun(r)'
  PROVE  AcceptedIsAuthorized'
<1> SUFFICES ASSUME NEW r \in Runs, runs'[r].status = "accepted"
             PROVE  AuthorizedRun(r)'
  BY DEF AcceptedIsAuthorized, AuthorizedRun
<1>1. CASE runs[r].status = "accepted"
  <2>1. AuthorizedRun(r)
    BY <1>1 DEF AcceptedIsAuthorized, AuthorizedRun
  <2> QED
    BY <1>1, <2>1, AuthorizedLater
<1> QED
  BY <1>1

(* The call goes on about the same run, stage and preceding result.        *)
LEMMA GateDueMove ==
  ASSUME Types, Grows, NEW p \in Procs, GateDue(p),
         job'[p].run = job[p].run, job'[p].stage = job[p].stage, job'[p].prev = job[p].prev,
         pc'[p] \in Judging => job[p].stage = "usefulness" \/ pc[p] \in Judging
                               \/ (pc[p] # "idle" /\ Gated(job[p].run)),
         pc'[p] = "preceding" => pc[p] = "preceding"
  PROVE  GateDue(p)'
<1>1. CASE pc[p] = "idle"
  BY <1>1, LocalsOf DEF GateDue, Judging
<1>2. CASE pc[p] # "idle"
  <2>1. /\ job[p].run \in Runs /\ runs[job[p].run].status # "absent"
        /\ runs'[job[p].run].kind = runs[job[p].run].kind
    BY <1>2, LocalsOf DEF Grows
  <2>2. pc'[p] \in Judging /\ job[p].stage = "appropriateness" => Gated(job[p].run)'
    BY <2>1 DEF GateDue, Gated
  <2>3. pc'[p] = "preceding" \/ job[p].stage = "usefulness" =>
          /\ runs'[job[p].run].kind # "appropriateness"
          /\ runs'[job[p].run].kind = "normal" => Checkpoint(job[p].run)'
    <3>1. Checkpoint(job[p].run) => Checkpoint(job[p].run)'
      BY CheckpointLater
    <3> QED
      BY <2>1, <3>1 DEF GateDue
  <2>4. job[p].stage = "usefulness" => Advancing(job[p].prev, runs[job[p].run].identity)'
    <3>1. job[p].stage = "usefulness" => Advancing(job[p].prev, runs[job[p].run].identity)
      BY DEF GateDue
    <3> QED
      BY <2>1, <3>1, AdvancingLater DEF Grows, Advancing, Saved
  <2> QED
    BY <2>1, <2>2, <2>3, <2>4 DEF GateDue, Gated, Checkpoint, Advancing, Saved
<1> QED
  BY <1>1, <1>2

LEMMA GateDueIdle ==
  ASSUME NEW p \in Procs, pc'[p] \in {"idle", "claim"}, job'[p].stage = "appropriateness", job'[p].prev = NoResult
  PROVE  GateDue(p)'
BY DEF GateDue, Judging

(* What a step of p leaves to the others: their places and locals, and     *)
(* unless p has or takes the lock, the claim and the selection.            *)
Apart(p) == /\ Alone(p)
            /\ lock' = lock \/ lock' = NoProc \/ lock' = p
            /\ lock = p \/ lock' = p \/ UNCHANGED <<claim, selected>>
            /\ lock' = p => lock \in {p, NoProc}

Due(p) == GateDue(p) /\ Owns(p)

LEMMA OthersKeep ==
  ASSUME Types, Grows, Authority, NEW p \in Procs, Apart(p), NEW q \in Procs, q # p
  PROVE  Due(q)'
<1>1. pc'[q] = pc[q] /\ job'[q] = job[q]
  BY DEF Apart, Alone
<1>2. GateDue(q)'
  BY <1>1, GateDueMove DEF Authority
<1>3. Owns(q)'
  BY <1>1, NamesAssumption DEF Authority, Owns, Apart, Types, RowsTyped
<1> QED
  BY <1>2, <1>3 DEF Due

LEMMA AuthorityAfter ==
  ASSUME Types, Grows, Authority, NEW p \in Procs, Apart(p), Due(p)',
         \A r \in Runs : runs'[r].status = "accepted" => runs[r].status = "accepted" \/ AuthorizedRun(r)'
  PROVE  Authority'
<1>1. AcceptedIsAuthorized'
  BY AcceptedLater DEF Authority
<1>2. \A q \in Procs : Due(q)'
  BY OthersKeep
<1> QED
  BY <1>1, <1>2 DEF Authority, Due

LEMMA AuthorityLeave ==
  ASSUME Types, Grows, Authority, NEW p \in Procs, Leave(p),
         UNCHANGED selected, lock = p \/ UNCHANGED claim,
         \A r \in Runs : runs'[r].status = "accepted" => runs[r].status = "accepted" \/ AuthorizedRun(r)'
  PROVE  Authority'
<1>1. pc'[p] = "idle" /\ job'[p] = NoJob /\ Alone(p)
  BY LeaveAlone DEF Types
<1>2. Apart(p)
  BY <1>1, NamesAssumption DEF Apart, Leave
<1>3. Due(p)'
  BY <1>1, GateDueIdle, NamesAssumption DEF Due, Owns, Leave, NoJob
<1> QED
  BY <1>2, <1>3, AuthorityAfter

(* A call that goes on about the same run and stage and writes attempts at *)
(* most.                                                                   *)
LEMMA AuthorityMove ==
  ASSUME Types, Grows, Authority, NEW p \in Procs, pc[p] \notin {"idle", "claim"},
         NEW place \in Places \ {"idle", "claim"}, NEW j \in Locals, Goto(p, place, j) \/ (UNCHANGED <<pc, job>> /\ job[p] = j),
         UNCHANGED <<runs, claim, lock, selected>>,
         j.run = job[p].run, j.stage = job[p].stage, j.prev = job[p].prev,
         place \in Judging => job[p].stage = "usefulness" \/ pc[p] \in Judging \/ Gated(job[p].run),
         place = "preceding" => pc[p] = "preceding"
  PROVE  Authority'
<1>1. Alone(p) /\ job'[p] = j /\ (pc'[p] = place \/ pc'[p] = pc[p])
  BY GotoAlone DEF Types, Alone
<1>2. Apart(p)
  BY <1>1 DEF Apart
<1>3. GateDue(p)'
  BY <1>1, GateDueMove DEF Authority
<1>4. Owns(p)'
  BY <1>1 DEF Authority, Owns
<1> QED
  BY <1>2, <1>3, <1>4, AuthorityAfter DEF Due

LEMMA AuthorityReaders ==
  ASSUME Types, Grows, Authority, NEW p \in Procs,
         \/ ChooseSaved(p) \/ ChooseTrials(p)
         \/ BeginTrial(p) \/ Check(p) \/ NextTrial(p) \/ Recheck(p) \/ ListTrials(p)
  PROVE  Authority'
<1>0. job[p] \in Locals
  BY LocalsOf
<1>1. CASE ChooseTrials(p) \/ BeginTrial(p) \/ Check(p) \/ Recheck(p)
  BY <1>0, <1>1, AuthorityMove DEF ChooseTrials, BeginTrial, Check, Recheck, Places, Judging
<1>2. CASE ChooseSaved(p)
  <2> DEFINE j == [job[p] EXCEPT !.picked = selected["appropriateness"]]
  <2>1. j.run = job[p].run /\ j.prev = job[p].prev /\ j.stage = job[p].stage
    BY <1>0 DEF Locals
  <2>2. /\ j \in Locals /\ Goto(p, "reuse", j) /\ pc[p] = "choose" /\ Gated(job[p].run)
        /\ UNCHANGED <<runs, claim, lock, selected>>
    BY <1>2, MovedLocals DEF ChooseSaved
  <2> HIDE DEF j
  <2> QED
    BY <2>1, <2>2, AuthorityMove DEF Places, Judging
<1>3. CASE NextTrial(p)
  <2>1. CASE job[p].trial < Trials
    <3> DEFINE j == [job[p] EXCEPT !.trial = @ + 1]
    <3>1. j.run = job[p].run /\ j.prev = job[p].prev /\ j.stage = job[p].stage
      BY <1>0 DEF Locals
    <3>2. /\ j \in Locals /\ Goto(p, "trial", j) /\ pc[p] = "execute" /\ UNCHANGED <<runs, claim, lock, selected>>
      BY <1>3, <2>1, MovedLocals DEF NextTrial
    <3> HIDE DEF j
    <3> QED
      BY <3>1, <3>2, AuthorityMove DEF Places, Judging
  <2>2. CASE ~(job[p].trial < Trials)
    BY <1>0, <1>3, <2>2, AuthorityMove DEF NextTrial, Places, Judging
  <2> QED
    BY <2>1, <2>2
<1>4. CASE ListTrials(p)
  <2> DEFINE j == [job[p] EXCEPT !.todo = {k \in Keys : k[1] = job[p].run /\ attempts[k].status # "none"}]
  <2>1. j.run = job[p].run /\ j.prev = job[p].prev /\ j.stage = job[p].stage
    BY <1>0 DEF Locals
  <2>2. j \in Locals /\ Goto(p, "recover", j) /\ pc[p] = "list" /\ UNCHANGED <<runs, claim, lock, selected>>
    BY <1>4, MovedLocals DEF ListTrials
  <2> HIDE DEF j
  <2> QED
    BY <2>1, <2>2, AuthorityMove DEF Places, Judging
<1> QED
  BY <1>1, <1>2, <1>3, <1>4

LEMMA AuthorityAttempts ==
  ASSUME Types, Grows, Authority, NEW p \in Procs,
         \/ CreateAttempt(p) \/ Send(p) \/ Pause(p)
         \/ \E answer \in BOOLEAN, status \in {"valid", "failed"} : Finish(p, status, answer)
  PROVE  Authority'
<1>1. /\ UNCHANGED <<runs, claim, lock, selected>> /\ pc[p] \in Judging /\ pc[p] \notin {"idle", "claim"}
      /\ \/ UNCHANGED <<pc, job>>
         \/ Goto(p, "execute", job[p])
         \/ Goto(p, "paused", job[p])
  BY DEF CreateAttempt, Send, Pause, Finish, Judging
<1> QED
  BY <1>1, LocalsOf, AuthorityMove DEF Places, Judging

LEMMA AuthorityRecoverTrial ==
  ASSUME Types, Grows, Authority, NEW p \in Procs, NEW k \in Keys, NEW status \in {"pending", "valid", "failed"},
         NEW answer \in BOOLEAN, RecoverTrial(p, k, status, answer)
  PROVE  Authority'
<1> DEFINE j == [job[p] EXCEPT !.todo = @ \ {k}, !.failed = @ \/ status = "failed"]
<1>1. j \in Locals
  BY MovedLocals
<1>2. j.run = job[p].run /\ j.prev = job[p].prev /\ j.stage = job[p].stage
  BY LocalsOf DEF Locals
<1>3. Goto(p, "recover", j) /\ UNCHANGED <<runs, claim, lock, selected>> /\ pc[p] = "recover"
  BY DEF RecoverTrial
<1> HIDE DEF j
<1> QED
  BY <1>1, <1>2, <1>3, AuthorityMove DEF Places, Judging

(* Usefulness is judged under the result that is selected and accepts.     *)
LEMMA AuthorityUsefulness ==
  ASSUME Types, Grows, Authority, NEW p \in Procs, UsefulnessSaved(p) \/ UsefulnessTrials(p)
  PROVE  Authority'
<1>1. /\ pc[p] = "preceding" /\ Accepted(runs[job[p].run].identity)
      /\ UNCHANGED <<runs, claim, lock, results, selected, auths>>
  BY DEF UsefulnessSaved, UsefulnessTrials
<1>2. Advancing(selected["appropriateness"], runs[job[p].run].identity)
  BY <1>1, AcceptedSaved
<1>3. /\ Alone(p) /\ pc'[p] \in {"reuse", "trial"}
      /\ job'[p].run = job[p].run /\ job'[p].stage = "usefulness" /\ job'[p].prev = selected["appropriateness"]
  <2>1. CASE UsefulnessSaved(p)
    <3> DEFINE j == [job[p] EXCEPT !.stage = "usefulness", !.prev = selected["appropriateness"],
                                   !.picked = selected["usefulness"]]
    <3>1. j \in Locals /\ j.run = job[p].run /\ j.stage = "usefulness" /\ j.prev = selected["appropriateness"]
      BY MovedLocals, LocalsOf DEF Locals
    <3> QED
      BY <2>1, <3>1, GotoAlone DEF UsefulnessSaved, Places, Types
  <2>2. CASE UsefulnessTrials(p)
    <3> DEFINE j == [job[p] EXCEPT !.stage = "usefulness", !.trial = 1, !.prev = selected["appropriateness"],
                                   !.prov = Provenance(job[p].run)]
    <3>1. Provenance(job[p].run) \in ResultIds
      BY <1>1, LocalsOf, SelectedType, TrialsAssumption
      DEF Provenance, Stages, Types, SavedTyped, AttemptRows, Keys
    <3>2. j \in Locals
      BY <3>1, MovedLocals
    <3>3. j.run = job[p].run /\ j.stage = "usefulness" /\ j.prev = selected["appropriateness"]
      BY LocalsOf DEF Locals
    <3> QED
      BY <2>2, <3>2, <3>3, GotoAlone DEF UsefulnessTrials, Places, Types
  <2> QED
    BY <2>1, <2>2
<1>4. Apart(p)
  BY <1>1, <1>3 DEF Apart
<1>5. GateDue(p)'
  BY <1>1, <1>2, <1>3 DEF Authority, GateDue, Advancing, Saved, Checkpoint
<1>6. Owns(p)'
  BY <1>1, <1>3 DEF Authority, Owns
<1> QED
  BY <1>1, <1>4, <1>5, <1>6, AuthorityAfter DEF Due

LEMMA AuthoritySkipGate ==
  ASSUME Types, Grows, Authority, NEW p \in Procs, SkipGate(p), ModesAssumption
  PROVE  Authority'
<1>1. pc[p] = "choose" /\ runs[job[p].run].kind = "usefulness" /\ Goto(p, "preceding", job[p])
      /\ UNCHANGED <<runs, claim, lock, results, selected, auths>>
  BY DEF SkipGate, Gated
<1>2. job[p] \in Locals /\ job[p].stage = "appropriateness"
  BY <1>1, LocalsOf DEF Judging
<1>3. Alone(p) /\ pc'[p] = "preceding" /\ job'[p] = job[p]
  BY <1>1, <1>2, GotoAlone DEF Places, Types
<1>4. Apart(p) /\ Owns(p)'
  BY <1>1, <1>3 DEF Apart, Authority, Owns
<1>5. GateDue(p)'
  BY <1>1, <1>2, <1>3 DEF GateDue, Authority, Judging
<1> QED
  BY <1>1, <1>4, <1>5, AuthorityAfter DEF Due

(* Whoever concludes a gate is the owner; an accepted run gets what it     *)
(* rests on in the same transaction.                                       *)
LEMMA AuthorityConclude ==
  ASSUME Types, Types', Grows, Authority, NEW p \in Procs, pc[p] \in {"reuse", "commit"}, NEW result \in Results,
         NEW verdict \in {"accept", "reject"}, Conclude(p, result, verdict), result[2] = job[p].stage,
         results'[result].verdict = verdict,
         \A st \in Stages : st # job[p].stage => selected'[st] = selected[st]
  PROVE  Authority'
<1>0. job[p] \in Locals /\ job[p].run \in Runs /\ runs[job[p].run].status # "absent" /\ GateDue(p) /\ Owns(p)
  BY LocalsOf DEF Authority
<1> PICK j \in Locals : j = job[p]
  BY <1>0
<1> DEFINE a == [run |-> j.run, result |-> result, app |-> j.prev]
<1>1. Fenced(p) /\ lock = p
  BY DEF Conclude, Complete, Fenced
<1>2. /\ j.run \in Runs /\ j.stage \in Stages /\ runs[j.run].status # "absent"
      /\ GateDue(p) /\ Owns(p)
  BY <1>0 DEF Locals
<1>3. a \in auths' /\ a.run = j.run /\ a.result = result /\ a.app = j.prev
  BY DEF Conclude
<1>4. /\ runs'[j.run].kind = runs[j.run].kind /\ runs'[j.run].identity = runs[j.run].identity
  BY <1>2 DEF Grows
<1>5. \A r \in Runs : r # j.run => runs'[r] = runs[r]
  BY DEF Conclude, Complete, Types, RowsTyped, RunRows
<1> HIDE DEF a
<1>6. runs'[j.run].status = "accepted" => AuthorizedRun(j.run)'
  <2> SUFFICES ASSUME runs'[j.run].status = "accepted"
               PROVE  AuthorizedRun(j.run)'
    OBVIOUS
  <2>1. /\ verdict = "accept"
        /\ ~(runs[j.run].kind = "normal" /\ j.stage = "appropriateness")
    BY <1>2 DEF Conclude, Complete, Status, Types, RowsTyped, RunRows
  <2>2. CASE j.stage = "appropriateness"
    <3>1. runs[j.run].kind = "appropriateness"
      BY <1>2, <2>1, <2>2, ModesAssumption DEF GateDue, Judging, Gated, Types, RowsTyped, RunRows
    <3> QED
      BY <1>3, <1>4, <2>1, <2>2, <3>1 DEF AuthorizedRun
  <2>3. CASE j.stage = "usefulness"
    <3>1. runs[j.run].kind # "appropriateness" /\ (runs[j.run].kind = "normal" => Checkpoint(j.run)')
      BY <1>2, <2>3, CheckpointLater DEF GateDue
    <3>2. Advancing(j.prev, runs[j.run].identity)'
      <4>1. Advancing(j.prev, runs[j.run].identity)
        BY <1>2, <2>3 DEF GateDue
      <4> QED
        BY <1>2, <1>4, <4>1, AdvancingLater DEF Advancing, Saved
    <3>3. j.prev # NoResult /\ results'[j.prev].verdict = "accept" /\ runs'[j.prev[1]].identity = runs'[j.run].identity
      BY <1>2, <1>4, <3>2, NamesAssumption DEF Advancing, Saved, NoResult, Results
    <3> QED
      BY <1>3, <1>4, <2>1, <2>3, <3>1, <3>3 DEF AuthorizedRun
  <2> QED
    BY <1>2, <2>2, <2>3 DEF Stages
<1>7. \A r \in Runs : runs'[r].status = "accepted" => runs[r].status = "accepted" \/ AuthorizedRun(r)'
  BY <1>5, <1>6
<1>8. CASE Leave(p)
  <2>1. pc'[p] = "idle" /\ job'[p] = NoJob /\ Alone(p)
    BY <1>8, LeaveAlone DEF Types
  <2>2. Apart(p) /\ lock' = NoProc
    BY <1>1, <1>8, <2>1, NamesAssumption DEF Apart, Leave
  <2>3. Due(p)'
    BY <2>1, <2>2, GateDueIdle, NamesAssumption DEF Due, Owns, NoJob
  <2> QED
    BY <1>7, <2>2, <2>3, AuthorityAfter
<1>9. CASE /\ runs[j.run].kind = "normal" /\ j.stage = "appropriateness" /\ Complete(p, "pending", TRUE)
           /\ Goto(p, "preceding", j) /\ UNCHANGED lock
  <2>1. pc'[p] = "preceding" /\ job'[p] = j /\ Alone(p)
    BY <1>2, <1>9, GotoAlone DEF Types, Places
  <2>2. Apart(p)
    BY <1>1, <1>9, <2>1 DEF Apart
  <2>3. Checkpoint(j.run)'
    BY <1>3, <1>9 DEF Checkpoint
  <2>4. GateDue(p)'
    BY <1>2, <1>4, <1>9, <2>1, <2>3 DEF GateDue, Checkpoint, Judging
  <2>5. Owns(p)'
    BY <1>2, <1>9, <2>1 DEF Owns, Complete
  <2> QED
    BY <1>7, <2>2, <2>4, <2>5, AuthorityAfter DEF Due
<1> QED
  BY <1>8, <1>9 DEF Conclude

LEMMA CommitResultEffect ==
  ASSUME Types, NEW p \in Procs, CommitResult(p)
  PROVE  LET s == <<job[p].run, job[p].stage>> IN
         /\ s \in Results /\ results[s].verdict = "none"
         /\ Decision(s[1], s[2]) \in {"accept", "reject"}
         /\ results' = [results EXCEPT ![s] = [verdict |-> Decision(s[1], s[2]), prov |-> job[p].prov]]
         /\ selected' = [selected EXCEPT ![job[p].stage] = s]
         /\ results'[s].verdict = Decision(s[1], s[2])
         /\ \A st \in Stages : st # job[p].stage => selected'[st] = selected[st]
<1>1. job[p].run \in Runs /\ job[p].stage \in Stages
  BY LocalsOf DEF CommitResult, Locals
<1> QED
  BY <1>1, DecisionType DEF CommitResult, Results, Types, SavedTyped

LEMMA AuthorityConcluding ==
  ASSUME Types, Types', Grows, Authority, NEW p \in Procs, Reuse(p) \/ CommitResult(p)
  PROVE  Authority'
<1>1. CASE Reuse(p)
  <2>1. /\ job[p].picked \in Results /\ results[job[p].picked].verdict \in {"accept", "reject"}
        /\ job[p].picked[2] = job[p].stage
    BY <1>1 DEF Reuse, Types, Begun, Saved, SavedTyped, ResultRows
  <2> QED
    BY <1>1, <2>1, AuthorityConclude DEF Reuse
<1>2. CASE CommitResult(p)
  <2> DEFINE s == <<job[p].run, job[p].stage>>
  <2>1. s \in Results /\ s[2] = job[p].stage /\ Decision(s[1], s[2]) \in {"accept", "reject"}
        /\ results'[s].verdict = Decision(s[1], s[2])
        /\ \A st \in Stages : st # job[p].stage => selected'[st] = selected[st]
    BY <1>2, CommitResultEffect
  <2>2. Conclude(p, s, Decision(s[1], s[2])) /\ pc[p] = "commit"
    BY <1>2 DEF CommitResult
  <2> HIDE DEF s
  <2> QED
    BY <2>1, <2>2, AuthorityConclude
<1> QED
  BY <1>1, <1>2

LEMMA AuthorityStep == Types /\ Types' /\ Grows /\ Authority /\ [Next]_vars => Authority'
<1> SUFFICES ASSUME Types, Types', Grows, Authority, [Next]_vars
             PROVE  Authority'
  OBVIOUS
<1>1. ASSUME NEW p \in Procs, Step(p)
      PROVE  Authority'
  <2>1. CASE ClaimRefused(p) \/ Throw(p)
    BY <2>1, AuthorityLeave DEF ClaimRefused, Throw
  <2>2. CASE CompletePaused(p) \/ CompleteFailed(p) \/ CompleteRecovery(p)
    <3>1. /\ Leave(p) /\ UNCHANGED selected /\ lock = p
          /\ \A r \in Runs : runs'[r].status = "accepted" => runs[r].status = "accepted"
      BY <2>2 DEF CompletePaused, CompleteFailed, CompleteRecovery, Complete, Fenced, Types, RowsTyped, RunRows
    <3> QED
      BY <3>1, AuthorityLeave
  <2>3. CASE Claim(p)
    <3>1. PICK place \in {"choose", "list"} : Goto(p, place, job[p])
      BY <2>3 DEF Claim
    <3>2. pc'[p] \in {"choose", "list"} /\ job'[p] = job[p] /\ Alone(p)
      BY <3>1, LocalsOf, GotoAlone DEF Types, Places
    <3>3. pc[p] = "claim" /\ job[p].stage = "appropriateness"
      BY <2>3, LocalsOf DEF Claim, Judging
    <3>4. Apart(p) /\ Owns(p)'
      BY <2>3, <3>2, <3>3 DEF Claim, Apart, Owns
    <3>5. GateDue(p)'
      BY <3>2, <3>3, GateDueMove DEF Authority, Judging
    <3> QED
      BY <2>3, <3>4, <3>5, AuthorityAfter DEF Due, Claim
  <2> QED
    BY <1>1, <2>1, <2>2, <2>3, AuthorityReaders, AuthoritySkipGate, ModesAssumption, AuthorityUsefulness,
       AuthorityAttempts, AuthorityRecoverTrial, AuthorityConcluding DEF Step
<1>2. ASSUME NEW p \in Procs, Interrupt(p)
      PROVE  Authority'
  BY <1>2, AuthorityLeave DEF Interrupt
<1>3. ASSUME NEW p \in Procs, NEW r \in Runs, NEW call \in {"run", "recover"}, Begin(p, r, call)
      PROVE  Authority'
  <2> DEFINE j == [NoJob EXCEPT !.call = call, !.run = r]
  <2>1. j \in Locals /\ j.stage = "appropriateness" /\ j.prev = NoResult
    BY MovedLocals DEF NoJob
  <2>2. Goto(p, "claim", j) /\ pc[p] = "idle" /\ UNCHANGED <<runs, claim, lock, selected>>
    BY <1>3 DEF Begin
  <2> HIDE DEF j
  <2>3. pc'[p] = "claim" /\ job'[p] = j /\ Alone(p)
    BY <2>1, <2>2, GotoAlone DEF Types, Places
  <2>4. Apart(p) /\ GateDue(p)'
    BY <2>1, <2>2, <2>3, GateDueIdle DEF Apart
  <2>5. Owns(p)'
    BY <2>2 DEF Authority, Owns
  <2> QED
    BY <2>2, <2>4, <2>5, AuthorityAfter DEF Due
<1>4. CASE /\ UNCHANGED <<claim, selected, pc, job>>
           /\ lock' = lock \/ lock' = NoProc
           /\ \A r \in Runs : runs'[r].status = "accepted" => runs[r].status = "accepted"
  <2>1. AcceptedIsAuthorized'
    BY <1>4, AcceptedLater DEF Authority
  <2>2. \A p \in Procs : GateDue(p)'
    BY <1>4, GateDueMove DEF Authority
  <2>3. \A p \in Procs : Owns(p)'
    BY <1>4, NamesAssumption DEF Authority, Owns
  <2> QED
    BY <2>1, <2>2, <2>3 DEF Authority
<1>5. ASSUME NEW p \in Procs, LoseLock(p)
      PROVE  Authority'
  BY <1>4, <1>5 DEF LoseLock
<1>6. ASSUME NEW i \in Identities, Deploy(i)
      PROVE  Authority'
  BY <1>4, <1>6 DEF Deploy
<1>7. ASSUME NEW r \in Runs, NEW kind \in Kinds, NEW fresh \in Fresh, Create(r, kind, fresh)
      PROVE  Authority'
  BY <1>4, <1>7 DEF Create, Types, RowsTyped, RunRows
<1>8. CASE UNCHANGED vars
  BY <1>4, <1>8 DEF vars
<1> QED
  BY <1>1, <1>2, <1>3, <1>5, <1>6, <1>7, <1>8 DEF Next

LEMMA AuthorityInit == Init => Authority
BY NamesAssumption DEF Init, Authority, AcceptedIsAuthorized, AbsentRun, GateDue, Owns, NoJob, Judging

(* The authorization invariant holds of every state.                       *)
THEOREM ProductionAuthority == Spec => [](Types /\ Authority)
BY TypesInit, TypesStep, AuthorityInit, AuthorityStep, PTL DEF Spec

(* An accepted run rests on its own authorizations of accepting results of *)
(* its own code, also where processes outlive their locks.                 *)
THEOREM AcceptanceIsAuthorized == Spec => []AcceptedIsAuthorized
<1>1. Authority => AcceptedIsAuthorized
  BY DEF Authority
<1> QED
  BY ProductionAuthority, <1>1, PTL

(* Usefulness is authorized only under the appropriateness result selected *)
(* at that moment, while that accepts: a stalled process cannot commit     *)
(* against a selection another one replaced.                               *)
THEOREM UsefulnessFollowsSelection == Spec => AuthorizedWhileSelected
<1> DEFINE While == \A a \in auths' \ auths : a.app # NoResult =>
                      a.app = selected["appropriateness"] /\ results[a.app].verdict = "accept"
<1>1. ASSUME Types, Authority, NEW p \in Procs, NEW result, NEW verdict, pc[p] \in Judging, Conclude(p, result, verdict)
      PROVE  While
  <2> SUFFICES ASSUME NEW a \in auths' \ auths, a.app # NoResult
               PROVE  a.app = selected["appropriateness"] /\ results[a.app].verdict = "accept"
    OBVIOUS
  <2>1. a.app = job[p].prev /\ lock = p
    BY <1>1 DEF Conclude, Complete, Fenced
  <2>2. GateDue(p) /\ Owns(p) /\ job[p].stage \in Stages
    BY <1>1, LocalsOf DEF Authority, Locals
  <2>3. job[p].stage = "usefulness"
    BY <2>1, <2>2 DEF GateDue, Stages
  <2> QED
    BY <2>1, <2>2, <2>3 DEF GateDue, Owns, Advancing
<1>2. ASSUME Types, Authority, Next, NEW p \in Procs, Reuse(p) \/ CommitResult(p)
      PROVE  While
  BY <1>1, <1>2 DEF Reuse, CommitResult, Judging
<1>3. Next => UNCHANGED auths \/ \E p \in Procs : Reuse(p) \/ CommitResult(p)
  <2>1. ASSUME NEW p \in Procs, Step(p)
        PROVE  UNCHANGED auths \/ Reuse(p) \/ CommitResult(p)
    BY <2>1 DEF Step, Claim, ClaimRefused, ChooseSaved, ChooseTrials, SkipGate,
         UsefulnessSaved, UsefulnessTrials, BeginTrial, CreateAttempt, Check, Send, Pause, Finish, CompletePaused,
         CompleteFailed, NextTrial, Recheck, ListTrials, CompleteRecovery, RecoverTrial, Throw
  <2>2. ASSUME NEW p \in Procs, Interrupt(p) \/ LoseLock(p)
        PROVE  UNCHANGED auths
    BY <2>2 DEF Interrupt, LoseLock
  <2> QED
    BY <2>1, <2>2 DEF Next, Create, Begin, Deploy
<1>4. Types /\ Authority /\ [Next]_vars => [While]_vars
  BY <1>2, <1>3
<1> QED
  BY ProductionAuthority, <1>4, PTL DEF Spec, AuthorizedWhileSelected

------------------------------------------------------------------------------
(* Trials in their order *)

LEMMA KeysOf ==
  ASSUME NEW r \in Runs, NEW s \in Stages, NEW i \in 1 .. Trials
  PROVE  <<r, s, i>> \in Keys
BY DEF Keys

LEMMA DecisionSame ==
  ASSUME NEW r, NEW s, \A i \in 1 .. Trials : attempts'[<<r, s, i>>] = attempts[<<r, s, i>>]
  PROVE  Decision(r, s)' = Decision(r, s)
<1>1. {i \in 1 .. Trials : attempts'[<<r, s, i>>].answer} = {i \in 1 .. Trials : attempts[<<r, s, i>>].answer}
  OBVIOUS
<1> QED
  BY <1>1 DEF Decision

LEMMA ValidLater ==
  ASSUME Grows, NEW r \in Runs, NEW s \in Stages, NEW i \in 1 .. Trials, Valid(r, s, i)
  PROVE  Valid(r, s, i)' /\ attempts'[<<r, s, i>>] = attempts[<<r, s, i>>]
BY KeysOf DEF Grows, Valid

LEMMA InOrderLater ==
  ASSUME Types, Grows, NEW p \in Procs, InOrder(p), pc'[p] = pc[p], job'[p] = job[p]
  PROVE  InOrder(p)'
<1>1. job[p] \in Locals /\ (pc[p] # "idle" => job[p].run \in Runs)
  BY LocalsOf
<1>2. job[p].stage \in Stages /\ job[p].todo \subseteq Keys
  BY <1>1 DEF Locals
<1>3. pc[p] # "idle" => \A h \in 1 .. Trials : Valid(job[p].run, job[p].stage, h) =>
                          Valid(job[p].run, job[p].stage, h)'
  BY <1>1, <1>2, ValidLater
<1>4. \A k \in Keys : attempts[k].status # "none" => attempts'[k].status # "none"
  BY DEF Grows
<1> QED
  BY <1>2, <1>3, <1>4 DEF InOrder, Valid

LEMMA OrderAfter ==
  ASSUME Types, Grows, Order, NEW p \in Procs, Alone(p), InOrder(p)',
         \A k \in Keys : attempts'[k].status # "none" =>
           \/ attempts[k].status # "none"
           \/ k = Key(p) /\ pc[p] = "execute",
         \A s \in Results : results'[s].verdict # "none" =>
           \/ results[s].verdict # "none"
           \/ results'[s].verdict = Decision(s[1], s[2]) /\ \A i \in 1 .. Trials : Valid(s[1], s[2], i)
  PROVE  Order'
<1>1. \A q \in Procs : InOrder(q)'
  BY InOrderLater DEF Order, Alone
<1>2. TrialsInOrder'
  <2> SUFFICES ASSUME NEW r \in Runs, NEW s \in Stages, NEW i \in 1 .. Trials, attempts'[<<r, s, i>>].status # "none",
                      NEW h \in 1 .. Trials, h < i
               PROVE  Valid(r, s, h)'
    BY DEF TrialsInOrder
  <2>1. CASE attempts[<<r, s, i>>].status # "none"
    BY <2>1, ValidLater DEF Order, TrialsInOrder
  <2>2. CASE <<r, s, i>> = Key(p) /\ pc[p] = "execute"
    <3>1. r = job[p].run /\ s = job[p].stage /\ i = job[p].trial
      BY <2>2 DEF Key
    <3> QED
      BY <2>2, <3>1, ValidLater DEF Order, InOrder
  <2> QED
    BY <2>1, <2>2, KeysOf
<1>3. Decided'
  <2> SUFFICES ASSUME NEW s \in Results, results'[s].verdict # "none"
               PROVE  results'[s].verdict = Decision(s[1], s[2])' /\ \A i \in 1 .. Trials : Valid(s[1], s[2], i)'
    BY DEF Decided
  <2>1. /\ results'[s].verdict = Decision(s[1], s[2]) /\ \A i \in 1 .. Trials : Valid(s[1], s[2], i)
        /\ s[1] \in Runs /\ s[2] \in Stages
    BY DEF Order, Decided, Grows, Results
  <2>2. \A i \in 1 .. Trials : Valid(s[1], s[2], i)' /\ attempts'[<<s[1], s[2], i>>] = attempts[<<s[1], s[2], i>>]
    BY <2>1, ValidLater
  <2> QED
    BY <2>1, <2>2, DecisionSame
<1> QED
  BY <1>1, <1>2, <1>3 DEF Order

LEMMA OrderSet ==
  ASSUME Types, Grows, Order, NEW p \in Procs, pc[p] # "idle", UNCHANGED results,
         NEW place, NEW j \in Locals, Goto(p, place, j) \/ (UNCHANGED <<pc, job>> /\ pc[p] = place /\ job[p] = j),
         j.run = job[p].run, j.stage = job[p].stage, j.trial = job[p].trial, j.todo \subseteq job[p].todo,
         place = pc[p] \/ {place, pc[p]} \subseteq {"trial", "execute", "send", "paused"},
         \A k \in Keys : attempts'[k].status # "none" =>
           \/ attempts[k].status # "none"
           \/ k = Key(p) /\ pc[p] = "execute"
  PROVE  Order'
<1>1. pc'[p] = place /\ job'[p] = j /\ Alone(p)
  BY DEF Types, JobsTyped, Goto, Alone
<1>2. /\ job[p].run \in Runs /\ job[p].stage \in Stages /\ job[p].trial \in 1 .. Trials /\ job[p].todo \subseteq Keys
  BY LocalsOf DEF Locals
<1>3. \A h \in 1 .. Trials : Valid(job[p].run, job[p].stage, h) => Valid(j.run, j.stage, h)'
  BY <1>2, ValidLater DEF Valid
<1>4. \A k \in Keys : attempts[k].status # "none" => attempts'[k].status # "none"
  BY DEF Grows
<1>5. InOrder(p)
  BY DEF Order
<1>6. InOrder(p)'
  BY <1>1, <1>2, <1>3, <1>4, <1>5 DEF InOrder, Valid
<1> QED
  BY <1>1, <1>6, OrderAfter

LEMMA OrderAttempts ==
  ASSUME Types, Grows, Order, NEW p \in Procs,
         \/ CreateAttempt(p) \/ Send(p) \/ Pause(p)
         \/ \E answer \in BOOLEAN, status \in {"valid", "failed"} : Finish(p, status, answer)
         \/ \E k \in Keys, status \in {"pending", "valid", "failed"}, answer \in BOOLEAN : RecoverTrial(p, k, status, answer)
         \/ BeginTrial(p) \/ Check(p)
  PROVE  Order'
<1>0. job[p] \in Locals
  BY LocalsOf
<1>1. CASE CreateAttempt(p)
  <2>1. \A k \in Keys : attempts'[k].status # "none" => attempts[k].status # "none" \/ (k = Key(p) /\ pc[p] = "execute")
    BY <1>1, CreateAttemptEffect DEF CreateAttempt
  <2> QED
    BY <1>0, <1>1, <2>1, OrderSet DEF CreateAttempt
<1>2. CASE Send(p)
  <2>1. \A k \in Keys : attempts'[k].status # "none" => attempts[k].status # "none"
    BY <1>2, SendEffect DEF Set
  <2>2. pc[p] = "send" /\ Goto(p, "execute", job[p]) /\ UNCHANGED results
    BY <1>2 DEF Send
  <2> QED
    BY <1>0, <2>1, <2>2, OrderSet
<1>3. CASE Pause(p)
  <2>1. \A k \in Keys : attempts'[k].status # "none" => attempts[k].status # "none"
    BY <1>3, PauseEffect DEF Set
  <2>2. pc[p] = "execute" /\ Goto(p, "paused", job[p]) /\ UNCHANGED results
    BY <1>3 DEF Pause
  <2> QED
    BY <1>0, <2>1, <2>2, OrderSet
<1>4. ASSUME NEW answer \in BOOLEAN, NEW status \in {"valid", "failed"}, Finish(p, status, answer)
      PROVE  Order'
  <2>1. \A k \in Keys : attempts'[k].status # "none" => attempts[k].status # "none"
    BY <1>4, FinishEffect DEF Set, Finish
  <2>2. pc[p] = "execute" /\ UNCHANGED <<pc, job>> /\ UNCHANGED results
    BY <1>4 DEF Finish
  <2> QED
    BY <1>0, <2>1, <2>2, OrderSet
<1>5. ASSUME NEW k \in Keys, NEW status \in {"pending", "valid", "failed"}, NEW answer \in BOOLEAN,
             RecoverTrial(p, k, status, answer)
      PROVE  Order'
  <2> DEFINE j == [job[p] EXCEPT !.todo = @ \ {k}, !.failed = @ \/ status = "failed"]
  <2>1. j \in Locals
    BY MovedLocals
  <2>2. j.run = job[p].run /\ j.stage = job[p].stage /\ j.trial = job[p].trial /\ j.todo = job[p].todo \ {k}
    BY <1>0 DEF Locals
  <2>3. Goto(p, "recover", j) /\ pc[p] = "recover" /\ k \in job[p].todo /\ UNCHANGED results
    BY <1>5 DEF RecoverTrial
  <2>4. attempts[k].status # "none"
    BY <2>3 DEF Order, InOrder
  <2>5. \A l \in Keys : attempts'[l].status # "none" => attempts[l].status # "none"
    BY <1>5, <2>4, RecoverTrialEffect DEF Set
  <2> HIDE DEF j
  <2> QED
    BY <2>1, <2>2, <2>3, <2>5, OrderSet
<1>6. CASE BeginTrial(p) \/ Check(p)
  <2>1. \/ pc[p] = "trial" /\ Goto(p, "execute", job[p])
        \/ pc[p] = "execute" /\ Goto(p, "send", job[p])
    BY <1>6 DEF BeginTrial, Check
  <2>2. UNCHANGED <<attempts, results>>
    BY <1>6 DEF BeginTrial, Check
  <2> QED
    BY <1>0, <2>1, <2>2, OrderSet
<1> QED
  BY <1>1, <1>2, <1>3, <1>4, <1>5, <1>6

(* A call that goes to a place where nothing is claimed about its trials.  *)
LEMMA OrderElsewhere ==
  ASSUME Types, Grows, Order, NEW p \in Procs, Alone(p), UNCHANGED attempts,
         pc'[p] \notin {"claim", "choose", "trial", "execute", "send", "paused", "recheck", "commit", "recover"},
         \A s \in Results : results'[s].verdict # "none" =>
           \/ results[s].verdict # "none"
           \/ results'[s].verdict = Decision(s[1], s[2]) /\ \A i \in 1 .. Trials : Valid(s[1], s[2], i)
  PROVE  Order'
<1>1. InOrder(p)'
  BY DEF InOrder
<1> QED
  BY <1>1, OrderAfter

LEMMA OrderReaders ==
  ASSUME Types, Grows, Order, NEW p \in Procs,
         \/ Claim(p) \/ ChooseSaved(p) \/ ChooseTrials(p) \/ SkipGate(p) \/ UsefulnessSaved(p) \/ UsefulnessTrials(p)
         \/ NextTrial(p) \/ Recheck(p) \/ ListTrials(p)
  PROVE  Order'
<1>0. job[p] \in Locals /\ pc[p] # "idle" /\ job[p].run \in Runs /\ InOrder(p) /\ UNCHANGED <<attempts, results>>
  BY LocalsOf DEF Order, Claim, ChooseSaved, ChooseTrials, SkipGate, UsefulnessSaved, UsefulnessTrials, NextTrial, Recheck,
     ListTrials
<1> USE DEF Types, JobsTyped, Goto, Alone
<1>1. CASE Claim(p)
  <2>1. Alone(p) /\ pc'[p] \in {"choose", "list"} /\ job'[p] = job[p] /\ pc[p] = "claim"
    BY <1>1 DEF Claim
  <2>2. InOrder(p)'
    BY <1>0, <2>1 DEF InOrder
  <2> QED
    BY <1>0, <2>1, <2>2, OrderAfter
<1>2. CASE ChooseTrials(p)
  <2>1. Alone(p) /\ pc'[p] = "trial" /\ job'[p] = job[p] /\ pc[p] = "choose"
    BY <1>2 DEF ChooseTrials
  <2>2. InOrder(p)'
    BY <1>0, <2>1 DEF InOrder
  <2> QED
    BY <1>0, <2>1, <2>2, OrderAfter
<1>3. CASE ChooseSaved(p) \/ SkipGate(p) \/ UsefulnessSaved(p)
  <2>1. Alone(p) /\ pc'[p] \in {"reuse", "preceding"}
    BY <1>3 DEF ChooseSaved, SkipGate, UsefulnessSaved
  <2> QED
    BY <1>0, <2>1, OrderElsewhere
<1>4. CASE UsefulnessTrials(p)
  <2>1. Alone(p) /\ pc'[p] = "trial"
    BY <1>4 DEF UsefulnessTrials
  <2>2. job'[p].trial = 1
    BY <1>0, <1>4 DEF UsefulnessTrials, Locals
  <2>3. InOrder(p)'
    BY <2>1, <2>2 DEF InOrder
  <2> QED
    BY <1>0, <2>1, <2>3, OrderAfter
<1>5. CASE NextTrial(p)
  <2>1. Alone(p) /\ pc[p] = "execute" /\ Valid(job[p].run, job[p].stage, job[p].trial) /\ job[p].trial \in 1 .. Trials
    BY <1>0, <1>5 DEF NextTrial, Key, Valid, Locals
  <2>2. CASE job[p].trial < Trials
    <3>1. pc'[p] = "trial" /\ job'[p] = [job[p] EXCEPT !.trial = @ + 1]
      BY <1>5, <2>2 DEF NextTrial
    <3>2. job'[p].trial = job[p].trial + 1 /\ job'[p].run = job[p].run /\ job'[p].stage = job[p].stage
      BY <1>0, <3>1 DEF Locals
    <3>3. \A h \in 1 .. Trials : h < job[p].trial + 1 => Valid(job[p].run, job[p].stage, h)
      <4> SUFFICES ASSUME NEW h \in 1 .. Trials, h < job[p].trial + 1
                   PROVE  Valid(job[p].run, job[p].stage, h)
        OBVIOUS
      <4>1. h < job[p].trial \/ h = job[p].trial
        BY <2>1
      <4> QED
        BY <1>0, <2>1, <4>1 DEF InOrder
    <3>4. InOrder(p)'
      BY <1>0, <3>1, <3>2, <3>3 DEF InOrder, Valid
    <3> QED
      BY <1>0, <2>1, <3>4, OrderAfter
  <2>3. CASE ~(job[p].trial < Trials)
    <3>1. pc'[p] \in {"commit", "recheck"} /\ job'[p] = job[p]
      BY <1>5, <2>3 DEF NextTrial
    <3>2. \A h \in 1 .. Trials : Valid(job[p].run, job[p].stage, h)
      <4> SUFFICES ASSUME NEW h \in 1 .. Trials
                   PROVE  Valid(job[p].run, job[p].stage, h)
        OBVIOUS
      <4>1. h < job[p].trial \/ h = job[p].trial
        BY <2>1, <2>3, TrialsAssumption
      <4> QED
        BY <1>0, <2>1, <4>1 DEF InOrder
    <3>3. InOrder(p)'
      BY <1>0, <3>1, <3>2 DEF InOrder, Valid
    <3> QED
      BY <1>0, <2>1, <3>3, OrderAfter
  <2> QED
    BY <2>2, <2>3
<1>6. CASE Recheck(p)
  <2>1. Alone(p) /\ pc'[p] = "commit" /\ job'[p] = job[p] /\ pc[p] = "recheck"
    BY <1>6 DEF Recheck
  <2>2. InOrder(p)'
    BY <1>0, <2>1 DEF InOrder, Valid
  <2> QED
    BY <1>0, <2>1, <2>2, OrderAfter
<1>7. CASE ListTrials(p)
  <2>1. Alone(p) /\ pc'[p] = "recover"
    BY <1>7 DEF ListTrials
  <2>2. /\ job'[p].todo = {k \in Keys : k[1] = job[p].run /\ attempts[k].status # "none"}
        /\ job'[p].run = job[p].run
    BY <1>0, <1>7 DEF ListTrials, Locals
  <2>3. InOrder(p)'
    BY <1>0, <2>1, <2>2 DEF InOrder
  <2> QED
    BY <1>0, <2>1, <2>3, OrderAfter
<1> QED
  BY <1>1, <1>2, <1>3, <1>4, <1>5, <1>6, <1>7

LEMMA OrderConclude ==
  ASSUME Types, Grows, Order, NEW p \in Procs, Reuse(p) \/ CommitResult(p)
  PROVE  Order'
<1>1. Alone(p) /\ pc'[p] \in {"idle", "preceding"} /\ UNCHANGED attempts
  <2>1. Leave(p) \/ Goto(p, "preceding", job[p])
    BY DEF Reuse, CommitResult, Conclude
  <2>2. job[p] \in Locals
    BY LocalsOf
  <2> QED
    BY <2>1, <2>2, LeaveAlone, GotoAlone DEF Types, Places, Reuse, CommitResult
<1>2. CASE Reuse(p)
  BY <1>1, <1>2, OrderElsewhere DEF Reuse
<1>3. CASE CommitResult(p)
  <2> DEFINE s == <<job[p].run, job[p].stage>>
  <2>1. /\ s \in Results /\ s[1] = job[p].run /\ s[2] = job[p].stage
        /\ results'[s].verdict = Decision(s[1], s[2])
        /\ \A t \in Results : t # s => results'[t] = results[t]
    BY <1>3, CommitResultEffect DEF Types, SavedTyped
  <2>2. \A i \in 1 .. Trials : Valid(s[1], s[2], i)
    BY <1>3, <2>1 DEF Order, InOrder, CommitResult
  <2> HIDE DEF s
  <2> QED
    BY <1>1, <2>1, <2>2, OrderElsewhere
<1> QED
  BY <1>2, <1>3

LEMMA OrderStep == Types /\ Grows /\ Order /\ [Next]_vars => Order'
<1> SUFFICES ASSUME Types, Grows, Order, [Next]_vars
             PROVE  Order'
  OBVIOUS
<1>1. ASSUME NEW p \in Procs, Leave(p), UNCHANGED <<attempts, results>>
      PROVE  Order'
  BY <1>1, LeaveAlone, OrderElsewhere DEF Types
<1>2. ASSUME NEW p \in Procs, Step(p)
      PROVE  Order'
  <2>1. CASE ClaimRefused(p) \/ Throw(p) \/ CompletePaused(p) \/ CompleteFailed(p) \/ CompleteRecovery(p)
    BY <1>1, <2>1 DEF ClaimRefused, Throw, CompletePaused, CompleteFailed, CompleteRecovery
  <2> QED
    BY <1>2, <2>1, OrderAttempts, OrderReaders, OrderConclude DEF Step
<1>3. ASSUME NEW p \in Procs, NEW r \in Runs, NEW call \in {"run", "recover"}, Begin(p, r, call)
      PROVE  Order'
  <2>1. Alone(p) /\ pc'[p] = "claim" /\ job'[p] = [NoJob EXCEPT !.call = call, !.run = r]
        /\ UNCHANGED <<attempts, results>>
    BY <1>3 DEF Begin, Goto, Types, JobsTyped, Alone
  <2>2. job'[p].trial = 1
    BY <2>1 DEF NoJob
  <2>3. InOrder(p)'
    BY <2>1, <2>2 DEF InOrder
  <2> QED
    BY <2>1, <2>3, OrderAfter
<1>4. CASE UNCHANGED <<attempts, results, pc, job>>
  <2>1. \A p \in Procs : InOrder(p)'
    BY <1>4, InOrderLater DEF Order
  <2>2. TrialsInOrder'
    BY <1>4 DEF Order, TrialsInOrder, Valid
  <2>3. Decided'
    BY <1>4, DecisionSame DEF Order, Decided, Valid
  <2> QED
    BY <2>1, <2>2, <2>3 DEF Order
<1>5. ASSUME NEW p \in Procs, Interrupt(p) \/ LoseLock(p)
      PROVE  Order'
  BY <1>1, <1>4, <1>5 DEF Interrupt, LoseLock
<1> QED
  BY <1>2, <1>3, <1>4, <1>5 DEF Next, Create, Deploy, vars

LEMMA OrderInit == Init => Order
<1> SUFFICES ASSUME Init
             PROVE  Order
  OBVIOUS
<1>1. TrialsInOrder
  BY KeysOf DEF Init, TrialsInOrder, NoAttempt
<1>2. Decided /\ \A p \in Procs : InOrder(p)
  BY DEF Init, Decided, InOrder
<1> QED
  BY <1>1, <1>2 DEF Order

------------------------------------------------------------------------------
(* Ownership, where no process outlives its lock *)

Unstalled == ~Stalls /\ Types /\ Authority /\ Order /\ Ownership

Resting(p) == pc[p] \in {"idle", "claim"}

LEMMA RestingHolds ==
  ASSUME NEW p \in Procs, Resting(p)
  PROVE  Holds(p)
BY DEF Resting, Holds, Trying, Judging

(* A process past its claim is the only one.                               *)
LEMMA Sole ==
  ASSUME Unstalled, NEW p \in Procs, ~Resting(p)
  PROVE  /\ lock = p /\ claim = [run |-> job[p].run, token |-> p] /\ claim.run = job[p].run
         /\ \A q \in Procs : q # p => Resting(q)
<1>1. \A q \in Procs : ~Resting(q) => lock = q
  BY DEF Unstalled, Ownership, Holds, Resting
<1>2. lock = p /\ Owns(p)
  BY <1>1 DEF Unstalled, Authority
<1> QED
  BY <1>1, <1>2 DEF Owns

LEMMA NobodyElse ==
  ASSUME Unstalled, lock = NoProc, NEW p \in Procs
  PROVE  Resting(p)
BY NamesAssumption DEF Unstalled, Ownership, Holds, Resting

LEMMA SentIsLive ==
  ASSUME Unstalled, NEW k \in Keys, attempts[k].status = "sent"
  PROVE  k[1] \in Runs /\ claim.run = k[1] /\ runs[k[1]].status # "absent"
<1>1. k[1] \in Runs
  BY DEF Keys
<1> QED
  BY <1>1, NamesAssumption DEF Unstalled, Ownership, OneLiveRun, Types, ClaimOfCreated, NoClaim

LEMMA SentRunIsLive ==
  ASSUME Unstalled, NEW r \in Runs, NEW s \in Stages, Sent(r, s)
  PROVE  claim.run = r /\ runs[r].status # "absent"
<1> PICK i \in 1 .. Trials : attempts[<<r, s, i>>].status = "sent"
  BY DEF Sent
<1> QED
  BY KeysOf, SentIsLive

(* What a run may reuse depends on the selection and on its authorizations *)
(* only.                                                                   *)
LEMMA GateSame ==
  ASSUME Types, Grows, UNCHANGED <<selected, auths>>, NEW r \in Runs, runs[r].status # "absent"
  PROVE  /\ Gated(r)' = Gated(r) /\ ReuseFirst(r)' = ReuseFirst(r)
         /\ SavedUseful(r)' = SavedUseful(r)
<1>1. runs'[r].kind = runs[r].kind /\ runs'[r].fresh = runs[r].fresh /\ runs'[r].identity = runs[r].identity
  BY DEF Grows
<1>2. \A st \in Stages : Matches(selected[st], runs[r].identity)' = Matches(selected[st], runs[r].identity)
  <2> SUFFICES ASSUME NEW st \in Stages
               PROVE  Matches(selected[st], runs[r].identity)' = Matches(selected[st], runs[r].identity)
    OBVIOUS
  <2>1. selected[st] # NoResult => selected[st][1] \in Runs /\ runs[selected[st][1]].status # "absent"
    BY SelectedType DEF Types, SavedOfCreated, Saved, Results
  <2>2. selected[st] # NoResult => runs'[selected[st][1]].identity = runs[selected[st][1]].identity
    BY <2>1 DEF Grows
  <2> QED
    BY <1>1, <2>2 DEF Matches
<1> QED
  BY <1>1, <1>2 DEF Gated, ReuseFirst, SavedUseful, Checkpoint, Stages

LEMMA AppSentSame ==
  ASSUME Unstalled, Grows, UNCHANGED <<selected, auths>>, NEW r \in Runs,
         Sent(r, "appropriateness")' => Sent(r, "appropriateness")
  PROVE  AppSent(r)'
BY SentRunIsLive, GateSame DEF Unstalled, Ownership, AppSent, Stages

LEMMA UseSentLater ==
  ASSUME Unstalled, Grows, UNCHANGED selected, NEW r \in Runs, SavedUseful(r)' = SavedUseful(r),
         Sent(r, "usefulness")' => Sent(r, "usefulness")
  PROVE  UseSent(r)'
<1> SUFFICES ASSUME Sent(r, "usefulness")
             PROVE  UseSent(r)'
  BY DEF UseSent
<1>1. UseSent(r) /\ Types
  BY DEF Unstalled, Ownership
<1>2. runs[r].status # "absent" /\ runs'[r].kind = runs[r].kind /\ runs'[r].identity = runs[r].identity
  BY SentRunIsLive DEF Grows, Stages
<1>3. Advancing(selected["appropriateness"], runs[r].identity)
  BY <1>1 DEF UseSent
<1>4. Advancing(selected["appropriateness"], runs[r].identity)'
  BY <1>1, <1>2, <1>3, AdvancingLater DEF Advancing, Saved
<1> QED
  BY <1>1, <1>2, <1>4, CheckpointLater DEF UseSent

LEMMA EvidencedAfter ==
  ASSUME Types, Grows, Ownership, Order',
         \A s \in Results : results'[s].verdict # "none" =>
           \/ results[s].verdict # "none"
           \/ s[2] = "usefulness" => \A i \in 1 .. Trials : attempts'[<<s[1], s[2], i>>].prov = results'[s].prov
  PROVE  ResultsEvidenced'
<1> SUFFICES ASSUME NEW s \in Results, results'[s].verdict # "none"
             PROVE  /\ results'[s].verdict = Decision(s[1], s[2])'
                    /\ \A i \in 1 .. Trials :
                         /\ attempts'[<<s[1], s[2], i>>].status = "valid"
                         /\ s[2] = "usefulness" => attempts'[<<s[1], s[2], i>>].prov = results'[s].prov
  BY DEF ResultsEvidenced
<1>1. results'[s].verdict = Decision(s[1], s[2])' /\ \A i \in 1 .. Trials : attempts'[<<s[1], s[2], i>>].status = "valid"
  BY DEF Order, Decided, Valid
<1>2. CASE results[s].verdict # "none"
  <2>1. /\ s[1] \in Runs /\ s[2] \in Stages /\ results'[s] = results[s]
        /\ \A i \in 1 .. Trials : /\ attempts[<<s[1], s[2], i>>].status = "valid"
                                  /\ s[2] = "usefulness" => attempts[<<s[1], s[2], i>>].prov = results[s].prov
    BY <1>2 DEF Grows, Ownership, ResultsEvidenced, Results
  <2>2. \A i \in 1 .. Trials : attempts'[<<s[1], s[2], i>>] = attempts[<<s[1], s[2], i>>]
    BY <2>1, ValidLater DEF Valid
  <2> QED
    BY <1>1, <2>1, <2>2
<1> QED
  BY <1>1, <1>2

(* Two gates are never in the air together: a run that judges one has no   *)
(* request of the other that left.                                         *)
LEMMA AdvancingMatches ==
  ASSUME NEW s, NEW id, Advancing(s, id)
  PROVE  Matches(s, id)
BY NamesAssumption DEF Advancing, Matches, Saved, Results, NoResult

LEMMA NoUsefulnessSent ==
  ASSUME Unstalled, NEW r \in Runs, Gated(r), Sent(r, "usefulness")
  PROVE  runs[r].kind = "normal" /\ ReuseFirst(r) /\ results[selected["appropriateness"]].verdict = "accept"
<1>1. /\ Advancing(selected["appropriateness"], runs[r].identity)
      /\ runs[r].kind # "appropriateness"
      /\ runs[r].kind = "normal" => Checkpoint(r)
  BY DEF Unstalled, Ownership, UseSent
<1>2. runs[r].kind = "normal"
  BY <1>1, ModesAssumption DEF Gated, Unstalled, Types, RowsTyped, RunRows
<1>3. Matches(selected["appropriateness"], runs[r].identity)
  BY <1>1, AdvancingMatches
<1> QED
  BY <1>1, <1>2, <1>3 DEF ReuseFirst, Advancing

LEMMA NoAppropriatenessSent ==
  ASSUME Unstalled, NEW p \in Procs, pc[p] \in Judging, job[p].stage = "usefulness"
  PROVE  ~Sent(job[p].run, "appropriateness")
<1> SUFFICES ASSUME Sent(job[p].run, "appropriateness")
             PROVE  FALSE
  OBVIOUS
<1>1. job[p].run \in Runs /\ ~Resting(p)
  BY LocalsOf DEF Unstalled, Judging, Resting
<1>2. Gated(job[p].run) /\ ~ReuseFirst(job[p].run)
  BY <1>1 DEF Unstalled, Ownership, AppSent
<1>3. /\ Advancing(job[p].prev, runs[job[p].run].identity) /\ job[p].prev = selected["appropriateness"]
      /\ runs[job[p].run].kind # "appropriateness"
      /\ runs[job[p].run].kind = "normal" => Checkpoint(job[p].run)
  BY <1>1, Sole DEF Unstalled, Authority, GateDue, Owns
<1>4. runs[job[p].run].kind = "normal"
  BY <1>1, <1>2, <1>3, ModesAssumption DEF Gated, Unstalled, Types, RowsTyped, RunRows
<1> QED
  BY <1>2, <1>3, <1>4, AdvancingMatches DEF ReuseFirst

NoneSent == \A k \in Keys : attempts[k].status # "sent"

(* Requests that left are the owning run's, so one stage after the other   *)
(* shows that there are none.                                              *)
LEMMA NoneSentBy ==
  ASSUME Unstalled, NEW p \in Procs, ~Resting(p),
         ~Sent(job[p].run, "appropriateness"), ~Sent(job[p].run, "usefulness")
  PROVE  NoneSent
<1> SUFFICES ASSUME NEW k \in Keys, attempts[k].status = "sent"
             PROVE  FALSE
  BY DEF NoneSent
<1>1. k[1] = job[p].run /\ k[2] \in Stages /\ k[3] \in 1 .. Trials /\ k = <<k[1], k[2], k[3]>>
  BY Sole, SentIsLive DEF Keys
<1> QED
  BY <1>1 DEF Sent, Stages

LEMMA NoneSentFailed ==
  ASSUME Unstalled, NEW p \in Procs, pc[p] = "execute", attempts[Key(p)].status = "failed"
  PROVE  NoneSent
<1>1. /\ job[p].run \in Runs /\ job[p].stage \in Stages /\ job[p].trial \in 1 .. Trials
      /\ ~Resting(p) /\ pc[p] \in Judging
  BY LocalsOf DEF Unstalled, Locals, Resting, Judging
<1>2. ~Sent(job[p].run, job[p].stage)
  <2> SUFFICES ASSUME NEW i \in 1 .. Trials, attempts[<<job[p].run, job[p].stage, i>>].status = "sent"
               PROVE  FALSE
    BY DEF Sent
  <2>1. i < job[p].trial \/ i = job[p].trial \/ job[p].trial < i
    BY <1>1, TrialsAssumption
  <2>2. CASE i < job[p].trial
    BY <2>2 DEF Unstalled, Order, InOrder, Valid
  <2>3. CASE i = job[p].trial
    BY <2>3 DEF Key
  <2>4. CASE job[p].trial < i
    <3>1. Valid(job[p].run, job[p].stage, job[p].trial)
      BY <1>1, <2>4 DEF Unstalled, Order, TrialsInOrder
    <3> QED
      BY <3>1 DEF Valid, Key
  <2> QED
    BY <2>1, <2>2, <2>3, <2>4
<1>3. CASE job[p].stage = "appropriateness"
  <2>1. Gated(job[p].run) /\ ~ReuseFirst(job[p].run)
    BY <1>1, <1>3 DEF Unstalled, Authority, GateDue, Ownership, Holds, Trying
  <2> QED
    BY <1>1, <1>2, <1>3, <2>1, NoUsefulnessSent, NoneSentBy
<1>4. CASE job[p].stage = "usefulness"
  BY <1>1, <1>2, <1>4, NoAppropriatenessSent, NoneSentBy
<1> QED
  BY <1>1, <1>3, <1>4 DEF Stages

LEMMA NoneSentConcluded ==
  ASSUME Unstalled, NEW p \in Procs, pc[p] \in {"reuse", "commit"}
  PROVE  \/ NoneSent
         \/ /\ pc[p] = "reuse" /\ job[p].stage = "appropriateness" /\ runs[job[p].run].kind = "normal"
            /\ results[job[p].picked].verdict = "accept"
            /\ ~Sent(job[p].run, "appropriateness")
<1>1. job[p].run \in Runs /\ job[p].stage \in Stages /\ ~Resting(p) /\ pc[p] \in Judging
  BY LocalsOf DEF Unstalled, Locals, Resting, Judging
<1>2. CASE pc[p] = "commit"
  <2>1. ~Sent(job[p].run, job[p].stage)
    BY <1>2 DEF Unstalled, Order, InOrder, Valid, Sent
  <2>2. CASE job[p].stage = "appropriateness"
    <3>1. Gated(job[p].run) /\ ~ReuseFirst(job[p].run)
      BY <1>1, <1>2, <2>2 DEF Unstalled, Authority, GateDue, Ownership, Holds, Trying
    <3> QED
      BY <1>1, <2>1, <2>2, <3>1, NoUsefulnessSent, NoneSentBy
  <2>3. CASE job[p].stage = "usefulness"
    BY <1>1, <2>1, <2>3, NoAppropriatenessSent, NoneSentBy
  <2> QED
    BY <1>1, <2>2, <2>3 DEF Stages
<1>3. CASE pc[p] = "reuse" /\ job[p].stage = "appropriateness"
  <2>1. Gated(job[p].run) /\ ReuseFirst(job[p].run) /\ job[p].picked = selected["appropriateness"]
    BY <1>1, <1>3 DEF Unstalled, Authority, GateDue, Ownership, Holds
  <2>2. ~Sent(job[p].run, "appropriateness")
    BY <1>1, <2>1 DEF Unstalled, Ownership, AppSent
  <2> QED
    BY <1>1, <1>3, <2>1, <2>2, NoUsefulnessSent, NoneSentBy
<1>4. CASE pc[p] = "reuse" /\ job[p].stage = "usefulness"
  <2>1. SavedUseful(job[p].run)
    BY <1>4 DEF Unstalled, Ownership, Holds
  <2>2. ~Sent(job[p].run, "usefulness")
    BY <1>1, <2>1 DEF Unstalled, Ownership, UseSent
  <2> QED
    BY <1>1, <1>4, <2>2, NoAppropriatenessSent, NoneSentBy
<1> QED
  BY <1>1, <1>2, <1>3, <1>4 DEF Stages

------------------------------------------------------------------------------

(* While tables and attempts stay as they are.                             *)
LEMMA OwnershipReads ==
  ASSUME Unstalled, Grows, Order', UNCHANGED <<attempts, results, selected, auths>>,
         claim' = claim \/ claim.run = NoRun \/ claim'.run = claim.run,
         \A p \in Procs : Holds(p)'
  PROVE  Ownership'
<1>1. OneProvenance'
  BY DEF Unstalled, Ownership, OneProvenance
<1>2. ResultsEvidenced'
  BY EvidencedAfter DEF Unstalled
<1>3. OneLiveRun'
  BY SentIsLive, NamesAssumption DEF Unstalled, Ownership, OneLiveRun
<1>4. \A r \in Runs : AppSent(r)'
  BY AppSentSame DEF Sent
<1>5. \A r \in Runs : UseSent(r)'
  <2> SUFFICES ASSUME NEW r \in Runs, Sent(r, "usefulness")
               PROVE  UseSent(r)'
    BY DEF UseSent, Sent
  <2> QED
    BY SentRunIsLive, GateSame, UseSentLater DEF Sent, Stages, Unstalled
<1> QED
  BY <1>1, <1>2, <1>3, <1>4, <1>5 DEF Ownership

LEMMA HoldsUnmoved ==
  ASSUME Unstalled, Grows, UNCHANGED <<attempts, results, selected, auths>>, NEW p \in Procs,
         pc'[p] = pc[p], job'[p] = job[p], lock = p => lock' = p
  PROVE  Holds(p)'
<1>1. CASE Resting(p)
  BY <1>1, RestingHolds DEF Resting, Holds, Trying, Judging
<1>2. CASE ~Resting(p)
  <2>1. job[p].run \in Runs /\ runs[job[p].run].status # "absent"
    BY <1>2, LocalsOf DEF Resting, Unstalled
  <2>2. Holds(p) /\ lock' = p
    BY <1>2, Sole DEF Unstalled, Ownership
  <2> PICK r \in Runs : r = job[p].run
    BY <2>1
  <2>4. ReuseFirst(r)' = ReuseFirst(r) /\ SavedUseful(r)' = SavedUseful(r)
    BY <2>1, GateSame DEF Unstalled
  <2> QED
    BY <2>2, <2>4 DEF Holds, Sent, ReuseFirst, SavedUseful, Matches, Checkpoint
<1> QED
  BY <1>1, <1>2

(* The only process past its claim moves on and reads the tables.          *)
LEMMA OwnershipMoves ==
  ASSUME Unstalled, Grows, Order', UNCHANGED <<attempts, results, selected, auths, claim>>, NEW p \in Procs,
         ~Resting(p), Alone(p), Holds(p)'
  PROVE  Ownership'
<1>1. \A q \in Procs : q # p => Holds(q)'
  BY Sole, RestingHolds DEF Alone, Resting, Holds, Trying, Judging
<1> QED
  BY <1>1, OwnershipReads

(* Nothing is in the air when the claim is given up.                       *)
LEMMA OwnershipReleases ==
  ASSUME Unstalled, Grows, Order', UNCHANGED attempts, NEW p \in Procs, ~Resting(p), Alone(p), Holds(p)', NoneSent,
         \A s \in Results : results'[s].verdict # "none" =>
           \/ results[s].verdict # "none"
           \/ s[2] = "usefulness" => \A i \in 1 .. Trials : attempts'[<<s[1], s[2], i>>].prov = results'[s].prov
  PROVE  Ownership'
<1>1. OneProvenance'
  BY DEF Unstalled, Ownership, OneProvenance
<1>2. ResultsEvidenced'
  BY EvidencedAfter DEF Unstalled
<1>3. OneLiveRun'
  BY DEF NoneSent, OneLiveRun
<1>4. \A r \in Runs : AppSent(r)' /\ UseSent(r)'
  BY KeysOf DEF AppSent, UseSent, Sent, NoneSent, Stages
<1>5. \A q \in Procs : q # p => Holds(q)'
  BY Sole, RestingHolds DEF Alone, Resting, Holds, Trying, Judging
<1> QED
  BY <1>1, <1>2, <1>3, <1>4, <1>5 DEF Ownership

LEMMA OwnershipChooses ==
  ASSUME Unstalled, Types', Grows, Order', NEW p \in Procs,
         \/ ChooseSaved(p) \/ ChooseTrials(p) \/ SkipGate(p) \/ UsefulnessSaved(p) \/ UsefulnessTrials(p)
  PROVE  Ownership'
<1>1. /\ UNCHANGED <<runs, attempts, results, selected, auths, claim, lock>> /\ pc[p] \in {"choose", "preceding"}
      /\ job[p] \in Locals /\ ~Resting(p) /\ lock = p
      /\ job[p].run \in Runs /\ job[p].stage = "appropriateness"
  <2>1. UNCHANGED <<runs, attempts, results, selected, auths, claim, lock>> /\ pc[p] \in {"choose", "preceding"}
    BY DEF ChooseSaved, ChooseTrials, SkipGate, UsefulnessSaved, UsefulnessTrials
  <2> QED
    BY <2>1, LocalsOf, Sole DEF Resting, Unstalled, Judging
<1>2. CASE ChooseSaved(p)
  <2>1. Alone(p) /\ pc'[p] = "reuse" /\ job'[p] = [job[p] EXCEPT !.picked = selected["appropriateness"]]
    BY <1>2 DEF ChooseSaved, Goto, Alone, Unstalled, Types, JobsTyped
  <2>2. job'[p].run = job[p].run /\ job'[p].stage = "appropriateness" /\ job'[p].picked = selected["appropriateness"]
    BY <1>1, <2>1 DEF Locals
  <2>3. Holds(p)'
    BY <1>1, <1>2, <2>1, <2>2 DEF Holds, Trying, Judging, ChooseSaved, ReuseFirst, Matches, Checkpoint
  <2> QED
    BY <1>1, <2>1, <2>3, OwnershipMoves
<1>3. CASE ChooseTrials(p)
  <2>1. Alone(p) /\ pc'[p] = "trial" /\ job'[p] = job[p]
    BY <1>3 DEF ChooseTrials, Goto, Alone, Unstalled, Types, JobsTyped
  <2>2. Holds(p)'
    BY <1>1, <1>3, <2>1 DEF Holds, Trying, Judging, ChooseTrials, ReuseFirst, Matches, Checkpoint
  <2> QED
    BY <1>1, <2>1, <2>2, OwnershipMoves
<1>4. CASE SkipGate(p)
  <2>1. Alone(p) /\ pc'[p] = "preceding" /\ job'[p] = job[p]
    BY <1>4 DEF SkipGate, Goto, Alone, Unstalled, Types, JobsTyped
  <2>2. ~Sent(job[p].run, "appropriateness")
    BY <1>1, <1>4 DEF SkipGate, Unstalled, Ownership, AppSent
  <2>3. Holds(p)'
    BY <1>1, <2>1, <2>2 DEF Holds, Trying, Judging, Sent
  <2> QED
    BY <1>1, <2>1, <2>3, OwnershipMoves
<1>5. CASE UsefulnessSaved(p)
  <2>1. Alone(p) /\ pc'[p] = "reuse" /\ job'[p] = [job[p] EXCEPT !.stage = "usefulness",
                                     !.prev = selected["appropriateness"], !.picked = selected["usefulness"]]
    BY <1>5 DEF UsefulnessSaved, Goto, Alone, Unstalled, Types, JobsTyped
  <2>2. job'[p].run = job[p].run /\ job'[p].stage = "usefulness"
    BY <1>1, <2>1 DEF Locals
  <2>3. Holds(p)'
    BY <1>1, <1>5, <2>1, <2>2 DEF Holds, Trying, Judging, UsefulnessSaved, SavedUseful, Matches
  <2> QED
    BY <1>1, <2>1, <2>3, OwnershipMoves
<1>6. CASE UsefulnessTrials(p)
  <2>1. Alone(p) /\ pc'[p] = "trial" /\ job'[p] = [job[p] EXCEPT !.stage = "usefulness", !.trial = 1,
                          !.prev = selected["appropriateness"], !.prov = Provenance(job[p].run)]
    BY <1>6 DEF UsefulnessTrials, Goto, Alone, Unstalled, Types, JobsTyped
  <2>2. job'[p].run = job[p].run /\ job'[p].stage = "usefulness" /\ job'[p].prov = Provenance(job[p].run)
    BY <1>1, <2>1 DEF Locals
  <2>3. attempts[<<job[p].run, "usefulness", 1>>].status # "none" =>
          Provenance(job[p].run) = attempts[<<job[p].run, "usefulness", 1>>].prov
    BY DEF Provenance
  <2>4. Holds(p)'
    BY <1>1, <1>6, <2>1, <2>2, <2>3 DEF Holds, Trying, Judging, UsefulnessTrials, SavedUseful, Matches
  <2> QED
    BY <1>1, <2>1, <2>4, OwnershipMoves
<1> QED
  BY <1>2, <1>3, <1>4, <1>5, <1>6

LEMMA OwnershipTries ==
  ASSUME Unstalled, Types', Grows, Order', NEW p \in Procs,
         \/ BeginTrial(p) \/ Check(p) \/ NextTrial(p) \/ Recheck(p)
  PROVE  Ownership'
<1>1. /\ UNCHANGED <<runs, attempts, results, selected, auths, claim, lock>> /\ pc[p] \in Trying
      /\ job[p] \in Locals /\ ~Resting(p) /\ lock = p
  <2>1. UNCHANGED <<runs, attempts, results, selected, auths, claim, lock>> /\ pc[p] \in Trying
    BY DEF BeginTrial, Check, NextTrial, Recheck, Trying, Judging
  <2> QED
    BY <2>1, LocalsOf, Sole DEF Resting, Unstalled, Trying, Judging
<1>2. Alone(p) /\ pc'[p] \in Trying \ {"idle"} /\ (job'[p] = job[p] \/ job'[p] = [job[p] EXCEPT !.trial = @ + 1])
  BY DEF BeginTrial, Check, NextTrial, Recheck, Goto, Alone, Unstalled, Types, JobsTyped, Trying, Judging
<1>3. job'[p].run = job[p].run /\ job'[p].stage = job[p].stage /\ job'[p].prov = job[p].prov
  BY <1>1, <1>2 DEF Locals
<1>4. Holds(p)
  BY DEF Unstalled, Ownership
<1>5. Holds(p)'
  BY <1>1, <1>2, <1>3, <1>4 DEF Holds, Trying, Judging, ReuseFirst, SavedUseful, Matches, Checkpoint
<1> QED
  BY <1>1, <1>2, <1>5, OwnershipMoves

LEMMA OwnershipLists ==
  ASSUME Unstalled, Types', Grows, Order', NEW p \in Procs, ListTrials(p)
  PROVE  Ownership'
<1>1. /\ UNCHANGED <<runs, attempts, results, selected, auths, claim, lock>> /\ pc[p] = "list"
      /\ job[p] \in Locals /\ ~Resting(p) /\ lock = p /\ claim.run = job[p].run
  BY LocalsOf, Sole DEF ListTrials, Resting, Unstalled
<1>2. Alone(p) /\ pc'[p] = "recover"
      /\ job'[p] = [job[p] EXCEPT !.todo = {k \in Keys : k[1] = job[p].run /\ attempts[k].status # "none"}]
  BY DEF ListTrials, Goto, Alone, Unstalled, Types, JobsTyped
<1>3. job'[p].todo = {k \in Keys : k[1] = job[p].run /\ attempts[k].status # "none"}
  BY <1>1, <1>2 DEF Locals
<1>4. \A k \in Keys : attempts[k].status = "sent" => k[1] = job[p].run
  BY <1>1, SentIsLive
<1>5. Holds(p)'
  BY <1>1, <1>2, <1>3, <1>4 DEF Holds, Trying, Judging
<1> QED
  BY <1>1, <1>2, <1>5, OwnershipMoves

(* A call writes the attempt it works on.                                  *)
LEMMA OwnershipWrites ==
  ASSUME Unstalled, Grows, Order', UNCHANGED <<results, selected, auths, claim>>, NEW p \in Procs,
         ~Resting(p), Alone(p), OneProvenance', Holds(p)',
         \A k \in Keys : attempts'[k].status = "sent" =>
           attempts[k].status = "sent" \/ (k = Key(p) /\ pc[p] \in Trying)
  PROVE  Ownership'
<1>0. job[p].run \in Runs /\ runs[job[p].run].status # "absent" /\ claim.run = job[p].run
  BY LocalsOf, Sole DEF Unstalled, Resting
<1>1. ResultsEvidenced'
  BY EvidencedAfter DEF Unstalled
<1>2. OneLiveRun'
  BY <1>0, SentIsLive DEF OneLiveRun, Key
<1>3. \A r \in Runs : AppSent(r)'
  <2> SUFFICES ASSUME NEW r \in Runs, Sent(r, "appropriateness")'
               PROVE  (Gated(r) /\ ~ReuseFirst(r))'
    BY DEF AppSent
  <2>1. CASE Sent(r, "appropriateness")
    BY <2>1, AppSentSame DEF AppSent
  <2>2. CASE ~Sent(r, "appropriateness")
    <3>1. Key(p)[1] = r /\ Key(p)[2] = "appropriateness" /\ pc[p] \in Trying
      BY <2>2, KeysOf DEF Sent, Stages
    <3>2. r = job[p].run /\ job[p].stage = "appropriateness"
      BY <3>1 DEF Key
    <3>3. Gated(r) /\ ~ReuseFirst(r)
      BY <3>1, <3>2 DEF Unstalled, Authority, GateDue, Ownership, Holds, Trying
    <3> QED
      BY <1>0, <3>2, <3>3, GateSame DEF Unstalled
  <2> QED
    BY <2>1, <2>2
<1>4. \A r \in Runs : UseSent(r)'
  <2> SUFFICES ASSUME NEW r \in Runs, Sent(r, "usefulness")'
               PROVE  UseSent(r)'
    BY DEF UseSent
  <2>1. CASE Sent(r, "usefulness")
    BY <2>1, SentRunIsLive, GateSame, UseSentLater DEF Stages, Unstalled
  <2>2. CASE ~Sent(r, "usefulness")
    <3>1. Key(p)[1] = r /\ Key(p)[2] = "usefulness" /\ pc[p] \in Trying
      BY <2>2, KeysOf DEF Sent, Stages
    <3>2. r = job[p].run /\ job[p].stage = "usefulness"
      BY <3>1 DEF Key
    <3>3. ~SavedUseful(r)'
      BY <1>0, <3>1, <3>2, GateSame DEF Unstalled, Ownership, Holds
    <3>4. /\ Advancing(selected["appropriateness"], runs[r].identity)
          /\ runs[r].kind # "appropriateness" /\ (runs[r].kind = "normal" => Checkpoint(r))
      BY <3>2, Sole DEF Unstalled, Authority, GateDue, Owns
    <3>5. Advancing(selected["appropriateness"], runs[r].identity)'
      BY <1>0, <3>2, <3>4, AdvancingLater DEF Unstalled, Advancing, Saved, Grows
    <3>6. runs'[r].kind = runs[r].kind
      BY <1>0, <3>2 DEF Grows
    <3> QED
      BY <3>3, <3>4, <3>5, <3>6, CheckpointLater DEF UseSent
  <2> QED
    BY <2>1, <2>2
<1>5. \A q \in Procs : q # p => Holds(q)'
  BY Sole, RestingHolds DEF Alone, Resting, Holds, Trying, Judging
<1> QED
  BY <1>1, <1>2, <1>3, <1>4, <1>5 DEF Ownership

(* Provenances are fixed when attempts are created.                        *)
LEMMA ProvenanceLater ==
  ASSUME Unstalled, Grows, \A k \in Keys : attempts'[k].status # "none" => attempts[k].status # "none"
  PROVE  OneProvenance'
<1> SUFFICES ASSUME NEW r \in Runs, NEW i \in 1 .. Trials, attempts'[<<r, "usefulness", i>>].status # "none"
             PROVE  attempts'[<<r, "usefulness", i>>].prov = attempts'[<<r, "usefulness", 1>>].prov
  BY DEF OneProvenance
<1>1. /\ <<r, "usefulness", i>> \in Keys /\ <<r, "usefulness", 1>> \in Keys
      /\ attempts[<<r, "usefulness", i>>].status # "none"
  BY KeysOf, TrialsAssumption DEF Stages
<1>2. attempts[<<r, "usefulness", 1>>].status # "none"
  BY <1>1, TrialsAssumption DEF Unstalled, Order, TrialsInOrder, Valid, Stages
<1> QED
  BY <1>1, <1>2 DEF Unstalled, Ownership, OneProvenance, Grows

LEMMA HoldsTrying ==
  ASSUME Unstalled, Grows, NEW p \in Procs, pc[p] \in Trying, pc'[p] \in Trying, job'[p] = job[p],
         UNCHANGED <<lock, selected, auths>>,
         job[p].stage = "usefulness" => \/ attempts[<<job[p].run, "usefulness", 1>>].status # "none"
                                        \/ attempts'[<<job[p].run, "usefulness", 1>>].status = "none"
                                        \/ attempts'[<<job[p].run, "usefulness", 1>>].prov = job[p].prov
  PROVE  Holds(p)'
<1>0. /\ job[p].run \in Runs /\ runs[job[p].run].status # "absent" /\ ~Resting(p) /\ lock = p /\ Holds(p)
  BY LocalsOf, Sole DEF Unstalled, Ownership, Resting, Trying, Judging
<1> PICK r \in Runs : r = job[p].run
  BY <1>0
<1>1. ReuseFirst(r)' = ReuseFirst(r) /\ SavedUseful(r)' = SavedUseful(r)
  BY <1>0, GateSame DEF Unstalled
<1>2. job[p].stage = "usefulness" /\ attempts'[<<r, "usefulness", 1>>].status # "none" =>
        job[p].prov = attempts'[<<r, "usefulness", 1>>].prov
  <2>1. <<r, "usefulness", 1>> \in Keys
    BY KeysOf, TrialsAssumption DEF Stages
  <2> QED
    BY <1>0, <2>1 DEF Holds, Grows
<1> QED
  BY <1>0, <1>1, <1>2 DEF Holds, Trying, Judging, ReuseFirst, SavedUseful, Matches, Checkpoint

LEMMA OwnershipCreatesAttempt ==
  ASSUME Unstalled, Grows, Order', NEW p \in Procs, CreateAttempt(p)
  PROVE  Ownership'
<1>0. /\ UNCHANGED <<results, selected, auths, claim, lock, pc, job>> /\ pc[p] = "execute"
      /\ attempts[Key(p)].status = "none"
  BY DEF CreateAttempt
<1>1. /\ attempts'[Key(p)].status = "pending" /\ attempts'[Key(p)].prov = job[p].prov
      /\ \A l \in Keys : l # Key(p) => attempts'[l] = attempts[l]
  BY CreateAttemptEffect DEF Unstalled
<1>2. /\ job[p].run \in Runs /\ job[p].stage \in Stages /\ job[p].trial \in 1 .. Trials
      /\ ~Resting(p) /\ pc[p] \in Trying /\ Holds(p)
  BY <1>0, LocalsOf DEF Unstalled, Locals, Resting, Trying, Judging, Ownership
<1>3. OneProvenance'
  <2> SUFFICES ASSUME NEW r \in Runs, NEW i \in 1 .. Trials, attempts'[<<r, "usefulness", i>>].status # "none"
               PROVE  attempts'[<<r, "usefulness", i>>].prov = attempts'[<<r, "usefulness", 1>>].prov
    BY DEF OneProvenance
  <2>1. <<r, "usefulness", i>> \in Keys /\ <<r, "usefulness", 1>> \in Keys
    BY KeysOf, TrialsAssumption DEF Stages
  <2>2. CASE <<r, "usefulness", i>> = Key(p)
    <3>1. r = job[p].run /\ job[p].stage = "usefulness" /\ i = job[p].trial
      BY <2>2 DEF Key
    <3>2. CASE i = 1
      BY <3>2
    <3>3. CASE i # 1
      <4>1. Valid(r, "usefulness", 1)
        BY <1>0, <3>1, <3>3, TrialsAssumption DEF Unstalled, Order, InOrder
      <4>2. <<r, "usefulness", 1>> # Key(p)
        BY <2>2, <3>3
      <4> QED
        BY <1>1, <1>2, <2>1, <2>2, <3>1, <4>1, <4>2 DEF Holds, Valid
    <3> QED
      BY <3>2, <3>3
  <2>3. CASE <<r, "usefulness", i>> # Key(p)
    <3>1. attempts[<<r, "usefulness", i>>].status # "none" /\ attempts'[<<r, "usefulness", i>>] = attempts[<<r, "usefulness", i>>]
      BY <1>1, <2>1, <2>3
    <3>2. i # 1 => Valid(r, "usefulness", 1)
      BY <3>1, TrialsAssumption DEF Unstalled, Order, TrialsInOrder, Stages
    <3>3. <<r, "usefulness", 1>> # Key(p)
      BY <1>0, <2>3, <3>2 DEF Valid
    <3> QED
      BY <1>1, <2>1, <3>1, <3>3 DEF Unstalled, Ownership, OneProvenance
  <2> QED
    BY <2>2, <2>3
<1>4. Holds(p)'
  <2>1. job[p].stage = "usefulness" => <<job[p].run, "usefulness", 1>> \in Keys
    BY <1>2, KeysOf, TrialsAssumption DEF Stages
  <2>2. job[p].stage = "usefulness" => \/ attempts[<<job[p].run, "usefulness", 1>>].status # "none"
                                       \/ attempts'[<<job[p].run, "usefulness", 1>>].status = "none"
                                       \/ attempts'[<<job[p].run, "usefulness", 1>>].prov = job[p].prov
    BY <1>1, <2>1
  <2> QED
    BY <1>0, <1>2, <2>2, HoldsTrying
<1>5. \A k \in Keys : attempts'[k].status = "sent" => attempts[k].status = "sent"
  BY <1>1
<1> QED
  BY <1>0, <1>2, <1>3, <1>4, <1>5, OwnershipWrites DEF Alone

LEMMA OwnershipSets ==
  ASSUME Unstalled, Grows, Order', NEW p \in Procs,
         \/ Send(p) \/ Pause(p)
         \/ \E answer \in BOOLEAN, status \in {"valid", "failed"} : Finish(p, status, answer)
  PROVE  Ownership'
<1>0. /\ UNCHANGED <<results, selected, auths, claim, lock>> /\ pc[p] \in Trying
      /\ UNCHANGED <<pc, job>> \/ Goto(p, "execute", job[p]) \/ Goto(p, "paused", job[p])
  BY DEF Send, Pause, Finish, Trying, Judging
<1>1. Alone(p) /\ pc'[p] \in Trying /\ job'[p] = job[p] /\ ~Resting(p)
  BY <1>0 DEF Goto, Alone, Unstalled, Types, JobsTyped, Trying, Judging, Resting
<1>2. /\ \A k \in Keys : attempts'[k].status # "none" => attempts[k].status # "none"
      /\ \A k \in Keys : attempts'[k].status = "sent" => attempts[k].status = "sent" \/ k = Key(p)
  <2>1. CASE Send(p)
    BY <2>1, SendEffect DEF Set, Unstalled
  <2>2. CASE Pause(p)
    BY <2>2, PauseEffect DEF Set, Unstalled
  <2>3. ASSUME NEW answer \in BOOLEAN, NEW status \in {"valid", "failed"}, Finish(p, status, answer)
        PROVE  /\ \A k \in Keys : attempts'[k].status # "none" => attempts[k].status # "none"
               /\ \A k \in Keys : attempts'[k].status = "sent" => attempts[k].status = "sent" \/ k = Key(p)
    BY <2>3, FinishEffect DEF Set, Unstalled, Finish
  <2> QED
    BY <2>1, <2>2, <2>3
<1>3. OneProvenance'
  BY <1>2, ProvenanceLater
<1>4. Holds(p)'
  <2>1. job[p].run \in Runs
    BY <1>1, LocalsOf DEF Unstalled, Resting
  <2>2. <<job[p].run, "usefulness", 1>> \in Keys
    BY <2>1, KeysOf, TrialsAssumption DEF Stages
  <2> QED
    BY <1>0, <1>1, <1>2, <2>2, HoldsTrying
<1> QED
  BY <1>0, <1>1, <1>2, <1>3, <1>4, OwnershipWrites

LEMMA OwnershipRecoversTrial ==
  ASSUME Unstalled, Grows, Order', NEW p \in Procs, NEW k \in Keys, NEW status \in {"pending", "valid", "failed"},
         NEW answer \in BOOLEAN, RecoverTrial(p, k, status, answer)
  PROVE  Ownership'
<1>0. /\ UNCHANGED <<results, selected, auths, claim, lock>> /\ pc[p] = "recover" /\ k \in job[p].todo
      /\ job[p] \in Locals /\ Holds(p) /\ InOrder(p) /\ ~Resting(p) /\ lock = p
  <2>1. UNCHANGED <<results, selected, auths, claim, lock>> /\ pc[p] = "recover" /\ k \in job[p].todo
    BY DEF RecoverTrial
  <2> QED
    BY <2>1, LocalsOf, Sole DEF Unstalled, Ownership, Order, Resting
<1>1. /\ attempts'[k].status = status /\ \A l \in Keys : l # k => attempts'[l] = attempts[l]
  <2>1. Set(k, status, answer)
    BY RecoverTrialEffect DEF Unstalled
  <2> QED
    BY <2>1 DEF Set
<1>2. /\ Alone(p) /\ pc'[p] = "recover"
      /\ job'[p] = [job[p] EXCEPT !.todo = @ \ {k}, !.failed = @ \/ status = "failed"]
  BY DEF RecoverTrial, Goto, Alone, Unstalled, Types, JobsTyped
<1>3. job'[p].todo = job[p].todo \ {k}
  BY <1>0, <1>2 DEF Locals
<1>4. OneProvenance'
  <2>1. attempts[k].status # "none"
    BY <1>0 DEF InOrder
  <2> QED
    BY <1>1, <2>1, ProvenanceLater
<1>5. Holds(p)'
  BY <1>0, <1>1, <1>2, <1>3 DEF Holds, Trying, Judging
<1> QED
  BY <1>0, <1>1, <1>2, <1>4, <1>5, OwnershipWrites

LEMMA OwnershipConcludes ==
  ASSUME Unstalled, Grows, Order', NEW p \in Procs, Reuse(p) \/ CommitResult(p)
  PROVE  Ownership'
<1>0. /\ pc[p] \in {"reuse", "commit"} /\ UNCHANGED attempts /\ ~Resting(p) /\ lock = p
      /\ job[p] \in Locals /\ job[p].run \in Runs /\ job[p].stage \in Stages
  <2>1. pc[p] \in {"reuse", "commit"} /\ UNCHANGED attempts
    BY DEF Reuse, CommitResult
  <2> QED
    BY <2>1, LocalsOf, Sole DEF Unstalled, Resting, Locals
<1>1. \/ Leave(p)
      \/ Goto(p, "preceding", job[p]) /\ lock' = lock /\ job[p].stage = "appropriateness" /\ claim' = claim
  BY DEF Reuse, CommitResult, Conclude, Complete
<1>2. /\ Alone(p)
      /\ \/ pc'[p] = "idle"
         \/ /\ pc'[p] = "preceding" /\ job'[p] = job[p] /\ lock' = p /\ claim' = claim
            /\ job[p].stage = "appropriateness"
  BY <1>0, <1>1 DEF Leave, Goto, Alone, Unstalled, Types, JobsTyped
<1>3. \A s \in Results : results'[s].verdict # "none" =>
        \/ results[s].verdict # "none"
        \/ s[2] = "usefulness" => \A i \in 1 .. Trials : attempts'[<<s[1], s[2], i>>].prov = results'[s].prov
  <2>1. CASE Reuse(p)
    BY <2>1 DEF Reuse
  <2>2. CASE CommitResult(p)
    <3> DEFINE s == <<job[p].run, job[p].stage>>
    <3>1. /\ s \in Results /\ s[1] = job[p].run /\ s[2] = job[p].stage /\ results'[s].prov = job[p].prov
          /\ \A t \in Results : t # s => results'[t] = results[t]
      <4>1. /\ s \in Results
            /\ results' = [results EXCEPT ![s] = [verdict |-> Decision(s[1], s[2]), prov |-> job[p].prov]]
        BY <2>2, CommitResultEffect DEF Unstalled
      <4>2. s[1] = job[p].run /\ s[2] = job[p].stage
        OBVIOUS
      <4> HIDE DEF s
      <4> QED
        BY <4>1, <4>2 DEF Unstalled, Types, SavedTyped
    <3>2. s[2] = "usefulness" => \A i \in 1 .. Trials : attempts[<<s[1], s[2], i>>].prov = job[p].prov
      <4> SUFFICES ASSUME job[p].stage = "usefulness", NEW i \in 1 .. Trials
                   PROVE  attempts[<<job[p].run, "usefulness", i>>].prov = job[p].prov
        BY <3>1
      <4>1. Valid(job[p].run, "usefulness", i) /\ Valid(job[p].run, "usefulness", 1)
        BY <2>2, TrialsAssumption DEF Unstalled, Order, InOrder, CommitResult
      <4>2. attempts[<<job[p].run, "usefulness", 1>>].prov = job[p].prov
        BY <2>2, <4>1 DEF Unstalled, Ownership, Holds, Trying, Judging, Valid, CommitResult
      <4> QED
        BY <1>0, <4>1, <4>2 DEF Unstalled, Ownership, OneProvenance, Valid
    <3> HIDE DEF s
    <3> QED
      BY <1>0, <3>1, <3>2
  <2> QED
    BY <2>1, <2>2
<1>4. CASE NoneSent
  <2>1. Holds(p)'
    <3>1. CASE pc'[p] = "idle"
      BY <3>1 DEF Holds, Trying, Judging
    <3>2. CASE /\ pc'[p] = "preceding" /\ job'[p] = job[p] /\ lock' = p
      <4>1. ~Sent(job[p].run, "appropriateness")
        BY <1>0, <1>4, KeysOf DEF NoneSent, Sent, Stages
      <4> QED
        BY <1>0, <3>2, <4>1 DEF Holds, Trying, Judging, Sent
    <3> QED
      BY <1>2, <3>1, <3>2
  <2> QED
    BY <1>0, <1>2, <1>3, <1>4, <2>1, OwnershipReleases
<1>5. CASE /\ pc[p] = "reuse" /\ job[p].stage = "appropriateness" /\ runs[job[p].run].kind = "normal"
           /\ results[job[p].picked].verdict = "accept"
           /\ ~Sent(job[p].run, "appropriateness")
  <2>1. /\ UNCHANGED <<results, selected>> /\ claim' = claim
        /\ pc'[p] = "preceding" /\ job'[p] = job[p] /\ lock' = p
    <3>1. Reuse(p)
      BY <1>5 DEF CommitResult
    <3>2. Goto(p, "preceding", job[p]) /\ UNCHANGED <<results, selected>> /\ claim' = claim /\ lock' = lock
      BY <1>5, <3>1 DEF Reuse, Conclude, Complete
    <3> QED
      BY <1>0, <3>2 DEF Goto, Unstalled, Types, JobsTyped
  <2>2. OneProvenance'
    BY <1>0 DEF Unstalled, Ownership, OneProvenance
  <2>3. ResultsEvidenced'
    BY <1>3, EvidencedAfter DEF Unstalled
  <2>4. OneLiveRun'
    BY <1>0, <2>1 DEF Unstalled, Ownership, OneLiveRun
  <2>5. \A r \in Runs : AppSent(r)'
    <3> SUFFICES ASSUME NEW r \in Runs, Sent(r, "appropriateness")
                 PROVE  FALSE
      BY <1>0 DEF AppSent, Sent
    <3> QED
      BY <1>0, <1>5, Sole, SentRunIsLive DEF Stages
  <2>6. \A r \in Runs : UseSent(r)'
    <3> SUFFICES ASSUME NEW r \in Runs, Sent(r, "usefulness")
                 PROVE  UseSent(r)'
      BY <1>0 DEF UseSent, Sent
    <3>1. runs[r].status # "absent" /\ Types
      BY SentRunIsLive DEF Stages, Unstalled
    <3>2. runs'[r].fresh = runs[r].fresh /\ runs'[r].identity = runs[r].identity
      BY <3>1 DEF Grows
    <3>3. selected["usefulness"] # NoResult =>
            runs'[selected["usefulness"][1]].identity = runs[selected["usefulness"][1]].identity
      BY <3>1, SelectedType DEF Types, SavedOfCreated, Saved, Results, Grows, Stages
    <3>4. SavedUseful(r)' = SavedUseful(r)
      BY <2>1, <3>2, <3>3 DEF SavedUseful, Matches
    <3> QED
      BY <1>0, <2>1, <3>4, UseSentLater DEF Sent
  <2>7. Holds(p)'
    BY <1>0, <1>5, <2>1 DEF Holds, Trying, Judging, Sent
  <2>8. \A q \in Procs : q # p => Holds(q)'
    BY <1>0, <1>2, Sole, RestingHolds DEF Alone, Resting, Holds, Trying, Judging
  <2> QED
    BY <2>2, <2>3, <2>4, <2>5, <2>6, <2>7, <2>8 DEF Ownership
<1> QED
  BY <1>0, <1>4, <1>5, NoneSentConcluded

LEMMA OwnershipCompletes ==
  ASSUME Unstalled, Grows, Order', NEW p \in Procs, CompletePaused(p) \/ CompleteFailed(p) \/ CompleteRecovery(p)
  PROVE  Ownership'
<1>0. /\ UNCHANGED <<attempts, results, selected, auths>> /\ Leave(p) /\ ~Resting(p)
  BY DEF CompletePaused, CompleteFailed, CompleteRecovery, Resting
<1>1. Alone(p) /\ pc'[p] = "idle"
  BY <1>0, LeaveAlone DEF Unstalled, Types
<1>2. Holds(p)'
  BY <1>1 DEF Holds, Trying, Judging
<1>3. CASE CompletePaused(p)
  <2>1. claim' = claim
    BY <1>3 DEF CompletePaused, Complete
  <2> QED
    BY <1>0, <1>1, <1>2, <2>1, OwnershipMoves
<1>4. CASE CompleteFailed(p) \/ CompleteRecovery(p)
  <2>1. NoneSent
    <3>1. CASE CompleteFailed(p)
      BY <3>1, NoneSentFailed DEF CompleteFailed
    <3>2. CASE CompleteRecovery(p)
      BY <3>2 DEF CompleteRecovery, NoneSent, Unstalled, Ownership, Holds
    <3> QED
      BY <1>4, <3>1, <3>2
  <2> QED
    BY <1>0, <1>1, <1>2, <2>1, OwnershipReleases
<1> QED
  BY <1>3, <1>4

LEMMA OwnershipRests ==
  ASSUME Unstalled, Grows, Order', NEW p \in Procs, Leave(p), UNCHANGED <<claim, attempts, results, selected, auths>>
  PROVE  Ownership'
<1>1. Alone(p) /\ pc'[p] = "idle"
  BY LeaveAlone DEF Unstalled, Types
<1>2. Holds(p)'
  BY <1>1 DEF Holds, Trying, Judging
<1>3. \A q \in Procs : q # p => Holds(q)'
  BY <1>1, HoldsUnmoved DEF Alone, Leave
<1> QED
  BY <1>2, <1>3, OwnershipReads

LEMMA OwnershipStep == ~Stalls /\ Types /\ Types' /\ Grows /\ Authority /\ Order /\ Order' /\ Ownership /\ [Next]_vars => Ownership'
<1> SUFFICES ASSUME Unstalled, Types', Grows, Order', [Next]_vars
             PROVE  Ownership'
  BY DEF Unstalled
<1>1. ASSUME NEW p \in Procs, Step(p)
      PROVE  Ownership'
  <2>1. CASE ClaimRefused(p) \/ Throw(p)
    BY <2>1, OwnershipRests DEF ClaimRefused, Throw
  <2>2. CASE Claim(p)
    <3>1. /\ lock = NoProc /\ lock' = p /\ UNCHANGED <<attempts, results, selected, auths>>
          /\ claim.run = NoRun \/ claim'.run = claim.run
          /\ Alone(p) /\ pc'[p] \in {"choose", "list"}
      BY <2>2 DEF Claim, Claimable, Goto, Alone, Unstalled, Types, JobsTyped
    <3>2. Holds(p)'
      BY <3>1 DEF Holds, Trying, Judging
    <3>3. \A q \in Procs : q # p => Holds(q)'
      BY <3>1, NobodyElse DEF Alone, Resting, Holds, Trying, Judging
    <3> QED
      BY <3>1, <3>2, <3>3, OwnershipReads
  <2> QED
    BY <1>1, <2>1, <2>2, OwnershipChooses, OwnershipTries, OwnershipLists, OwnershipCreatesAttempt, OwnershipSets,
       OwnershipRecoversTrial, OwnershipConcludes, OwnershipCompletes DEF Step
<1>2. ASSUME NEW p \in Procs, Interrupt(p) \/ LoseLock(p)
      PROVE  Ownership'
  BY <1>2, OwnershipRests DEF Interrupt, LoseLock, Unstalled
<1>3. ASSUME NEW p \in Procs, NEW r \in Runs, NEW call \in {"run", "recover"}, Begin(p, r, call)
      PROVE  Ownership'
  <2>1. /\ UNCHANGED <<claim, lock, attempts, results, selected, auths>>
        /\ Alone(p) /\ pc'[p] = "claim"
    BY <1>3 DEF Begin, Goto, Alone, Unstalled, Types, JobsTyped
  <2>2. \A q \in Procs : Holds(q)'
    BY <2>1, HoldsUnmoved DEF Alone, Holds, Trying, Judging
  <2> QED
    BY <2>1, <2>2, OwnershipReads
<1>4. CASE UNCHANGED <<claim, lock, attempts, results, selected, auths, pc, job>>
  BY <1>4, HoldsUnmoved, OwnershipReads
<1> QED
  BY <1>1, <1>2, <1>3, <1>4 DEF Next, Create, Deploy, vars

LEMMA OwnershipInit == Init => Ownership
<1> SUFFICES ASSUME Init
             PROVE  Ownership
  OBVIOUS
<1>1. \A k \in Keys : attempts[k].status = "none"
  BY DEF Init, NoAttempt
<1>2. OneProvenance
  BY <1>1, KeysOf DEF OneProvenance, Stages
<1>3. ResultsEvidenced /\ OneLiveRun
  BY <1>1 DEF Init, ResultsEvidenced, OneLiveRun
<1>4. \A r \in Runs : AppSent(r) /\ UseSent(r)
  BY <1>1, KeysOf DEF AppSent, UseSent, Sent, Stages
<1>5. \A p \in Procs : Holds(p)
  BY DEF Init, Holds, Trying, Judging
<1> QED
  BY <1>2, <1>3, <1>4, <1>5 DEF Ownership

(* Trials are run in their order and a saved verdict follows from them,    *)
(* wherever calls are cut off.                                             *)
THEOREM ProductionOrder == Spec => []Order
BY TypesInit, TypesStep, OrderInit, OrderStep, PTL DEF Spec

LEMMA ProductionOwnership == ~Stalls /\ Spec => []Ownership
<1> SUFFICES ASSUME ~Stalls
             PROVE  Spec => []Ownership
  OBVIOUS
<1>1. Types /\ Types' /\ Grows /\ Authority /\ Order /\ Order' /\ Ownership /\ [Next]_vars => Ownership'
  BY OwnershipStep
<1> QED
  BY TypesInit, TypesStep, AuthorityInit, AuthorityStep, OrderInit, OrderStep, OwnershipInit, <1>1, PTL DEF Spec

(* Where no process outlives its lock, a request that may be in the air is *)
(* the owning run's.                                                       *)
THEOREM LiveRunOwns == ~Stalls /\ Spec => []OneLiveRun
<1>1. Ownership => OneLiveRun
  BY DEF Ownership
<1> QED
  BY ProductionOwnership, <1>1, PTL

(* Where no process outlives its lock, a saved verdict is what its own     *)
(* valid trials decide, and usefulness trials were all judged under the    *)
(* preceding result that it names.                                         *)
THEOREM VerdictsAreEvidenced == ~Stalls /\ Spec => []ResultsEvidenced
<1>1. Ownership => ResultsEvidenced
  BY DEF Ownership
<1> QED
  BY ProductionOwnership, <1>1, PTL
=============================================================================
