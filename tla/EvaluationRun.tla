---------------------------- MODULE EvaluationRun ----------------------------
(***************************************************************************)
(* A private evaluation over a frozen version of the authoring store:      *)
(* evals/private-appropriateness.ts with its trials, scores and frozen     *)
(* summary, and the loop the usefulness, planner and writer evaluators     *)
(* share with it.  Runs are guarded by PostgreSQL's session lock of the    *)
(* experiment; a process may lose its connection, and so the lock, and go  *)
(* on: only its fenced writes fail.                                        *)
(*                                                                         *)
(* One trial's executor (StageExecutor) is reduced to what it may do to a  *)
(* trial: send, settle what an earlier process left, pause, and decide     *)
(* under the lock's own connection.                                        *)
(***************************************************************************)
EXTENDS AuthoringStore, Sequences

CONSTANTS Runners,      \* processes that run or finalize the experiment
          Expected,     \* [Cases -> {"clear", "blocked"}]: the owner's finding
          Answers,      \* blocked probabilities, in percent, of valid trials
          Threshold,    \* rejects at and above it
          Trials,       \* trials per case: 3 in the code
          MaxSent       \* bound: physical requests

ASSUME EvaluationAssumption == /\ Answers \subseteq Nat
                               /\ Trials \in Nat \ {0}
                               /\ MaxSent \in Nat

VARIABLES experiment,   \* the experiment's row and frozen cases
          trials,       \* [case, index -> what the trial's attempt holds]
          sent,         \* [case, index -> its physical requests]
          unresolved,   \* trials with a request whose charge is not known
          runner,       \* [Runners -> what the process is doing]
          owner,        \* runners that hold the session lock: at most one
          file          \* the summary file

experimentVars == <<experiment, trials, sent, unresolved>>
evaluationVars == <<experimentVars, runner, owner, file>>
vars == <<storeVars, evaluationVars>>

NoExperiment == [kind |-> "none", cases |-> <<>>, summary |-> {}]
Kinds == {"appropriateness", "usefulness", "luna"}
Slots == Cases \X (1 .. Trials)

(* A trial has no row, a pending attempt, a valid answer, or a verdict     *)
(* without one.                                                            *)
Unstarted == -1
Pending == -2
Invalid == -3
Unverified == -4    \* verification_unresolved
Failures == {Invalid, Unverified}
Decided(o) == o \in Answers \cup Failures

Quiet == [at |-> "idle", op |-> "run", case |-> 1, index |-> 1, saved |-> FALSE,
          seen |-> {}, summary |-> {}, failed |-> {}]
-----------------------------------------------------------------------------
(* scorers/appropriateness.ts *)

Disposition(p) == IF p >= Threshold THEN "reject" ELSE "accept"
WrongAccept(c, d) == Expected[c] = "blocked" /\ d = "accept"

SumOf(f) == FoldFunction(+, 0, f)

(* scoreCase: every trial valid, and no wrong accept on a trial or on the  *)
(* mean.                                                                   *)
Passes(c, o) ==
  /\ \A i \in 1 .. Trials : o[i] \in Answers
  /\ \A i \in 1 .. Trials : ~WrongAccept(c, Disposition(o[i]))
  /\ ~WrongAccept(c, IF SumOf(o) >= Threshold * Trials THEN "reject" ELSE "accept")

(* currentScores: a case's outcomes up to its first trial that is missing. *)
Outcomes(c) ==
  LET n == CHOOSE k \in 0 .. Trials :
             /\ \A i \in 1 .. k : Decided(trials[<<c, i>>])
             /\ k < Trials => ~Decided(trials[<<c, k + 1>>])
  IN  [i \in 1 .. n |-> trials[<<c, i>>]]

CaseSet == {experiment.cases[i] : i \in DOMAIN experiment.cases}

(* summarize and buildSummary *)
Counts ==
  LET scored == {s \in CaseSet \X (1 .. Trials) : s[2] \in DOMAIN Outcomes(s[1])}
      passed == {c \in CaseSet : Len(Outcomes(c)) = Trials /\ Passes(c, Outcomes(c))}
  IN  [cases |-> Cardinality(CaseSet),
       valid |-> Cardinality({s \in scored : trials[s] \in Answers}),
       invalid |-> Cardinality({s \in scored : trials[s] = Invalid}),
       unresolvedTrials |-> Cardinality({s \in scored : trials[s] = Unverified}),
       missing |-> Cardinality(CaseSet) * Trials - Cardinality(scored),
       passed |-> Cardinality(passed),
       goldenRequirementsPass |-> CaseSet # {} /\ passed = CaseSet]
Summary == [counts |-> Counts,
            cost |-> [physical |-> SumOf(sent), open |-> Cardinality(unresolved)]]
-----------------------------------------------------------------------------
EvaluationInit == /\ experiment = NoExperiment
                  /\ trials = [s \in Slots |-> Unstarted]
                  /\ sent = [s \in Slots |-> 0]
                  /\ unresolved = {}
                  /\ runner = [q \in Runners |-> Quiet]
                  /\ owner = {}
                  /\ file = {}

(* create: the cases of a frozen version, or of one split of it, in one    *)
(* transaction. The other evaluators read their cases from other datasets; *)
(* these stand for them too.                                               *)
CreateExperiment == /\ experiment = NoExperiment
                    /\ \E v \in DOMAIN frozen, kind \in Kinds, split \in {"all", "development", "held-out"} :
                         LET chosen == {c \in DOMAIN frozen[v].rows : split \in {"all", frozen[v].rows[c].split}}
                         IN  /\ chosen # {}
                             /\ \E order \in [1 .. Cardinality(chosen) -> chosen] :
                                  /\ \A i, j \in DOMAIN order : i # j => order[i] # order[j]
                                  /\ experiment' = [kind |-> kind, cases |-> order, summary |-> {}]
                    /\ UNCHANGED <<trials, sent, unresolved, runner, owner, file>>

Step(q, at) == runner' = [runner EXCEPT ![q].at = at]
Slot(q) == <<experiment.cases[runner[q].case], runner[q].index>>

(* lockExperiment, and the experiment read under it.  A finalized          *)
(* experiment does not run again; only the appropriateness evaluation is   *)
(* finalized, and only planner and writer recover without dispatch.        *)
Lock(q, op) ==
  /\ runner[q] = Quiet /\ owner = {} /\ experiment # NoExperiment
  /\ op = "run" => experiment.summary = {}
  /\ op = "recover" => experiment.kind = "luna"
  /\ op = "finalize" => experiment.kind = "appropriateness"
  /\ owner' = {q}
  /\ runner' = [runner EXCEPT ![q].op = op, ![q].seen = experiment.summary,
                              ![q].at = IF op = "finalize" THEN "summing" ELSE "next"]
  /\ UNCHANGED <<experimentVars, file>>

\* Mutant: ownership is not asserted and writes go through the pool.
Anyone(q) == q \in Runners

(* A fenced write, or an assertion of the lock. *)
Holds(q) == q \in owner

(* The process ends with a result or an error: the lock is released. *)
End(q) == /\ runner' = [runner EXCEPT ![q] = Quiet]
          /\ owner' = owner \ {q}

\* Mutant: every decided outcome counts as saved before.
PriorOrNew(o) == TRUE

(* trialAttempt keeps the first attempt of a trial; its status is read     *)
(* before the executor goes on with it.  Recovery takes only what exists.  *)
(* The lock is asserted before: an assertion that fails leaves no row, one *)
(* that holds may be followed by the row after the lock is gone.           *)
Prior(o) == Decided(o)

OpenTrial(q) ==
  /\ runner[q].at = "next"
  /\ IF runner[q].op = "recover" /\ trials[Slot(q)] = Unstarted
     THEN Step(q, "advance") /\ UNCHANGED <<trials, owner>>
     ELSE \/ /\ trials' = [trials EXCEPT ![Slot(q)] = IF @ = Unstarted THEN Pending ELSE @]
             /\ runner' = [runner EXCEPT ![q].saved = Prior(trials[Slot(q)]),
                                         ![q].at = IF Decided(trials[Slot(q)]) THEN "decided" ELSE "checking"]
             /\ UNCHANGED owner
          \/ ~Holds(q) /\ End(q) /\ UNCHANGED trials
  /\ UNCHANGED <<experiment, sent, unresolved, file>>

(* The executor's last check before a dispatch; or it pauses, for its      *)
(* budget or its ledger, and the run stops.                                *)
Check(q) == /\ runner[q].at = "checking"
            /\ \/ Holds(q) /\ runner[q].op = "run" /\ Step(q, "sending") /\ UNCHANGED owner
               \/ End(q)
            /\ UNCHANGED <<experimentVars, file>>

Send(q) == /\ runner[q].at = "sending"
           /\ SumOf(sent) < MaxSent
           /\ sent' = [sent EXCEPT ![Slot(q)] = @ + 1]
           /\ unresolved' = unresolved \cup {Slot(q)}
           /\ Step(q, "awaiting")
           /\ UNCHANGED <<experiment, trials, owner, file>>

(* The reply's charge is recorded by its request, whoever holds the lock.  *)
RecordCharge(q) == /\ runner[q].at = "awaiting"
                   /\ unresolved' \in {unresolved, unresolved \ {Slot(q)}}
                   /\ Step(q, "deciding")
                   /\ UNCHANGED <<experiment, trials, sent, owner, file>>

(* The attempt is finished on the lock's connection: from the reply, or    *)
(* from what an earlier process sent and left.                             *)
Finish(q) ==
  /\ \/ runner[q].at = "deciding"
     \/ runner[q].at = "checking" /\ sent[Slot(q)] > 0
  /\ \/ /\ Holds(q)
        /\ \E o \in Answers \cup Failures :
             /\ o = Unverified => experiment.kind = "luna"
             /\ trials' = [trials EXCEPT ![Slot(q)] = IF @ = Pending THEN o ELSE @]
             /\ runner' = [runner EXCEPT ![q].at = "decided",
                             ![q].failed = IF o \in Answers \cup {Unverified} THEN @ ELSE @ \cup {Slot(q)}]
        /\ UNCHANGED owner
     \/ ~Holds(q) /\ End(q) /\ UNCHANGED trials
  /\ UNCHANGED <<experiment, sent, unresolved, file>>

(* The case is scored on the lock's connection, and the run goes on after  *)
(* a valid or a previously saved outcome.  Planner and writer also go on   *)
(* after an unverified one, unless a charge is unresolved.                 *)
GoesOn(q) == LET o == trials[Slot(q)]
             IN  /\ o \in Answers \/ runner[q].saved \/ o = Unverified
                 /\ experiment.kind = "luna" => unresolved = {}

Continue(q) == /\ runner[q].at = "decided"
               /\ IF (experiment.kind = "appropriateness" => Holds(q)) /\ GoesOn(q)
                  THEN Step(q, "advance") /\ UNCHANGED owner
                  ELSE End(q)
               /\ UNCHANGED <<experimentVars, file>>

Advance(q) == /\ runner[q].at = "advance"
              /\ \/ /\ runner[q].index < Trials
                    /\ runner' = [runner EXCEPT ![q].index = @ + 1, ![q].at = "next"]
                    /\ UNCHANGED owner
                 \/ /\ runner[q].index = Trials /\ runner[q].case < Len(experiment.cases)
                    /\ runner' = [runner EXCEPT ![q].case = @ + 1, ![q].index = 1, ![q].at = "next"]
                    /\ UNCHANGED owner
                 \/ /\ runner[q].index = Trials /\ runner[q].case = Len(experiment.cases)
                    /\ End(q)
              /\ UNCHANGED <<experimentVars, file>>

(* finalize: the frozen summary, or a new one from the saved evidence. *)
Sum(q) == /\ runner[q].at = "summing"
          /\ runner' = [runner EXCEPT ![q].summary = IF runner[q].seen # {} THEN runner[q].seen ELSE {Summary},
                                      ![q].at = "freezing"]
          /\ UNCHANGED <<experimentVars, owner, file>>

(* finalizeExperiment, once, on the lock's connection. *)
FreezeSummary(q) ==
  /\ runner[q].at = "freezing"
  /\ \/ /\ Holds(q)
        /\ experiment' = [experiment EXCEPT !.summary = IF @ = {} THEN runner[q].summary ELSE @]
        /\ Step(q, "writing") /\ UNCHANGED owner
     \/ ~Holds(q) /\ End(q) /\ UNCHANGED experiment
  /\ UNCHANGED <<trials, sent, unresolved, file>>

(* The file is replaced, or its write fails. *)
WriteSummary(q) == /\ runner[q].at = "writing"
                   /\ file' \in {file, runner[q].summary}
                   /\ End(q)
                   /\ UNCHANGED experimentVars

(* The lock's connection drops; or the process dies, and the lock with it. *)
LoseLock(q) == Holds(q) /\ owner' = {} /\ UNCHANGED <<experimentVars, runner, file>>
Die(q) == runner[q] # Quiet /\ End(q) /\ UNCHANGED <<experimentVars, file>>

RunnerStep(q) == \/ \E op \in {"run", "recover", "finalize"} : Lock(q, op)
                 \/ OpenTrial(q) \/ Check(q) \/ Send(q) \/ RecordCharge(q) \/ Finish(q)
                 \/ Continue(q) \/ Advance(q) \/ Sum(q) \/ FreezeSummary(q) \/ WriteSummary(q)
                 \/ LoseLock(q) \/ Die(q)

Evaluate == (CreateExperiment \/ \E q \in Runners : RunnerStep(q)) /\ UNCHANGED storeVars

Init == StoreInit /\ EvaluationInit
StoreStep == StoreNext /\ UNCHANGED evaluationVars
Next == StoreStep \/ Evaluate
Spec == Init /\ [][Next]_vars

-----------------------------------------------------------------------------
(* Types of the variables; a saved workspace can be loaded, and at most one *)
(* process holds the experiment's lock.                                    *)
TypeOK ==
  /\ StoreTypeOK
  /\ experiment # NoExperiment => /\ experiment.kind \in Kinds
                                  /\ CaseSet \in (SUBSET Cases) \ {{}}
  /\ \A s \in Slots : /\ Decided(trials[s]) \/ trials[s] \in {Unstarted, Pending}
                      /\ sent[s] \in 0 .. MaxSent
  /\ unresolved \subseteq Slots
  /\ owner \subseteq Runners /\ Cardinality(owner) <= 1
  /\ \A q \in owner : runner[q] # Quiet
  /\ \A q \in Runners : runner[q].failed \subseteq Slots

(* A finalized summary is the evidence: it counts and judges the trials as *)
(* they are saved for good, nothing decides a trial after it, and the file *)
(* outside the database is that very summary, whoever wrote it and however *)
(* often (private-appropriateness.ts finalize).                            *)
SummaryIsEvidence ==
  /\ \A s \in experiment.summary : s.counts = Counts
  /\ file # {} => file = experiment.summary

(* A newly failed trial stops dispatch: a run sends nothing after it has   *)
(* decided a trial without a usable answer; only a later, deliberate       *)
(* resume goes on (private-appropriateness.ts run, durable-usefulness.ts   *)
(* run).                                                                   *)
StopsOnFailure ==
  [][\A q \in Runners : runner[q].at = "sending" /\ runner'[q].at = "awaiting" => runner[q].failed = {}]_vars
===============================================================================
