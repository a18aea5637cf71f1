---------------------------- MODULE OwnerPromotion ----------------------------
(***************************************************************************)
(* What an owner decides from the evidence of saved evaluations, and what  *)
(* production then reads as a permission: pipeline/promotion.ts and        *)
(* gate-promotion-compatibility.ts for the appropriateness gate,           *)
(* planner-promotion.ts, planner-revalidation.ts and writer-promotion.ts   *)
(* for the two Luna stages.                                                *)
(*                                                                         *)
(* Every row is immutable and the newest decision on a configuration       *)
(* counts.  A command reads evidence, reviews and the identity of the code *)
(* one after the other and saves a decision without a lock, next to other  *)
(* commands, to trials and late accounting, and to deployments.            *)
(***************************************************************************)
EXTENDS Integers, FiniteSets, Sequences, SequencesExt

CONSTANTS Experiments,     \* saved evaluations
          StageOf,         \* [Experiments -> {"appropriateness", "planner", "writer"}]
          Configuration,   \* [Experiments -> what was evaluated]
          Source,          \* the planner's experiment whose saved replies may be read again
          Reread,          \* the configuration they are then evidence for
          Required,        \* trials of an experiment that must be valid
          Desks,           \* the owner's commands
          MaxReviews, MaxDecisions, MaxStarts   \* bounds

\* A configuration carries the name of its stage (stages/*.ts).
ASSUME PromotionAssumption ==
  /\ StageOf \in [Experiments -> {"appropriateness", "planner", "writer"}]
  /\ Required \in Nat \ {0}
  /\ \A e, f \in Experiments : Configuration[e] = Configuration[f] => StageOf[e] = StageOf[f]
  /\ \A e \in Experiments : Configuration[e] = Reread => StageOf[e] = "planner"

VARIABLES code,            \* the deployed code: the identity of every rule
          tested,          \* [Experiments -> the rule an experiment was created under]
          outcomes,        \* [Experiments -> [1 .. Required -> what a trial left]]
          altered,         \* experiments with rows accounted for since their trials
          finalized,       \* experiments with a frozen summary
          reviews, decisions,   \* rows in the order of created_at
          assessments,     \* promotion_assessments, by content
          rereadings,      \* planner_revalidations, by content
          compatibilities, \* gate_compatibilities of kind promotion
          desk,            \* [Desks -> the command it runs]
          starts           \* commands started

evidenceVars == <<tested, outcomes, altered, finalized>>
rowVars == <<reviews, decisions, assessments, rereadings, compatibilities>>
vars == <<code, evidenceVars, rowVars, desk, starts>>

\* The two rules that the compatibility policy and the revalidation's scope pin.
Codes == {"original", "current"}
Luna == {"planner", "writer"}
Numbers == 1 .. Required

\* A reply is good when it is a right disposition, or a plan that covers what
\* its owner expects; an unverified one was paid for and never interpreted.
Answers == {"good", "poor"}
NoAnswer == "none"
Trial == [status : {"open", "valid", "invalid", "unverified"}, answer : Answers \cup {NoAnswer}]
Open == [status |-> "open", answer |-> NoAnswer]
Ended == {[status |-> "invalid", answer |-> NoAnswer]} \cup [status : {"valid"}, answer : Answers]

Idle == [at |-> "idle"]
Direct == [rule |-> "none"]     \* evidence as it was interpreted when it was paid for
-----------------------------------------------------------------------------
(* What a configuration's evidence says *)

\* The rows an evidence identity is taken from: trials, attempts and charges.
Evidence(e) == [outcomes |-> outcomes[e], altered |-> e \in altered]

AllValid(e) == \A i \in Numbers : outcomes[e][i].status = "valid"
Good(e) == {i \in Numbers : outcomes[e][i] = [status |-> "valid", answer |-> "good"]}

(* assessSavedPromotion: every trial valid, 95 percent right. *)
Qualifies(e) == AllValid(e) /\ Cardinality(Good(e)) * 100 >= Required * 95

(* requirePlannerRevalidation: the proof was made by this very code, which *)
(* still reads the replies so, and the rows it was made from are as they   *)
(* were.                                                                   *)
Fresh(p) == /\ p \in rereadings /\ p.rule = code /\ code = "current"
            /\ p.evidence = Evidence(Source)

(* evaluationEvidence: an experiment as inspected, or as a proof has it.   *)
Inspected(e, via) ==
  IF via = Direct
  THEN [rule |-> tested[e], configuration |-> Configuration[e],
        answers |-> [i \in Numbers |-> IF outcomes[e][i].status = "valid" THEN outcomes[e][i].answer ELSE NoAnswer],
        passing |-> AllValid(e) /\ (StageOf[e] = "planner" => Good(e) = Numbers)]
  ELSE [rule |-> via.rule, configuration |-> Reread,
        answers |-> [i \in Numbers |-> via.evidence.outcomes[i].answer], passing |-> TRUE]

Citable(e) == {Direct} \cup (IF e = Source THEN {p \in rereadings : Fresh(p)} ELSE {})

(* currentPromotion: the newest decision on a configuration, or 0. *)
Current(c) == SelectLastInSeq(decisions, LAMBDA d : d.configuration = c)
Promoted(c) == Current(c) # 0 /\ decisions[Current(c)].decision = "promote"
-----------------------------------------------------------------------------
(* What production reads *)

(* requirePlannerPromotion and requireWriterPromotion: the decision names  *)
(* the rule of this code and a review per trial; the evidence itself is    *)
(* not read again, except under a proof.                                   *)
LunaPermits(c) ==
  /\ Promoted(c)
  /\ LET d == decisions[Current(c)]
     IN  /\ d.rule = code
         /\ Cardinality(d.reviews) = Required
         /\ d.via # Direct => Fresh(d.via)

(* historicalPromotion: a decision under the original rule, whose owner    *)
(* approved its transition to the current one.                             *)
Historical(c) ==
  /\ Promoted(c) /\ code = "current"
  /\ LET a == decisions[Current(c)].assessment IN a.qualifies /\ a.rule = "original"

(* requireGatePromotion: requirePromotion, or a proof for that decision    *)
(* whose retained evidence is as it was.                                   *)
GatePermits(c) ==
  /\ Promoted(c)
  /\ LET a == decisions[Current(c)].assessment
     IN  /\ a.qualifies
         /\ \/ a.rule = code
            \/ /\ Historical(c)
               /\ \E k \in compatibilities :
                    /\ k.subject = Current(c) /\ k.original = a
                    /\ k.current \in assessments /\ k.current.qualifies /\ k.current.rule = code
                    /\ k.retained = Evidence(a.experiment)
-----------------------------------------------------------------------------
Init ==
  /\ code \in Codes
  /\ tested \in [Experiments -> Codes]
  /\ \A e \in Experiments : e = Source => tested[e] = "original"
  /\ \E r \in [Numbers -> Answers] :
       outcomes = [e \in Experiments |-> [i \in Numbers |->
                     IF e = Source THEN [status |-> "unverified", answer |-> r[i]] ELSE Open]]
  /\ altered = {} /\ finalized = {}
  /\ reviews = <<>> /\ decisions = <<>>
  /\ assessments = {} /\ rereadings = {} /\ compatibilities = {}
  /\ desk = [d \in Desks |-> Idle] /\ starts = 0

\* The code is replaced, or the earlier one comes back.
Deploy == /\ code' \in Codes \ {code}
          /\ UNCHANGED <<evidenceVars, rowVars, desk, starts>>

\* An evaluation runs under the code it was created with, and ends a trial once.
EndTrial(e, i) == /\ code = tested[e] /\ e \notin finalized
                  /\ outcomes[e][i] = Open
                  /\ outcomes' \in {[outcomes EXCEPT ![e][i] = o] : o \in Ended}
                  /\ UNCHANGED <<code, tested, altered, finalized, rowVars, desk, starts>>

\* A charge that is learnt late changes an experiment's rows and no outcome.
Account(e) == /\ \E i \in Numbers : outcomes[e][i] # Open
              /\ altered' = altered \cup {e}
              /\ UNCHANGED <<code, tested, outcomes, finalized, rowVars, desk, starts>>

Finalize(e) == /\ StageOf[e] = "appropriateness" /\ e \notin finalized
               /\ finalized' = finalized \cup {e}
               /\ UNCHANGED <<code, tested, outcomes, altered, rowVars, desk, starts>>

Begin(d, work) == /\ desk[d] = Idle /\ starts < MaxStarts
                  /\ desk' = [desk EXCEPT ![d] = work] /\ starts' = starts + 1
                  /\ UNCHANGED <<code, evidenceVars, rowVars>>
Proceed(d, work) == /\ desk' = [desk EXCEPT ![d] = work]
                    /\ UNCHANGED <<code, evidenceVars, rowVars, starts>>
Done(d) == desk' = [desk EXCEPT ![d] = Idle] /\ UNCHANGED <<code, evidenceVars, starts>>

\* The command is refused, loses its lock or its connection, or is stopped.
Stop(d) == desk[d] # Idle /\ Done(d) /\ UNCHANGED rowVars
-----------------------------------------------------------------------------
(* Reviews and decisions on a Luna stage *)

(* recordPlannerReview, recordWriterReview: of a valid trial's result. *)
OpenReview(d, e, i) ==
  /\ StageOf[e] \in Luna
  /\ \E via \in Citable(e), passed \in BOOLEAN :
       LET seen == Inspected(e, via)
       IN  /\ seen.answers[i] # NoAnswer
           /\ Begin(d, [at |-> "review", row |-> [experiment |-> e, trial |-> i, answer |-> seen.answers[i],
                          configuration |-> seen.configuration, via |-> via, passed |-> passed]])

SaveReview(d) ==
  /\ desk[d].at = "review" /\ Len(reviews) < MaxReviews
  /\ reviews' = Append(reviews, desk[d].row)
  /\ Done(d) /\ UNCHANGED <<decisions, assessments, rereadings, compatibilities>>

(* recordPlannerDecision, recordWriterDecision: the evidence, *)
OpenDecision(d, e) ==
  /\ StageOf[e] \in Luna
  /\ \E via \in Citable(e), decision \in {"promote", "do_not_promote"} :
       Begin(d, [at |-> "reviews", experiment |-> e, via |-> via, decision |-> decision,
                 seen |-> Inspected(e, via)])

(* the reviews, *)
ReadReviews(d) ==
  /\ desk[d].at = "reviews"
  /\ Proceed(d, [at |-> "rule", experiment |-> desk[d].experiment, via |-> desk[d].via,
                 decision |-> desk[d].decision, seen |-> desk[d].seen, upTo |-> Len(reviews)])

\* The review of a trial that counts, among those that were read: the newest.
Counted(w, i) ==
  SelectLastInSeq(SubSeq(reviews, 1, w.upTo),
                  LAMBDA r : /\ r.experiment = w.experiment /\ r.trial = i
                             /\ r.configuration = w.seen.configuration /\ r.via = w.via)

\* Mutant: a review counts whatever it says.
AnyReviewed(w, i) == Counted(w, i) # 0

Reviewed(w, i) == /\ Counted(w, i) # 0
                  /\ reviews[Counted(w, i)].answer = w.seen.answers[i]
                  /\ reviews[Counted(w, i)].passed

(* and the identity of the code; a refusal to promote needs none of it. *)
CheckDecision(d) ==
  /\ desk[d].at = "rule"
  /\ LET w == desk[d]
         chosen == IF w.decision = "promote" THEN {Counted(w, i) : i \in Numbers} ELSE {}
     IN  /\ w.decision = "promote" => /\ w.seen.rule = code /\ w.seen.passing
                                      /\ \A i \in Numbers : Reviewed(w, i)
         /\ Proceed(d, [at |-> "decision",
                        row |-> [configuration |-> w.seen.configuration, decision |-> w.decision,
                                 experiment |-> w.experiment, rule |-> w.seen.rule, via |-> w.via,
                                 reviews |-> chosen]])

SaveDecision(d) ==
  /\ desk[d].at = "decision" /\ Len(decisions) < MaxDecisions
  /\ decisions' = Append(decisions, desk[d].row)
  /\ Done(d) /\ UNCHANGED <<reviews, assessments, rereadings, compatibilities>>
-----------------------------------------------------------------------------
(* revalidatePlannerAnswers: the approved replies, which were paid for but *)
(* never verified, are interpreted by the current code; no request is sent *)
(* and no row of the source changes.                                       *)

OpenRereading(d) ==
  /\ code = "current" /\ Source \in Experiments /\ Source \notin altered
  /\ \A i \in Numbers : outcomes[Source][i] = [status |-> "unverified", answer |-> "good"]
  /\ Begin(d, [at |-> "again", evidence |-> Evidence(Source)])

ConfirmRereading(d) ==
  /\ desk[d].at = "again" /\ desk[d].evidence = Evidence(Source)
  /\ Proceed(d, [at |-> "reread", row |-> [rule |-> code, evidence |-> desk[d].evidence]])

SaveRereading(d) ==
  /\ desk[d].at = "reread"
  /\ rereadings' = rereadings \cup {desk[d].row}
  /\ Done(d) /\ UNCHANGED <<reviews, decisions, assessments, compatibilities>>
-----------------------------------------------------------------------------
(* The appropriateness gate *)

Assessment(e, rule) == [experiment |-> e, configuration |-> Configuration[e], rule |-> rule,
                        evidence |-> Evidence(e), qualifies |-> Qualifies(e)]

\* assessSavedPromotion holds the experiment's lock.
Free(e) == \A d \in Desks : desk[d].at \in {"identity", "assessed"} => desk[d].row.experiment # e

OpenAssessment(d, e) ==
  /\ StageOf[e] = "appropriateness" /\ e \in finalized /\ Free(e)
  /\ Begin(d, [at |-> "identity", row |-> Assessment(e, "none")])

ReadIdentity(d) ==
  /\ desk[d].at = "identity"
  /\ Proceed(d, [at |-> "assessed", row |-> [desk[d].row EXCEPT !.rule = code]])

SaveAssessment(d) ==
  /\ desk[d].at = "assessed"
  /\ assessments' = assessments \cup {desk[d].row}
  /\ Done(d) /\ UNCHANGED <<reviews, decisions, rereadings, compatibilities>>

(* recordOwnerPromotion: the owner decides on an assessment of this code, *)
OpenPromotion(d) ==
  \E a \in assessments, decision \in {"promote", "do_not_promote"} :
     /\ a.rule = code
     /\ Begin(d, [at |-> "promotion", row |-> [configuration |-> a.configuration,
                                               decision |-> decision, assessment |-> a]])

(* recordPromotion: and can only promote one that qualifies. *)
SavePromotion(d) ==
  /\ desk[d].at = "promotion" /\ Len(decisions) < MaxDecisions
  /\ desk[d].row.decision = "promote" => desk[d].row.assessment.qualifies
  /\ decisions' = Append(decisions, desk[d].row)
  /\ Done(d) /\ UNCHANGED <<reviews, assessments, rereadings, compatibilities>>

(* revalidateSavedGatePromotion: the standing decision and the identity of *)
(* the evidence it retains,                                                *)
OpenCompatibility(d, c) ==
  /\ Historical(c)
  /\ LET a == decisions[Current(c)].assessment
     IN  Begin(d, [at |-> "reassess", subject |-> Current(c), original |-> a,
                   retained |-> Evidence(a.experiment)])

(* the evidence assessed anew, with what it was found to be before,        *)
Reassess(d) ==
  /\ desk[d].at = "reassess"
  /\ LET w == desk[d]
         again == Assessment(w.original.experiment, code)
     IN  /\ Free(w.original.experiment)
         /\ again.qualifies = w.original.qualifies /\ again.evidence = w.original.evidence
         /\ Proceed(d, [at |-> "confirm", subject |-> w.subject, original |-> w.original,
                        retained |-> w.retained, current |-> again])

(* both as they were, and then the two rows, one after the other.          *)
Confirmed(w) == /\ Evidence(w.original.experiment) = w.retained
                /\ Current(w.original.configuration) = w.subject

ConfirmCompatibility(d) ==
  /\ desk[d].at = "confirm" /\ Confirmed(desk[d])
  /\ Proceed(d, [desk[d] EXCEPT !.at = "both"])

SaveReassessment(d) ==
  /\ desk[d].at = "both"
  /\ assessments' = assessments \cup {desk[d].current}
  /\ desk' = [desk EXCEPT ![d].at = "proof"]
  /\ UNCHANGED <<code, evidenceVars, starts, reviews, decisions, rereadings, compatibilities>>

\* One proof of a decision under a rule: a different one is a conflict.
SaveCompatibility(d) ==
  /\ desk[d].at = "proof"
  /\ LET w == desk[d]
         k == [subject |-> w.subject, original |-> w.original, retained |-> w.retained, current |-> w.current]
     IN  compatibilities' = IF \E j \in compatibilities : j.subject = w.subject /\ j.current.rule = w.current.rule
                            THEN compatibilities ELSE compatibilities \cup {k}
  /\ Done(d) /\ UNCHANGED <<reviews, decisions, assessments, rereadings>>
-----------------------------------------------------------------------------
DeskStep(d) ==
  \/ \E e \in Experiments : OpenDecision(d, e) \/ OpenAssessment(d, e) \/ \E i \in Numbers : OpenReview(d, e, i)
  \/ \E e \in Experiments : StageOf[e] = "appropriateness" /\ OpenCompatibility(d, Configuration[e])
  \/ SaveReview(d) \/ ReadReviews(d) \/ CheckDecision(d) \/ SaveDecision(d)
  \/ OpenRereading(d) \/ ConfirmRereading(d) \/ SaveRereading(d)
  \/ ReadIdentity(d) \/ SaveAssessment(d) \/ OpenPromotion(d) \/ SavePromotion(d)
  \/ Reassess(d) \/ ConfirmCompatibility(d) \/ SaveReassessment(d) \/ SaveCompatibility(d)
  \/ Stop(d)

Next == \/ Deploy \/ \E d \in Desks : DeskStep(d)
        \/ \E e \in Experiments : Account(e) \/ Finalize(e) \/ \E i \in Numbers : EndTrial(e, i)
Spec == Init /\ [][Next]_vars
-----------------------------------------------------------------------------
\* What a trial of a decision's experiment must be worth to the owner.
Sound(d, i) ==
  LET o == outcomes[d.experiment][i]
  IN  /\ o.answer \in (IF StageOf[d.experiment] = "planner" THEN {"good"} ELSE Answers)
      /\ IF d.via = Direct THEN o.status = "valid" /\ tested[d.experiment] = code
                           ELSE o.status = "unverified" /\ d.experiment \notin altered
      /\ \E r \in d.reviews : /\ reviews[r].experiment = d.experiment /\ reviews[r].trial = i
                              /\ reviews[r].answer = o.answer /\ reviews[r].passed
                              /\ reviews[r].via = d.via

(* A permission that production reads now rests on evidence that holds now *)
(* under the code that runs now, although production reads little of it:   *)
(* "decisions are immutable and can be written only after all three        *)
(* reviewed trials pass" (planner-promotion.ts:83).  Each trial of a       *)
(* promoted Luna configuration is what an owner passed; an accepted gate's *)
(* finalized trials are all valid and right, and a proof that carries a    *)
(* decision to another code ends with the evidence it was made from.       *)
PermissionIsEarned ==
  \A e \in Experiments :
    /\ StageOf[e] = "appropriateness" /\ GatePermits(Configuration[e]) =>
         LET a == decisions[Current(Configuration[e])].assessment
         IN  /\ a.experiment \in finalized /\ Qualifies(a.experiment)
             /\ a.rule = code \/ a.evidence = Evidence(a.experiment)
    /\ \A c \in {Configuration[e], Reread} :
         StageOf[e] \in Luna /\ LunaPermits(c) =>
           \A i \in Numbers : Sound(decisions[Current(c)], i)
===============================================================================
