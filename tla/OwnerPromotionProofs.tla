------------------------- MODULE OwnerPromotionProofs -------------------------
(***************************************************************************)
(* Theorems about promotion: what production reads as a permission rests   *)
(* on evidence that holds now under the code that runs now, for any        *)
(* experiments, trials and owner's commands, with a command's reads, its   *)
(* write, trials, late accounting and deployments in any order.            *)
(***************************************************************************)
EXTENDS OwnerPromotion, WellFoundedInduction, TLAPS

Decisions == {"promote", "do_not_promote"}
Configurations == {Configuration[e] : e \in Experiments} \union {Reread}
Rows == [outcomes : [Numbers -> Trial], altered : BOOLEAN]

\* The saved replies that may be read again: every one approved, none accounted since.
Approved == [outcomes |-> [i \in Numbers |-> [status |-> "unverified", answer |-> "good"]],
             altered |-> FALSE]
RereadingRows == [rule : Codes, evidence : {Approved}]
Vias == {Direct} \union RereadingRows

ReviewRows == [experiment : Experiments, trial : Numbers, answer : Answers,
               configuration : Configurations, via : Vias, passed : BOOLEAN]
LunaRows == [configuration : Configurations, decision : Decisions, experiment : Experiments,
             rule : Codes, via : Vias, reviews : SUBSET Nat]
AssessmentRows(rules) == [experiment : Experiments, configuration : Configurations, rule : rules,
                          evidence : Rows, qualifies : BOOLEAN]
GateRows == [configuration : Configurations, decision : Decisions, assessment : AssessmentRows(Codes)]
CompatibilityRows == [subject : Nat, original : AssessmentRows(Codes), retained : Rows,
                      current : AssessmentRows(Codes)]
Sights == [rule : Codes, configuration : Configurations, answers : [Numbers -> Answers \union {NoAnswer}],
           passing : BOOLEAN]
------------------------------------------------------------------------------
(* What a row or a command rests on, and how it may grow meanwhile         *)

World == [tested |-> tested, outcomes |-> outcomes, altered |-> altered,
          finalized |-> finalized, reviews |-> reviews]
Worlds == [tested : [Experiments -> Codes], outcomes : [Experiments -> [Numbers -> Trial]],
           altered : SUBSET Experiments, finalized : SUBSET Experiments, reviews : Seq(ReviewRows)]

Grown(u, v) ==
  /\ v.tested = u.tested
  /\ \A e \in Experiments, i \in Numbers :
       u.outcomes[e][i] # Open => v.outcomes[e][i] = u.outcomes[e][i]
  /\ \A e \in u.finalized : v.outcomes[e] = u.outcomes[e]
  /\ u.altered \subseteq v.altered /\ u.finalized \subseteq v.finalized
  /\ Len(u.reviews) <= Len(v.reviews)
  /\ \A n \in 1 .. Len(u.reviews) : v.reviews[n] = u.reviews[n]

\* A stage's answers that can be promoted, and an experiment that qualifies.
Expected(e) == IF StageOf[e] = "planner" THEN {"good"} ELSE Answers
Valid(answer) == [status |-> "valid", answer |-> answer]
Right(o) == /\ \A i \in Numbers : o[i].status = "valid"
            /\ Cardinality({i \in Numbers : o[i] = [status |-> "valid", answer |-> "good"]}) * 100
               >= Required * 95

(* What a command saw of an experiment is what its trials ended with, or   *)
(* what the approved replies are read as.                                  *)
SeenIn(e, via, seen, u) ==
  /\ StageOf[e] \in Luna
  /\ via = Direct =>
       /\ seen.rule = u.tested[e] /\ seen.configuration = Configuration[e]
       /\ \A i \in Numbers : seen.answers[i] # NoAnswer => u.outcomes[e][i] = Valid(seen.answers[i])
       /\ seen.passing => \A i \in Numbers : seen.answers[i] \in Expected(e)
  /\ via # Direct =>
       /\ e = Source /\ seen.configuration = Reread
       /\ \A i \in Numbers : seen.answers[i] = "good"

(* A review of a trial's answer that the owner passed.                     *)
Passes(r, e, via, i, answer, u) ==
  /\ r \in 1 .. Len(u.reviews)
  /\ u.reviews[r].experiment = e /\ u.reviews[r].trial = i /\ u.reviews[r].answer = answer
  /\ u.reviews[r].via = via /\ u.reviews[r].passed

(* A decision on a Luna stage: to promote, each trial has an answer worth  *)
(* it, which the owner passed.                                             *)
Worthy(row, i, answer, u) ==
  /\ answer \in Expected(row.experiment)
  /\ row.via = Direct => row.rule = u.tested[row.experiment] /\ u.outcomes[row.experiment][i] = Valid(answer)
  /\ row.via # Direct => answer = "good"
  /\ \E r \in row.reviews : Passes(r, row.experiment, row.via, i, answer, u)
Earned(row, u) ==
  /\ StageOf[row.experiment] \in Luna
  /\ row.configuration \in {Configuration[row.experiment], Reread}
  /\ row.via # Direct => row.experiment = Source
  /\ row.decision = "promote" => \A i \in Numbers : \E answer \in Answers : Worthy(row, i, answer, u)

(* An assessment of a gate says what its frozen trials say; only late      *)
(* charges come after it.                                                  *)
Assessed(a, u) ==
  /\ StageOf[a.experiment] = "appropriateness" /\ a.configuration = Configuration[a.experiment]
  /\ a.experiment \in u.finalized
  /\ a.evidence.outcomes = u.outcomes[a.experiment] /\ a.qualifies = Right(u.outcomes[a.experiment])
  /\ a.evidence.altered => a.experiment \in u.altered
Assigned(row, u) == Assessed(row.assessment, u) /\ row.configuration = row.assessment.configuration

Standing(row, u) == \/ row \in LunaRows /\ Earned(row, u)
                    \/ row \in GateRows /\ Assigned(row, u)

(* The evidence that a proof will retain, from its first read on.          *)
Retained(w, u) == /\ Assessed(w.original, u)
                  /\ w.retained.outcomes = u.outcomes[w.original.experiment]

(* What a command holds between two of its steps.                          *)
Holds(w, u) ==
  /\ w.at = "review" => w \in [at : {"review"}, row : ReviewRows]
  /\ w.at = "reviews" =>
       /\ w \in [at : {"reviews"}, experiment : Experiments, via : Vias, decision : Decisions, seen : Sights]
       /\ SeenIn(w.experiment, w.via, w.seen, u)
  /\ w.at = "rule" =>
       /\ w \in [at : {"rule"}, experiment : Experiments, via : Vias, decision : Decisions,
                 seen : Sights, upTo : Nat]
       /\ SeenIn(w.experiment, w.via, w.seen, u) /\ w.upTo <= Len(u.reviews)
  /\ w.at = "decision" => w \in [at : {"decision"}, row : LunaRows] /\ Earned(w.row, u)
  /\ w.at = "again" => w \in [at : {"again"}, evidence : {Approved}]
  /\ w.at = "reread" => w \in [at : {"reread"}, row : RereadingRows]
  /\ w.at = "identity" => w \in [at : {"identity"}, row : AssessmentRows({"none"})] /\ Assessed(w.row, u)
  /\ w.at = "assessed" => w \in [at : {"assessed"}, row : AssessmentRows(Codes)] /\ Assessed(w.row, u)
  /\ w.at = "promotion" => w \in [at : {"promotion"}, row : GateRows] /\ Assigned(w.row, u)
  /\ w.at = "reassess" =>
       /\ w \in [at : {"reassess"}, subject : Nat, original : AssessmentRows(Codes), retained : Rows]
       /\ Retained(w, u)
       /\ w.retained.altered => w.original.experiment \in u.altered
  /\ w.at \in {"confirm", "both", "proof"} =>
       /\ w \in [at : {"confirm", "both", "proof"}, subject : Nat, original : AssessmentRows(Codes),
                 retained : Rows, current : AssessmentRows(Codes)]
       /\ Retained(w, u) /\ Assessed(w.current, u)
       /\ w.retained.altered => w.original.evidence.altered
  /\ w.at \in {"both", "proof"} => w.retained = w.original.evidence

(* The inductive invariant.                                                *)
WorldTyped == /\ World \in Worlds
              /\ \A e \in Experiments, i \in Numbers :
                   outcomes[e][i].status = "valid" => outcomes[e][i].answer \in Answers
CodeTyped == code \in Codes
DecisionsStand == /\ decisions \in Seq(LunaRows \union GateRows)
                  /\ \A n \in 1 .. Len(decisions) : Standing(decisions[n], World)
AssessmentsStand == \A a \in assessments : a \in AssessmentRows(Codes) /\ Assessed(a, World)
RereadingsTyped == rereadings \subseteq RereadingRows
CompatibilitiesStand == \A k \in compatibilities :
                          k \in CompatibilityRows /\ k.retained = k.original.evidence
DesksHold == DOMAIN desk = Desks /\ \A d \in Desks : Holds(desk[d], World)
Inv == /\ WorldTyped /\ CodeTyped /\ DecisionsStand /\ AssessmentsStand /\ RereadingsTyped
       /\ CompatibilitiesStand /\ DesksHold
------------------------------------------------------------------------------
(* The last of a sequence's elements that pass a test                      *)

(* A set of numbers has a least element; a bounded one has a greatest.     *)
LEMMA LeastNumber ==
  ASSUME NEW V, V \subseteq Nat, V # {}
  PROVE  \E i \in V : \A j \in V : i <= j
<1> DEFINE less == OpToRel(<, Nat)
<1>1. \A x, y \in Nat : <<x, y>> \in less <=> x < y
  BY DEF OpToRel
<1>2. IsWellFoundedOn(less, Nat)
  BY NatLessThanWellFounded
<1> HIDE DEF less
<1>3. PICK i \in V : \A j \in V : ~ (<<j, i>> \in less)
  BY <1>2, WFMin
<1>4. \A j \in V : ~(j < i)
  BY <1>1, <1>3
<1> QED
  BY <1>4

LEMMA GreatestOfBounded ==
  ASSUME NEW V, V \subseteq Nat, V # {}, NEW b \in Nat, \A j \in V : j <= b
  PROVE  Max(V) \in V
<1> DEFINE above == {n \in Nat : \A j \in V : j <= n}
<1>1. above \subseteq Nat /\ above # {}
  OBVIOUS
<1>2. PICK i \in above : \A n \in above : i <= n
  BY <1>1, LeastNumber
<1>3. PICK v : v \in V
  OBVIOUS
<1>4. ASSUME i \notin V PROVE FALSE
  <2>1. \A j \in V : j < i
    BY <1>2, <1>4
  <2>2. i - 1 \in above
    BY <2>1, <1>3
  <2> QED
    BY <2>2, <1>2
<1>5. i \in V /\ \A j \in V : i >= j
  BY <1>2, <1>4
<1> QED
  BY <1>5 DEF Max

(* The decision that counts on a configuration is one of its decisions.    *)
LEMMA CurrentDecides ==
  ASSUME NEW S, decisions \in Seq(S), NEW c, Current(c) # 0
  PROVE  Current(c) \in 1 .. Len(decisions) /\ decisions[Current(c)].configuration = c
<1> DEFINE I == {n \in 1 .. Len(decisions) : decisions[n].configuration = c}
<1>1. Current(c) = IF I # {} THEN Max(I) ELSE 0
  BY DEF Current, SelectLastInSeq
<1>2. Len(decisions) \in Nat /\ I \subseteq Nat /\ \A j \in I : j <= Len(decisions)
  OBVIOUS
<1> HIDE DEF I
<1>3. I # {} /\ Current(c) = Max(I)
  BY <1>1
<1>4. Max(I) \in I
  BY <1>2, <1>3, GreatestOfBounded
<1> QED
  BY <1>3, <1>4 DEF I

(* The review that counts for a trial is one of that trial's, in the range *)
(* that was read.                                                          *)
LEMMA CountedReviews ==
  ASSUME NEW S, reviews \in Seq(S), NEW w, w.upTo \in Nat, w.upTo <= Len(reviews),
         NEW i, Counted(w, i) # 0
  PROVE  /\ Counted(w, i) \in 1 .. w.upTo
         /\ reviews[Counted(w, i)].experiment = w.experiment
         /\ reviews[Counted(w, i)].trial = i /\ reviews[Counted(w, i)].via = w.via
<1> DEFINE s == SubSeq(reviews, 1, w.upTo)
           I == {n \in 1 .. Len(s) : /\ s[n].experiment = w.experiment /\ s[n].trial = i
                                     /\ s[n].configuration = w.seen.configuration /\ s[n].via = w.via}
<1>1. Counted(w, i) = IF I # {} THEN Max(I) ELSE 0
  BY DEF Counted, SelectLastInSeq
<1>2. Len(s) = w.upTo /\ \A n \in 1 .. w.upTo : s[n] = reviews[n]
  BY SMT
<1>3. I \subseteq Nat /\ \A j \in I : j <= w.upTo
  BY <1>2
<1> HIDE DEF I
<1>4. I # {} /\ Counted(w, i) = Max(I)
  BY <1>1
<1>5. Max(I) \in I
  BY <1>3, <1>4, GreatestOfBounded
<1>6. Max(I) \in 1 .. w.upTo
  BY <1>5, <1>2 DEF I
<1> QED
  BY <1>2, <1>4, <1>5, <1>6 DEF I
------------------------------------------------------------------------------
(* What a row or a command rests on stays when the world grows.            *)

LEMMA SightStays ==
  ASSUME NEW u, NEW v, Grown(u, v), NEW e \in Experiments, NEW via, NEW seen \in Sights, SeenIn(e, via, seen, u)
  PROVE  SeenIn(e, via, seen, v)
<1>1. \A i \in Numbers : seen.answers[i] \in Answers \union {NoAnswer}
  BY DEF Sights
<1>2. \A a : Valid(a) # Open
  BY DEF Valid, Open
<1> QED
  BY <1>1, <1>2 DEF SeenIn, Grown

LEMMA PassStays ==
  ASSUME NEW u, NEW v, u \in Worlds, v \in Worlds, Grown(u, v),
         NEW r, NEW e, NEW via, NEW i, NEW answer, Passes(r, e, via, i, answer, u)
  PROVE  Passes(r, e, via, i, answer, v)
<1>1. Len(u.reviews) \in Nat /\ Len(v.reviews) \in Nat
  BY DEF Worlds
<1> QED
  BY <1>1 DEF Passes, Grown

LEMMA EarnedStays ==
  ASSUME NEW u \in Worlds, NEW v \in Worlds, Grown(u, v), NEW row \in LunaRows, Earned(row, u)
  PROVE  Earned(row, v)
<1>1. row.experiment \in Experiments
  BY DEF LunaRows
<1>2. \A a : Valid(a) # Open
  BY DEF Valid, Open
<1>3. ASSUME NEW i \in Numbers, NEW answer, Worthy(row, i, answer, u)
      PROVE  Worthy(row, i, answer, v)
  <2>1. \E r \in row.reviews : Passes(r, row.experiment, row.via, i, answer, v)
    BY <1>3, PassStays DEF Worthy
  <2>2. row.via = Direct => v.outcomes[row.experiment][i] = u.outcomes[row.experiment][i]
    BY <1>1, <1>2, <1>3 DEF Worthy, Grown
  <2> QED
    BY <1>3, <2>1, <2>2 DEF Worthy, Grown
<1> QED
  BY <1>3 DEF Earned

LEMMA AssessmentStays ==
  ASSUME NEW u, NEW v, Grown(u, v), NEW a, Assessed(a, u)
  PROVE  Assessed(a, v)
  BY DEF Assessed, Grown

LEMMA StandingStays ==
  ASSUME NEW u \in Worlds, NEW v \in Worlds, Grown(u, v), NEW row, Standing(row, u)
  PROVE  Standing(row, v)
  BY EarnedStays, AssessmentStays DEF Standing, Assigned

LEMMA RetainedStays ==
  ASSUME NEW u, NEW v, Grown(u, v), NEW w, Retained(w, u)
  PROVE  Retained(w, v)
<1>1. v.outcomes[w.original.experiment] = u.outcomes[w.original.experiment]
  BY DEF Retained, Assessed, Grown
<1> QED
  BY <1>1, AssessmentStays DEF Retained

LEMMA HoldStays ==
  ASSUME NEW u \in Worlds, NEW v \in Worlds, Grown(u, v), NEW w, Holds(w, u)
  PROVE  Holds(w, v)
<1>1. w.at = "reviews" =>
        /\ w \in [at : {"reviews"}, experiment : Experiments, via : Vias, decision : Decisions, seen : Sights]
        /\ SeenIn(w.experiment, w.via, w.seen, v)
  BY SightStays DEF Holds
<1>2. w.at = "rule" =>
        /\ w \in [at : {"rule"}, experiment : Experiments, via : Vias, decision : Decisions,
                  seen : Sights, upTo : Nat]
        /\ SeenIn(w.experiment, w.via, w.seen, v) /\ w.upTo <= Len(v.reviews)
  <2>1. Len(u.reviews) \in Nat /\ Len(v.reviews) \in Nat /\ Len(u.reviews) <= Len(v.reviews)
    BY DEF Worlds, Grown
  <2> QED
    BY <2>1, SightStays DEF Holds
<1>3. w.at = "decision" => w \in [at : {"decision"}, row : LunaRows] /\ Earned(w.row, v)
  BY EarnedStays DEF Holds
<1>4. w.at = "promotion" => w \in [at : {"promotion"}, row : GateRows] /\ Assigned(w.row, v)
  BY AssessmentStays DEF Holds, Assigned
<1>5. /\ w.at = "identity" => w \in [at : {"identity"}, row : AssessmentRows({"none"})] /\ Assessed(w.row, v)
      /\ w.at = "assessed" => w \in [at : {"assessed"}, row : AssessmentRows(Codes)] /\ Assessed(w.row, v)
  BY AssessmentStays DEF Holds
<1>6. w.at = "reassess" =>
        /\ w \in [at : {"reassess"}, subject : Nat, original : AssessmentRows(Codes), retained : Rows]
        /\ Retained(w, v)
        /\ w.retained.altered => w.original.experiment \in v.altered
  <2>1. u.altered \subseteq v.altered
    BY DEF Grown
  <2> QED
    BY <2>1, RetainedStays DEF Holds
<1>7. w.at \in {"confirm", "both", "proof"} =>
        /\ w \in [at : {"confirm", "both", "proof"}, subject : Nat, original : AssessmentRows(Codes),
                  retained : Rows, current : AssessmentRows(Codes)]
        /\ Retained(w, v) /\ Assessed(w.current, v)
        /\ w.retained.altered => w.original.evidence.altered
  BY AssessmentStays, RetainedStays DEF Holds
<1>8. /\ w.at = "review" => w \in [at : {"review"}, row : ReviewRows]
      /\ w.at = "again" => w \in [at : {"again"}, evidence : {Approved}]
      /\ w.at = "reread" => w \in [at : {"reread"}, row : RereadingRows]
      /\ w.at \in {"both", "proof"} => w.retained = w.original.evidence
  BY DEF Holds
<1> QED
  BY <1>1, <1>2, <1>3, <1>4, <1>5, <1>6, <1>7, <1>8 DEF Holds
------------------------------------------------------------------------------
(* The forms of a step                                                     *)

LEMMA WorldKept ==
  ASSUME UNCHANGED <<evidenceVars, reviews>>
  PROVE  World' = World
  BY DEF World, evidenceVars

LEMMA IdleHolds ==
  ASSUME NEW u
  PROVE  Holds(Idle, u)
  BY DEF Holds, Idle

(* A command reads, and holds what it read.                                *)
LEMMA CommandReads ==
  ASSUME Inv, NEW d \in Desks, NEW work, Holds(work, World),
         desk' = [desk EXCEPT ![d] = work], UNCHANGED <<code, evidenceVars, rowVars>>
  PROVE  Inv'
<1>1. World' = World
  BY WorldKept DEF rowVars
<1>2. WorldTyped' /\ CodeTyped'
  BY <1>1 DEF Inv, WorldTyped, CodeTyped, evidenceVars
<1>3. DecisionsStand' /\ AssessmentsStand' /\ RereadingsTyped' /\ CompatibilitiesStand'
  BY <1>1 DEF Inv, DecisionsStand, AssessmentsStand, RereadingsTyped, CompatibilitiesStand, rowVars
<1>4. DesksHold'
  <2>1. DOMAIN desk = Desks /\ \A x \in Desks : Holds(desk[x], World)
    BY DEF Inv, DesksHold
  <2>2. DOMAIN desk' = Desks /\ \A x \in Desks : desk'[x] = IF x = d THEN work ELSE desk[x]
    BY <2>1
  <2>3. \A x \in Desks : Holds(desk'[x], World)
    BY <2>1, <2>2
  <2> QED
    BY <1>1, <2>2, <2>3 DEF DesksHold
<1> QED
  BY <1>2, <1>3, <1>4 DEF Inv

(* A command writes its row, or nothing, and ends.                         *)
LEMMA CommandEnds ==
  ASSUME Inv, NEW d \in Desks, Done(d), Grown(World, World'), WorldTyped', DecisionsStand',
         AssessmentsStand', RereadingsTyped', CompatibilitiesStand'
  PROVE  Inv'
<1>1. CodeTyped'
  BY DEF Inv, CodeTyped, Done
<1>2. World \in Worlds /\ World' \in Worlds
  BY DEF Inv, WorldTyped
<1>3. DesksHold'
  <2>1. DOMAIN desk = Desks /\ \A x \in Desks : Holds(desk[x], World)
    BY DEF Inv, DesksHold
  <2>2. DOMAIN desk' = Desks /\ \A x \in Desks : desk'[x] = IF x = d THEN Idle ELSE desk[x]
    BY <2>1 DEF Done
  <2>3. \A x \in Desks : Holds(desk[x], World')
    BY <1>2, <2>1, HoldStays
  <2>4. \A x \in Desks : Holds(desk'[x], World')
    BY <2>2, <2>3, IdleHolds
  <2> QED
    BY <2>2, <2>4 DEF DesksHold
<1> QED
  BY <1>1, <1>3 DEF Inv

LEMMA Unmoved ==
  ASSUME World' = World
  PROVE  Grown(World, World')
<1>1. World.tested = tested /\ World.reviews = reviews
  BY DEF World
<1> QED
  BY DEF Grown

(* The evidence changes under the commands, and no row does.               *)
LEMMA EvidenceChanges ==
  ASSUME Inv, Grown(World, World'), WorldTyped', CodeTyped', UNCHANGED <<rowVars, desk>>
  PROVE  Inv'
<1>1. World \in Worlds /\ World' \in Worlds
  BY DEF Inv, WorldTyped
<1>2. DecisionsStand'
  BY <1>1, StandingStays DEF Inv, DecisionsStand, rowVars
<1>3. AssessmentsStand'
  BY AssessmentStays DEF Inv, AssessmentsStand, rowVars
<1>4. RereadingsTyped' /\ CompatibilitiesStand'
  BY DEF Inv, RereadingsTyped, CompatibilitiesStand, rowVars
<1>5. DesksHold'
  BY <1>1, HoldStays DEF Inv, DesksHold
<1> QED
  BY <1>2, <1>3, <1>4, <1>5 DEF Inv
------------------------------------------------------------------------------
(* Evidence                                                                *)

LEMMA WorldFields ==
  /\ World.tested = tested /\ World.outcomes = outcomes /\ World.altered = altered
  /\ World.finalized = finalized /\ World.reviews = reviews
  BY DEF World

LEMMA WorldTypes ==
  ASSUME Inv
  PROVE  /\ tested \in [Experiments -> Codes] /\ outcomes \in [Experiments -> [Numbers -> Trial]]
         /\ altered \subseteq Experiments /\ finalized \subseteq Experiments
         /\ reviews \in Seq(ReviewRows) /\ Len(reviews) \in Nat /\ World \in Worlds
  BY DEF Inv, WorldTyped, World, Worlds

LEMMA QualifiesIsRight ==
  ASSUME NEW e
  PROVE  Qualifies(e) = Right(outcomes[e])
  BY Zenon DEF Qualifies, AllValid, Good, Right

LEMMA QualifiesBoolean ==
  ASSUME NEW o
  PROVE  Right(o) \in BOOLEAN
  BY DEF Right

LEMMA EvidenceTyped ==
  ASSUME Inv, NEW e \in Experiments
  PROVE  Evidence(e) \in Rows
  BY WorldTypes DEF Evidence, Rows

(* What inspection finds of an experiment, or of a proof that may be cited. *)
LEMMA InspectionSees ==
  ASSUME Inv, NEW e \in Experiments, StageOf[e] \in Luna, NEW via \in Citable(e)
  PROVE  /\ via \in Vias /\ Inspected(e, via) \in Sights
         /\ SeenIn(e, via, Inspected(e, via), World)
<1> DEFINE seen == Inspected(e, via)
<1>1. CASE via = Direct
  <2>1. /\ seen.rule = tested[e] /\ seen.configuration = Configuration[e]
        /\ seen.answers = [i \in Numbers |-> IF outcomes[e][i].status = "valid" THEN outcomes[e][i].answer
                                             ELSE NoAnswer]
        /\ seen.passing = (AllValid(e) /\ (StageOf[e] = "planner" => Good(e) = Numbers))
    BY <1>1 DEF Inspected
  <2>2. \A i \in Numbers : outcomes[e][i] \in Trial
    BY WorldTypes
  <2>3. \A i \in Numbers : outcomes[e][i].status = "valid" => outcomes[e][i].answer \in Answers
    BY DEF Inv, WorldTyped
  <2>4. \A i \in Numbers : outcomes[e][i].status = "valid" => outcomes[e][i] = Valid(outcomes[e][i].answer)
    BY <2>2 DEF Trial, Valid
  <2>5. seen.answers \in [Numbers -> Answers \union {NoAnswer}]
    BY <2>1, <2>3
  <2>6. seen \in Sights
    <3>1. seen.rule \in Codes /\ seen.configuration \in Configurations
      BY <2>1, WorldTypes DEF Configurations
    <3> QED
      BY <1>1, <2>1, <2>5, <3>1 DEF Inspected, Sights
  <2>7. \A i \in Numbers : seen.answers[i] # NoAnswer => outcomes[e][i] = Valid(seen.answers[i])
    BY <2>1, <2>4
  <2>8. ASSUME seen.passing, NEW i \in Numbers PROVE seen.answers[i] \in Expected(e)
    <3>1. outcomes[e][i].status = "valid" /\ seen.answers[i] = outcomes[e][i].answer
      BY <2>1, <2>8 DEF AllValid
    <3>2. StageOf[e] = "planner" => i \in Good(e)
      BY <2>1, <2>8
    <3>3. StageOf[e] = "planner" => outcomes[e][i].answer = "good"
      BY <3>2 DEF Good
    <3> QED
      BY <2>3, <3>1, <3>3 DEF Expected
  <2> QED
    BY <1>1, <2>1, <2>6, <2>7, <2>8, WorldFields DEF SeenIn, Vias
<1>2. CASE via # Direct
  <2>1. e = Source /\ via \in rereadings
    BY <1>2 DEF Citable
  <2>2. via \in RereadingRows
    BY <2>1 DEF Inv, RereadingsTyped
  <2>3. \A i \in Numbers : via.evidence.outcomes[i].answer = "good"
    BY <2>2 DEF RereadingRows, Approved
  <2>4. seen = [rule |-> via.rule, configuration |-> Reread,
                answers |-> [i \in Numbers |-> via.evidence.outcomes[i].answer], passing |-> TRUE]
    BY <1>2 DEF Inspected
  <2>5. via.rule \in Codes
    BY <2>2 DEF RereadingRows
  <2>6. seen \in Sights
    BY <2>3, <2>4, <2>5 DEF Sights, Configurations, Answers
  <2> QED
    BY <1>2, <2>1, <2>2, <2>3, <2>4, <2>6 DEF SeenIn, Vias
<1> QED
  BY <1>1, <1>2
------------------------------------------------------------------------------
(* Reviews and decisions on a Luna stage                                   *)

LEMMA OpenReviewKeeps ==
  ASSUME Inv, NEW d \in Desks, NEW e \in Experiments, NEW i \in Numbers, OpenReview(d, e, i)
  PROVE  Inv'
<1>1. PICK via \in Citable(e), passed \in BOOLEAN :
        /\ Inspected(e, via).answers[i] # NoAnswer
        /\ Begin(d, [at |-> "review", row |-> [experiment |-> e, trial |-> i, answer |-> Inspected(e, via).answers[i],
                       configuration |-> Inspected(e, via).configuration, via |-> via, passed |-> passed]])
  BY DEF OpenReview
<1>2. via \in Vias /\ Inspected(e, via) \in Sights
  BY InspectionSees DEF OpenReview
<1>3. PICK seen : seen = Inspected(e, via)
  OBVIOUS
<1>4. seen.answers[i] \in Answers /\ seen.configuration \in Configurations
  BY <1>1, <1>2, <1>3 DEF Sights
<1> DEFINE row == [experiment |-> e, trial |-> i, answer |-> seen.answers[i],
                   configuration |-> seen.configuration, via |-> via, passed |-> passed]
           work == [at |-> "review", row |-> row]
<1>5. row \in ReviewRows
  BY <1>2, <1>4 DEF ReviewRows
<1>6. work.at = "review" /\ work \in [at : {"review"}, row : ReviewRows]
  BY <1>5
<1>7. Begin(d, work)
  BY <1>1, <1>3
<1> HIDE DEF work
<1>8. Holds(work, World)
  BY <1>6 DEF Holds
<1> QED
  BY <1>7, <1>8, CommandReads DEF Begin

LEMMA SaveReviewKeeps ==
  ASSUME Inv, NEW d \in Desks, SaveReview(d)
  PROVE  Inv'
<1>1. desk[d].row \in ReviewRows
  BY DEF Inv, DesksHold, Holds, SaveReview
<1>2. reviews' = Append(reviews, desk[d].row) /\ Done(d)
      /\ UNCHANGED <<decisions, assessments, rereadings, compatibilities>>
  BY DEF SaveReview
<1>3. PICK row : row = desk[d].row
  OBVIOUS
<1>4. /\ reviews' \in Seq(ReviewRows) /\ Len(reviews') = Len(reviews) + 1
      /\ \A n \in 1 .. Len(reviews) : reviews'[n] = reviews[n]
  BY <1>1, <1>2, <1>3, WorldTypes
<1>5. UNCHANGED evidenceVars
  BY <1>2 DEF Done
<1>6. WorldTyped'
  BY <1>4, <1>5, WorldTypes DEF Inv, WorldTyped, World, Worlds, evidenceVars
<1>7. Grown(World, World')
  BY <1>4, <1>5, WorldTypes DEF Grown, World, evidenceVars
<1>8. World \in Worlds /\ World' \in Worlds
  BY <1>6 DEF Inv, WorldTyped
<1>9. DecisionsStand' /\ AssessmentsStand' /\ RereadingsTyped' /\ CompatibilitiesStand'
  BY <1>2, <1>7, <1>8, StandingStays, AssessmentStays
     DEF Inv, DecisionsStand, AssessmentsStand, RereadingsTyped, CompatibilitiesStand
<1> QED
  BY <1>2, <1>6, <1>7, <1>9, CommandEnds

LEMMA OpenDecisionKeeps ==
  ASSUME Inv, NEW d \in Desks, NEW e \in Experiments, OpenDecision(d, e)
  PROVE  Inv'
<1>1. PICK via \in Citable(e), decision \in Decisions :
        Begin(d, [at |-> "reviews", experiment |-> e, via |-> via, decision |-> decision,
                  seen |-> Inspected(e, via)])
  BY DEF OpenDecision, Decisions
<1>2. /\ via \in Vias /\ Inspected(e, via) \in Sights
      /\ SeenIn(e, via, Inspected(e, via), World)
  BY InspectionSees DEF OpenDecision
<1>3. PICK seen : seen = Inspected(e, via)
  OBVIOUS
<1> DEFINE work == [at |-> "reviews", experiment |-> e, via |-> via, decision |-> decision, seen |-> seen]
<1>4. /\ work.at = "reviews" /\ work.experiment = e /\ work.via = via /\ work.seen = seen
      /\ work \in [at : {"reviews"}, experiment : Experiments, via : Vias, decision : Decisions, seen : Sights]
  BY <1>2, <1>3
<1>5. Begin(d, work)
  BY <1>1, <1>3
<1> HIDE DEF work
<1>6. Holds(work, World)
  BY <1>2, <1>3, <1>4 DEF Holds
<1> QED
  BY <1>5, <1>6, CommandReads DEF Begin

LEMMA ReadReviewsKeeps ==
  ASSUME Inv, NEW d \in Desks, ReadReviews(d)
  PROVE  Inv'
<1>1. PICK w : w = desk[d]
  OBVIOUS
<1>2. /\ w \in [at : {"reviews"}, experiment : Experiments, via : Vias, decision : Decisions, seen : Sights]
      /\ SeenIn(w.experiment, w.via, w.seen, World)
  BY <1>1 DEF Inv, DesksHold, Holds, ReadReviews
<1>3. Len(World.reviews) = Len(reviews) /\ Len(reviews) \in Nat
  BY WorldFields, WorldTypes
<1> DEFINE work == [at |-> "rule", experiment |-> w.experiment, via |-> w.via,
                    decision |-> w.decision, seen |-> w.seen, upTo |-> Len(reviews)]
<1>4. /\ work.at = "rule" /\ work.experiment = w.experiment /\ work.via = w.via /\ work.seen = w.seen
      /\ work.upTo = Len(reviews)
      /\ work \in [at : {"rule"}, experiment : Experiments, via : Vias, decision : Decisions,
                   seen : Sights, upTo : Nat]
  BY <1>2, <1>3
<1>5. Proceed(d, work)
  BY <1>1 DEF ReadReviews
<1> HIDE DEF work
<1>6. Holds(work, World)
  BY <1>2, <1>3, <1>4 DEF Holds
<1> QED
  BY <1>5, <1>6, CommandReads DEF Proceed

LEMMA CheckDecisionKeeps ==
  ASSUME Inv, NEW d \in Desks, CheckDecision(d)
  PROVE  Inv'
<1>1. PICK w : w = desk[d]
  OBVIOUS
<1>2. /\ w \in [at : {"rule"}, experiment : Experiments, via : Vias, decision : Decisions,
                seen : Sights, upTo : Nat]
      /\ SeenIn(w.experiment, w.via, w.seen, World) /\ w.upTo <= Len(World.reviews)
  BY <1>1 DEF Inv, DesksHold, Holds, CheckDecision
<1> DEFINE chosen == IF w.decision = "promote" THEN {Counted(w, i) : i \in Numbers} ELSE {}
           row == [configuration |-> w.seen.configuration, decision |-> w.decision,
                   experiment |-> w.experiment, rule |-> w.seen.rule, via |-> w.via, reviews |-> chosen]
           work == [at |-> "decision", row |-> row]
<1>3. /\ w.decision = "promote" => /\ w.seen.rule = code /\ w.seen.passing
                                   /\ \A i \in Numbers : Reviewed(w, i)
      /\ Proceed(d, work)
  BY <1>1 DEF CheckDecision
<1>4. w.upTo \in Nat /\ w.upTo <= Len(reviews) /\ reviews \in Seq(ReviewRows) /\ World.reviews = reviews
      /\ Len(reviews) \in Nat
  BY <1>2, WorldFields, WorldTypes
<1>5. ASSUME NEW i \in Numbers, Reviewed(w, i)
      PROVE  /\ Counted(w, i) \in Nat /\ w.seen.answers[i] \in Answers
             /\ Passes(Counted(w, i), w.experiment, w.via, i, w.seen.answers[i], World)
  <2>1. Counted(w, i) # 0 /\ reviews[Counted(w, i)].answer = w.seen.answers[i]
        /\ reviews[Counted(w, i)].passed
    BY <1>5 DEF Reviewed
  <2>2. /\ Counted(w, i) \in 1 .. w.upTo
        /\ reviews[Counted(w, i)].experiment = w.experiment
        /\ reviews[Counted(w, i)].trial = i /\ reviews[Counted(w, i)].via = w.via
    BY <1>4, <2>1, CountedReviews
  <2>3. Counted(w, i) \in 1 .. Len(reviews) /\ Counted(w, i) \in Nat
    BY <1>4, <2>2
  <2>4. reviews[Counted(w, i)] \in ReviewRows
    BY <1>4, <2>3
  <2>5. reviews[Counted(w, i)].answer \in Answers
    BY <2>4 DEF ReviewRows
  <2> QED
    BY <1>4, <2>1, <2>2, <2>3, <2>5 DEF Passes
<1>6. chosen \subseteq Nat
  BY <1>3, <1>5
<1>7. row \in LunaRows
  BY <1>2, <1>6 DEF LunaRows, Sights
<1>8. Earned(row, World)
  <2>1. ASSUME w.decision = "promote", NEW i \in Numbers
        PROVE  Worthy(row, i, w.seen.answers[i], World) /\ w.seen.answers[i] \in Answers
    <3>1. /\ w.seen.answers[i] \in Answers /\ w.seen.passing /\ Counted(w, i) \in chosen
          /\ Passes(Counted(w, i), w.experiment, w.via, i, w.seen.answers[i], World)
      BY <1>3, <1>5, <2>1
    <3>2. w.seen.answers[i] # NoAnswer
      BY <3>1 DEF Answers, NoAnswer
    <3>3. w.via = Direct => /\ w.seen.answers[i] \in Expected(w.experiment)
                            /\ w.seen.rule = World.tested[w.experiment]
                            /\ World.outcomes[w.experiment][i] = Valid(w.seen.answers[i])
      BY <1>2, <3>1, <3>2 DEF SeenIn
    <3>4. w.via # Direct => w.seen.answers[i] = "good" /\ w.seen.answers[i] \in Expected(w.experiment)
      BY <1>2 DEF SeenIn, Expected, Answers
    <3>5. row.experiment = w.experiment /\ row.via = w.via /\ row.rule = w.seen.rule /\ row.reviews = chosen
      OBVIOUS
    <3> HIDE DEF row, chosen
    <3> QED
      BY <3>1, <3>3, <3>4, <3>5 DEF Worthy
  <2>2. /\ row.experiment = w.experiment /\ row.via = w.via /\ row.decision = w.decision
        /\ row.configuration = w.seen.configuration
    OBVIOUS
  <2> HIDE DEF row
  <2>3. StageOf[w.experiment] \in Luna /\ w.seen.configuration \in {Configuration[w.experiment], Reread}
        /\ (w.via # Direct => w.experiment = Source)
    BY <1>2 DEF SeenIn
  <2> QED
    BY <2>1, <2>2, <2>3 DEF Earned
<1>9. work.at = "decision" /\ work.row = row /\ work \in [at : {"decision"}, row : LunaRows]
  BY <1>7
<1> HIDE DEF work, row
<1>10. Holds(work, World)
  BY <1>8, <1>9 DEF Holds
<1> QED
  BY <1>3, <1>10, CommandReads DEF Proceed

LEMMA DecisionAppended ==
  ASSUME Inv, NEW d \in Desks, NEW row \in LunaRows \union GateRows, Standing(row, World),
         decisions' = Append(decisions, row), Done(d),
         UNCHANGED <<reviews, assessments, rereadings, compatibilities>>
  PROVE  Inv'
<1>1. World' = World
  BY WorldKept DEF Done
<1>2. WorldTyped'
  BY <1>1 DEF Inv, WorldTyped, Done, evidenceVars
<1>3. decisions \in Seq(LunaRows \union GateRows) /\ \A n \in 1 .. Len(decisions) : Standing(decisions[n], World)
  BY DEF Inv, DecisionsStand
<1>4. /\ decisions' \in Seq(LunaRows \union GateRows) /\ Len(decisions') = Len(decisions) + 1
      /\ \A n \in 1 .. Len(decisions) + 1 :
           decisions'[n] = IF n = Len(decisions) + 1 THEN row ELSE decisions[n]
  BY <1>3
<1>5. \A n \in 1 .. Len(decisions') : Standing(decisions'[n], World)
  <2>1. Len(decisions) \in Nat
    BY <1>3
  <2> QED
    BY <1>3, <1>4, <2>1
<1>6. DecisionsStand'
  BY <1>1, <1>4, <1>5 DEF DecisionsStand
<1>7. AssessmentsStand' /\ RereadingsTyped' /\ CompatibilitiesStand'
  BY <1>1 DEF Inv, AssessmentsStand, RereadingsTyped, CompatibilitiesStand
<1> QED
  BY <1>1, <1>2, <1>6, <1>7, Unmoved, CommandEnds

LEMMA SaveDecisionKeeps ==
  ASSUME Inv, NEW d \in Desks, SaveDecision(d)
  PROVE  Inv'
<1>1. desk[d].row \in LunaRows /\ Earned(desk[d].row, World)
  BY DEF Inv, DesksHold, Holds, SaveDecision
<1>2. PICK row \in LunaRows : row = desk[d].row
  BY <1>1
<1>3. Standing(row, World)
  BY <1>1, <1>2 DEF Standing
<1> QED
  BY <1>2, <1>3, DecisionAppended DEF SaveDecision
------------------------------------------------------------------------------
(* The saved replies, read again                                           *)

LEMMA OpenRereadingKeeps ==
  ASSUME Inv, NEW d \in Desks, OpenRereading(d)
  PROVE  Inv'
<1>1. /\ Source \in Experiments /\ Source \notin altered
      /\ \A i \in Numbers : outcomes[Source][i] = [status |-> "unverified", answer |-> "good"]
      /\ Begin(d, [at |-> "again", evidence |-> Evidence(Source)])
  BY DEF OpenRereading
<1>2. outcomes[Source] \in [Numbers -> Trial]
  BY <1>1, WorldTypes
<1>3. outcomes[Source] = [i \in Numbers |-> [status |-> "unverified", answer |-> "good"]]
  BY <1>1, <1>2
<1>4. Evidence(Source) = Approved
  <2>1. (Source \in altered) = FALSE
    BY <1>1
  <2>2. Evidence(Source) = [outcomes |-> outcomes[Source], altered |-> FALSE]
    BY <2>1, Zenon DEF Evidence
  <2> QED
    BY <1>3, <2>2 DEF Approved
<1>5. PICK work : work = [at |-> "again", evidence |-> Approved]
  OBVIOUS
<1>6. work.at = "again" /\ work \in [at : {"again"}, evidence : {Approved}]
  BY <1>5
<1>7. Holds(work, World)
  BY <1>6 DEF Holds
<1> QED
  BY <1>1, <1>4, <1>5, <1>7, CommandReads DEF Begin

LEMMA ConfirmRereadingKeeps ==
  ASSUME Inv, NEW d \in Desks, ConfirmRereading(d)
  PROVE  Inv'
<1>1. desk[d] \in [at : {"again"}, evidence : {Approved}]
  BY DEF Inv, DesksHold, Holds, ConfirmRereading
<1>2. desk[d].evidence = Approved /\ code \in Codes
  BY <1>1 DEF Inv, CodeTyped
<1>3. PICK row : row = [rule |-> code, evidence |-> desk[d].evidence]
  OBVIOUS
<1>4. row \in RereadingRows
  BY <1>2, <1>3 DEF RereadingRows
<1>5. PICK work : work = [at |-> "reread", row |-> row]
  OBVIOUS
<1>6. work.at = "reread" /\ work \in [at : {"reread"}, row : RereadingRows]
  BY <1>4, <1>5
<1>7. Holds(work, World)
  BY <1>6 DEF Holds
<1> QED
  BY <1>3, <1>5, <1>7, CommandReads DEF ConfirmRereading, Proceed

LEMMA SaveRereadingKeeps ==
  ASSUME Inv, NEW d \in Desks, SaveRereading(d)
  PROVE  Inv'
<1>1. desk[d].row \in RereadingRows
  BY DEF Inv, DesksHold, Holds, SaveRereading
<1>2. /\ rereadings' = rereadings \cup {desk[d].row} /\ Done(d)
      /\ UNCHANGED <<reviews, decisions, assessments, compatibilities>>
  BY DEF SaveRereading
<1>3. RereadingsTyped'
  BY <1>1, <1>2 DEF Inv, RereadingsTyped
<1>4. World' = World
  BY <1>2, WorldKept DEF Done
<1>5. WorldTyped' /\ DecisionsStand' /\ AssessmentsStand' /\ CompatibilitiesStand'
  BY <1>2, <1>4
     DEF Inv, WorldTyped, DecisionsStand, AssessmentsStand, CompatibilitiesStand, Done, evidenceVars
<1> QED
  BY <1>2, <1>3, <1>4, <1>5, Unmoved, CommandEnds
------------------------------------------------------------------------------
(* The appropriateness gate                                                *)

(* An assessment made now of a finalized experiment.                       *)
LEMMA AssessmentMade ==
  ASSUME Inv, NEW e \in Experiments, StageOf[e] = "appropriateness", e \in finalized,
         NEW rules, NEW rule \in rules
  PROVE  Assessment(e, rule) \in AssessmentRows(rules) /\ Assessed(Assessment(e, rule), World)
<1>1. PICK a : a = Assessment(e, rule)
  OBVIOUS
<1>2. /\ a.experiment = e /\ a.configuration = Configuration[e] /\ a.rule = rule
      /\ a.evidence = Evidence(e) /\ a.qualifies = Right(outcomes[e])
  BY <1>1, QualifiesIsRight DEF Assessment
<1>3. a \in AssessmentRows(rules)
  <2>1. Evidence(e) \in Rows
    BY EvidenceTyped
  <2>2. Qualifies(e) \in BOOLEAN
    BY QualifiesIsRight, QualifiesBoolean
  <2>3. Configuration[e] \in Configurations
    BY DEF Configurations
  <2> QED
    BY <1>1, <2>1, <2>2, <2>3 DEF Assessment, AssessmentRows
<1>4. a.evidence.outcomes = outcomes[e] /\ a.evidence.altered = (e \in altered)
  BY <1>2 DEF Evidence
<1>5. Assessed(a, World)
  BY <1>2, <1>4, WorldFields DEF Assessed
<1> QED
  BY <1>1, <1>3, <1>5

LEMMA OpenAssessmentKeeps ==
  ASSUME Inv, NEW d \in Desks, NEW e \in Experiments, OpenAssessment(d, e)
  PROVE  Inv'
<1>1. PICK row : row = Assessment(e, "none")
  OBVIOUS
<1>2. row \in AssessmentRows({"none"}) /\ Assessed(row, World)
  BY <1>1, AssessmentMade DEF OpenAssessment
<1>3. PICK work : work = [at |-> "identity", row |-> row]
  OBVIOUS
<1>4. work.at = "identity" /\ work.row = row /\ work \in [at : {"identity"}, row : AssessmentRows({"none"})]
  BY <1>2, <1>3
<1>5. Holds(work, World)
  BY <1>2, <1>4 DEF Holds
<1> QED
  BY <1>1, <1>3, <1>5, CommandReads DEF OpenAssessment, Begin

LEMMA ReadIdentityKeeps ==
  ASSUME Inv, NEW d \in Desks, ReadIdentity(d)
  PROVE  Inv'
<1>1. desk[d].row \in AssessmentRows({"none"}) /\ Assessed(desk[d].row, World)
  BY DEF Inv, DesksHold, Holds, ReadIdentity
<1>2. PICK a \in AssessmentRows({"none"}) : a = desk[d].row
  BY <1>1
<1>3. PICK row : row = [a EXCEPT !.rule = code]
  OBVIOUS
<1>4. /\ row.experiment = a.experiment /\ row.configuration = a.configuration
      /\ row.evidence = a.evidence /\ row.qualifies = a.qualifies /\ row \in AssessmentRows(Codes)
  BY <1>3 DEF AssessmentRows, Inv, CodeTyped
<1>5. Assessed(row, World)
  BY <1>1, <1>2, <1>4 DEF Assessed
<1>6. PICK work : work = [at |-> "assessed", row |-> row]
  OBVIOUS
<1>7. work.at = "assessed" /\ work.row = row /\ work \in [at : {"assessed"}, row : AssessmentRows(Codes)]
  BY <1>4, <1>6
<1>8. Holds(work, World)
  BY <1>5, <1>7 DEF Holds
<1> QED
  BY <1>2, <1>3, <1>6, <1>8, CommandReads DEF ReadIdentity, Proceed

LEMMA SaveAssessmentKeeps ==
  ASSUME Inv, NEW d \in Desks, SaveAssessment(d)
  PROVE  Inv'
<1>1. desk[d].row \in AssessmentRows(Codes) /\ Assessed(desk[d].row, World)
  BY DEF Inv, DesksHold, Holds, SaveAssessment
<1>2. /\ assessments' = assessments \cup {desk[d].row} /\ Done(d)
      /\ UNCHANGED <<reviews, decisions, rereadings, compatibilities>>
  BY DEF SaveAssessment
<1>3. World' = World
  BY <1>2, WorldKept DEF Done
<1>4. AssessmentsStand'
  BY <1>1, <1>2, <1>3 DEF Inv, AssessmentsStand
<1>5. WorldTyped' /\ DecisionsStand' /\ RereadingsTyped' /\ CompatibilitiesStand'
  BY <1>2, <1>3
     DEF Inv, WorldTyped, DecisionsStand, RereadingsTyped, CompatibilitiesStand, Done, evidenceVars
<1> QED
  BY <1>2, <1>3, <1>4, <1>5, Unmoved, CommandEnds

LEMMA OpenPromotionKeeps ==
  ASSUME Inv, NEW d \in Desks, OpenPromotion(d)
  PROVE  Inv'
<1>1. PICK a \in assessments, decision \in Decisions :
        Begin(d, [at |-> "promotion", row |-> [configuration |-> a.configuration,
                                               decision |-> decision, assessment |-> a]])
  BY DEF OpenPromotion, Decisions
<1>2. a \in AssessmentRows(Codes) /\ Assessed(a, World)
  BY DEF Inv, AssessmentsStand
<1>3. PICK row : row = [configuration |-> a.configuration, decision |-> decision, assessment |-> a]
  OBVIOUS
<1>4. row \in GateRows /\ row.assessment = a /\ row.configuration = a.configuration
  BY <1>2, <1>3 DEF GateRows, AssessmentRows
<1>5. PICK work : work = [at |-> "promotion", row |-> row]
  OBVIOUS
<1>6. work.at = "promotion" /\ work.row = row /\ work \in [at : {"promotion"}, row : GateRows]
  BY <1>4, <1>5
<1>7. Holds(work, World)
  BY <1>2, <1>4, <1>6 DEF Holds, Assigned
<1> QED
  BY <1>1, <1>3, <1>5, <1>7, CommandReads DEF Begin

LEMMA SavePromotionKeeps ==
  ASSUME Inv, NEW d \in Desks, SavePromotion(d)
  PROVE  Inv'
<1>1. desk[d].row \in GateRows /\ Assigned(desk[d].row, World)
  BY DEF Inv, DesksHold, Holds, SavePromotion
<1>2. PICK row \in GateRows : row = desk[d].row
  BY <1>1
<1>3. Standing(row, World)
  BY <1>1, <1>2 DEF Standing
<1> QED
  BY <1>2, <1>3, DecisionAppended DEF SavePromotion

(* The decision that counts on a gate's configuration is one on a gate, and *)
(* that on another stage's configuration one on such a stage.              *)
LEMMA DecidedOnAGate ==
  ASSUME Inv, NEW e \in Experiments, StageOf[e] = "appropriateness", NEW c, c = Configuration[e],
         Current(c) # 0
  PROVE  /\ Current(c) \in 1 .. Len(decisions) /\ Len(decisions) \in Nat
         /\ decisions[Current(c)] \in GateRows /\ Assigned(decisions[Current(c)], World)
<1>1. decisions \in Seq(LunaRows \union GateRows)
  BY DEF Inv, DecisionsStand
<1>2. Current(c) \in 1 .. Len(decisions) /\ decisions[Current(c)].configuration = c
  BY <1>1, CurrentDecides
<1>3. PICK row : row = decisions[Current(c)]
  OBVIOUS
<1>4. Standing(row, World)
  BY <1>2, <1>3 DEF Inv, DecisionsStand
<1>5. ~(row \in LunaRows /\ Earned(row, World))
  <2>1. ASSUME row \in LunaRows, Earned(row, World) PROVE FALSE
    <3>1. /\ row.experiment \in Experiments /\ StageOf[row.experiment] \in Luna
          /\ row.configuration \in {Configuration[row.experiment], Reread}
      BY <2>1 DEF Earned, LunaRows
    <3> QED
      BY <1>2, <1>3, <3>1, PromotionAssumption DEF Luna
  <2> QED
    BY <2>1
<1> QED
  BY <1>1, <1>2, <1>3, <1>4, <1>5 DEF Standing

LEMMA DecidedOnLuna ==
  ASSUME Inv, NEW e \in Experiments, StageOf[e] \in Luna, NEW c \in {Configuration[e], Reread},
         Current(c) # 0
  PROVE  decisions[Current(c)] \in LunaRows /\ Earned(decisions[Current(c)], World)
<1>1. decisions \in Seq(LunaRows \union GateRows)
  BY DEF Inv, DecisionsStand
<1>2. Current(c) \in 1 .. Len(decisions) /\ decisions[Current(c)].configuration = c
  BY <1>1, CurrentDecides
<1>3. PICK row : row = decisions[Current(c)]
  OBVIOUS
<1>4. Standing(row, World)
  BY <1>2, <1>3 DEF Inv, DecisionsStand
<1>5. ASSUME row \in GateRows, Assigned(row, World) PROVE FALSE
  <2>1. row.assessment \in AssessmentRows(Codes)
    BY <1>5 DEF GateRows
  <2>2. row.assessment.experiment \in Experiments
    BY <2>1 DEF AssessmentRows
  <2>3. /\ StageOf[row.assessment.experiment] = "appropriateness"
        /\ row.configuration = Configuration[row.assessment.experiment]
    BY <1>5 DEF Assigned, Assessed
  <2> QED
    BY <1>2, <1>3, <2>2, <2>3, PromotionAssumption DEF Luna
<1> QED
  BY <1>3, <1>4, <1>5 DEF Standing
------------------------------------------------------------------------------
(* A decision carried to another code                                      *)

LEMMA OpenCompatibilityKeeps ==
  ASSUME Inv, NEW d \in Desks, NEW e \in Experiments, StageOf[e] = "appropriateness",
         OpenCompatibility(d, Configuration[e])
  PROVE  Inv'
<1>1. PICK c : c = Configuration[e]
  OBVIOUS
<1>2. Current(c) # 0 /\ OpenCompatibility(d, c)
  BY <1>1 DEF OpenCompatibility, Historical, Promoted
<1>3. PICK n : n = Current(c)
  OBVIOUS
<1>4. n \in Nat /\ decisions[n] \in GateRows /\ Assigned(decisions[n], World)
  BY <1>1, <1>2, <1>3, DecidedOnAGate
<1>5. PICK a \in AssessmentRows(Codes) : a = decisions[n].assessment
  BY <1>4 DEF GateRows
<1>6. Assessed(a, World)
  BY <1>4, <1>5 DEF Assigned
<1>7. a.experiment \in Experiments
  BY DEF AssessmentRows
<1>8. PICK rows \in Rows : rows = Evidence(a.experiment)
  BY <1>7, EvidenceTyped
<1>9. rows.outcomes = outcomes[a.experiment] /\ (rows.altered => a.experiment \in altered)
  BY <1>8 DEF Evidence
<1>10. PICK work : work = [at |-> "reassess", subject |-> n, original |-> a, retained |-> rows]
  OBVIOUS
<1>11. /\ work.at = "reassess" /\ work.original = a /\ work.retained = rows
       /\ work \in [at : {"reassess"}, subject : Nat, original : AssessmentRows(Codes), retained : Rows]
  BY <1>4, <1>10
<1>12. Holds(work, World)
  BY <1>6, <1>9, <1>11, WorldFields DEF Holds, Retained
<1>13. Begin(d, work)
  BY <1>2, <1>3, <1>5, <1>8, <1>10 DEF OpenCompatibility
<1> QED
  BY <1>12, <1>13, CommandReads DEF Begin

LEMMA ReassessKeeps ==
  ASSUME Inv, NEW d \in Desks, Reassess(d)
  PROVE  Inv'
<1>1. PICK w : w = desk[d]
  OBVIOUS
<1>2. /\ w \in [at : {"reassess"}, subject : Nat, original : AssessmentRows(Codes), retained : Rows]
      /\ Retained(w, World)
      /\ w.retained.altered => w.original.experiment \in World.altered
  BY <1>1 DEF Inv, DesksHold, Holds, Reassess
<1>3. PICK e : e = w.original.experiment
  OBVIOUS
<1>4. e \in Experiments /\ code \in Codes
  BY <1>2, <1>3 DEF AssessmentRows, Inv, CodeTyped
<1>5. StageOf[e] = "appropriateness" /\ e \in finalized
  BY <1>2, <1>3, WorldFields DEF Retained, Assessed
<1>6. PICK again : again = Assessment(e, code)
  OBVIOUS
<1>7. again \in AssessmentRows(Codes) /\ Assessed(again, World)
  BY <1>4, <1>5, <1>6, AssessmentMade
<1>8. /\ again.evidence = w.original.evidence
      /\ Proceed(d, [at |-> "confirm", subject |-> w.subject, original |-> w.original,
                     retained |-> w.retained, current |-> again])
  BY <1>1, <1>3, <1>6 DEF Reassess
<1>9. again.evidence = Evidence(e)
  BY <1>6 DEF Assessment
<1>10. e \in altered => w.original.evidence.altered
  <2>1. Evidence(e).altered = (e \in altered)
    BY DEF Evidence
  <2> QED
    BY <1>8, <1>9, <2>1
<1>11. PICK work : work = [at |-> "confirm", subject |-> w.subject, original |-> w.original,
                           retained |-> w.retained, current |-> again]
  OBVIOUS
<1>12. /\ work.at = "confirm" /\ work.original = w.original /\ work.retained = w.retained
       /\ work.current = again
       /\ work \in [at : {"confirm", "both", "proof"}, subject : Nat, original : AssessmentRows(Codes),
                    retained : Rows, current : AssessmentRows(Codes)]
  BY <1>2, <1>7, <1>11
<1>13. w.retained.altered => w.original.evidence.altered
  BY <1>2, <1>3, <1>10, WorldFields
<1>14. Holds(work, World)
  BY <1>2, <1>7, <1>12, <1>13 DEF Holds, Retained
<1> QED
  BY <1>8, <1>11, <1>14, CommandReads DEF Proceed

LEMMA ConfirmCompatibilityKeeps ==
  ASSUME Inv, NEW d \in Desks, ConfirmCompatibility(d)
  PROVE  Inv'
<1>1. PICK w : w = desk[d]
  OBVIOUS
<1>2. /\ w \in [at : {"confirm", "both", "proof"}, subject : Nat, original : AssessmentRows(Codes),
                retained : Rows, current : AssessmentRows(Codes)]
      /\ Retained(w, World) /\ Assessed(w.current, World)
      /\ w.retained.altered => w.original.evidence.altered
  BY <1>1 DEF Inv, DesksHold, Holds, ConfirmCompatibility
<1>3. Confirmed(w) /\ Proceed(d, [w EXCEPT !.at = "both"])
  BY <1>1 DEF ConfirmCompatibility
<1>4. PICK e : e = w.original.experiment
  OBVIOUS
<1>5. Evidence(e) = w.retained
  BY <1>3, <1>4 DEF Confirmed
<1>6. w.original.evidence.outcomes = outcomes[e] /\ (w.original.evidence.altered => e \in altered)
  BY <1>2, <1>4, WorldFields DEF Retained, Assessed
<1>7. w.retained.outcomes = outcomes[e] /\ w.retained.altered = (e \in altered)
  BY <1>5 DEF Evidence
<1>8. w.retained \in Rows /\ w.original.evidence \in Rows
  BY <1>2 DEF AssessmentRows
<1>9. w.retained.altered = w.original.evidence.altered
  BY <1>2, <1>6, <1>7, <1>8 DEF Rows
<1>10. w.retained = w.original.evidence
  BY <1>6, <1>7, <1>8, <1>9 DEF Rows
<1>11. PICK work : work = [w EXCEPT !.at = "both"]
  OBVIOUS
<1>12. /\ work.at = "both" /\ work.original = w.original /\ work.retained = w.retained
       /\ work.current = w.current
       /\ work \in [at : {"confirm", "both", "proof"}, subject : Nat, original : AssessmentRows(Codes),
                    retained : Rows, current : AssessmentRows(Codes)]
  BY <1>2, <1>11
<1>13. Holds(work, World)
  BY <1>2, <1>10, <1>12 DEF Holds, Retained
<1> QED
  BY <1>3, <1>11, <1>13, CommandReads DEF Proceed

LEMMA SaveReassessmentKeeps ==
  ASSUME Inv, NEW d \in Desks, SaveReassessment(d)
  PROVE  Inv'
<1>1. PICK w : w = desk[d]
  OBVIOUS
<1>2. /\ w \in [at : {"confirm", "both", "proof"}, subject : Nat, original : AssessmentRows(Codes),
                retained : Rows, current : AssessmentRows(Codes)]
      /\ Retained(w, World) /\ Assessed(w.current, World)
      /\ w.retained.altered => w.original.evidence.altered
      /\ w.retained = w.original.evidence
  BY <1>1 DEF Inv, DesksHold, Holds, SaveReassessment
<1>3. PICK work : work = [w EXCEPT !.at = "proof"]
  OBVIOUS
<1>4. /\ work.at = "proof" /\ work.original = w.original /\ work.retained = w.retained
      /\ work.current = w.current
      /\ work \in [at : {"confirm", "both", "proof"}, subject : Nat, original : AssessmentRows(Codes),
                   retained : Rows, current : AssessmentRows(Codes)]
  BY <1>2, <1>3
<1>5. Holds(work, World)
  BY <1>2, <1>4 DEF Holds, Retained
<1>6. /\ assessments' = assessments \cup {w.current} /\ desk' = [desk EXCEPT ![d].at = "proof"]
      /\ UNCHANGED <<code, evidenceVars, starts, reviews, decisions, rereadings, compatibilities>>
  BY <1>1 DEF SaveReassessment
<1>7. World' = World
  BY <1>6, WorldKept
<1>8. AssessmentsStand'
  <2>1. w.current \in AssessmentRows(Codes)
    BY <1>2
  <2> QED
    BY <1>2, <1>6, <1>7, <2>1 DEF Inv, AssessmentsStand
<1>9. WorldTyped' /\ CodeTyped' /\ DecisionsStand' /\ RereadingsTyped' /\ CompatibilitiesStand'
  BY <1>6, <1>7
     DEF Inv, WorldTyped, CodeTyped, DecisionsStand, RereadingsTyped, CompatibilitiesStand, evidenceVars
<1>10. DesksHold'
  <2>1. DOMAIN desk = Desks /\ \A x \in Desks : Holds(desk[x], World)
    BY DEF Inv, DesksHold
  <2>2. DOMAIN desk' = Desks /\ \A x \in Desks : desk'[x] = IF x = d THEN work ELSE desk[x]
    BY <1>1, <1>3, <1>6, <2>1
  <2>3. \A x \in Desks : Holds(desk'[x], World)
    BY <1>5, <2>1, <2>2
  <2> QED
    BY <1>7, <2>2, <2>3 DEF DesksHold
<1> QED
  BY <1>8, <1>9, <1>10 DEF Inv

LEMMA SaveCompatibilityKeeps ==
  ASSUME Inv, NEW d \in Desks, SaveCompatibility(d)
  PROVE  Inv'
<1>1. PICK w : w = desk[d]
  OBVIOUS
<1>2. /\ w \in [at : {"confirm", "both", "proof"}, subject : Nat, original : AssessmentRows(Codes),
                retained : Rows, current : AssessmentRows(Codes)]
      /\ w.retained = w.original.evidence
  BY <1>1 DEF Inv, DesksHold, Holds, SaveCompatibility
<1>3. PICK k : k = [subject |-> w.subject, original |-> w.original, retained |-> w.retained,
                    current |-> w.current]
  OBVIOUS
<1>4. k \in CompatibilityRows /\ k.retained = k.original.evidence
  BY <1>2, <1>3 DEF CompatibilityRows
<1>5. /\ compatibilities' \in {compatibilities, compatibilities \cup {k}} /\ Done(d)
      /\ UNCHANGED <<reviews, decisions, assessments, rereadings>>
  BY <1>1, <1>3 DEF SaveCompatibility
<1>6. CompatibilitiesStand'
  BY <1>4, <1>5 DEF Inv, CompatibilitiesStand
<1>7. World' = World
  BY <1>5, WorldKept DEF Done
<1>8. WorldTyped' /\ DecisionsStand' /\ AssessmentsStand' /\ RereadingsTyped'
  BY <1>5, <1>7
     DEF Inv, WorldTyped, DecisionsStand, AssessmentsStand, RereadingsTyped, Done, evidenceVars
<1> QED
  BY <1>5, <1>6, <1>7, <1>8, Unmoved, CommandEnds
------------------------------------------------------------------------------
(* Steps that are not a command's                                          *)

LEMMA StopKeeps ==
  ASSUME Inv, NEW d \in Desks, Stop(d)
  PROVE  Inv'
<1>1. Done(d) /\ UNCHANGED rowVars
  BY DEF Stop
<1>2. World' = World
  BY <1>1, WorldKept DEF Done, rowVars
<1>3. WorldTyped' /\ DecisionsStand' /\ AssessmentsStand' /\ RereadingsTyped' /\ CompatibilitiesStand'
  BY <1>1, <1>2
     DEF Inv, WorldTyped, DecisionsStand, AssessmentsStand, RereadingsTyped, CompatibilitiesStand, Done,
         evidenceVars, rowVars
<1> QED
  BY <1>1, <1>2, <1>3, Unmoved, CommandEnds

LEMMA DeployKeeps ==
  ASSUME Inv, Deploy
  PROVE  Inv'
<1>1. World' = World
  BY WorldKept DEF Deploy, rowVars
<1>2. WorldTyped' /\ CodeTyped'
  BY <1>1 DEF Inv, WorldTyped, CodeTyped, Deploy, evidenceVars
<1> QED
  BY <1>1, <1>2, Unmoved, EvidenceChanges DEF Deploy

LEMMA EndTrialKeeps ==
  ASSUME Inv, NEW e \in Experiments, NEW i \in Numbers, EndTrial(e, i)
  PROVE  Inv'
<1>1. PICK o \in Ended : outcomes' = [outcomes EXCEPT ![e][i] = o]
  BY DEF EndTrial
<1>2. o \in Trial /\ (o.status = "valid" => o.answer \in Answers)
  BY DEF Ended, Trial
<1>3. outcomes \in [Experiments -> [Numbers -> Trial]] /\ outcomes[e][i] = Open /\ e \notin finalized
  BY WorldTypes DEF EndTrial
<1>4. outcomes' \in [Experiments -> [Numbers -> Trial]]
  BY <1>1, <1>2, <1>3
<1>5. \A f \in Experiments, j \in Numbers :
        outcomes'[f][j] = IF f = e /\ j = i THEN o ELSE outcomes[f][j]
  BY <1>1, <1>3
<1>6. \A f \in Experiments : f # e => outcomes'[f] = outcomes[f]
  BY <1>1, <1>3
<1>7. UNCHANGED <<code, tested, altered, finalized, reviews>>
  BY DEF EndTrial, rowVars
<1>8. WorldTyped'
  <2>1. World' \in Worlds
    BY <1>4, <1>7, WorldTypes DEF World, Worlds
  <2>2. \A f \in Experiments, j \in Numbers :
          outcomes'[f][j].status = "valid" => outcomes'[f][j].answer \in Answers
    BY <1>2, <1>5 DEF Inv, WorldTyped
  <2> QED
    BY <2>1, <2>2 DEF WorldTyped
<1>9. Grown(World, World')
  <2>1. /\ World.outcomes = outcomes /\ World'.outcomes = outcomes' /\ World'.tested = World.tested
        /\ World'.altered = World.altered /\ World'.finalized = finalized /\ World.finalized = finalized
        /\ World'.reviews = World.reviews /\ World.reviews = reviews
    BY <1>7 DEF World
  <2>2. \A f \in finalized : outcomes'[f] = outcomes[f]
    BY <1>3, <1>6, WorldTypes
  <2> QED
    BY <1>3, <1>5, <2>1, <2>2, WorldTypes DEF Grown
<1>10. CodeTyped'
  BY <1>7 DEF Inv, CodeTyped
<1> QED
  BY <1>8, <1>9, <1>10, EvidenceChanges DEF EndTrial

LEMMA AccountKeeps ==
  ASSUME Inv, NEW e \in Experiments, Account(e) \/ Finalize(e)
  PROVE  Inv'
<1>1. /\ UNCHANGED <<code, tested, outcomes, rowVars, desk>>
      /\ altered \subseteq altered' /\ altered' \subseteq Experiments
      /\ finalized \subseteq finalized' /\ finalized' \subseteq Experiments
  BY WorldTypes DEF Account, Finalize
<1>2. WorldTyped'
  BY <1>1, WorldTypes DEF Inv, WorldTyped, World, Worlds, rowVars
<1>3. Grown(World, World')
  BY <1>1, WorldTypes DEF Grown, World, rowVars
<1>4. CodeTyped'
  BY <1>1 DEF Inv, CodeTyped
<1> QED
  BY <1>1, <1>2, <1>3, <1>4, EvidenceChanges
------------------------------------------------------------------------------
LEMMA InitHolds ==
  ASSUME Init
  PROVE  Inv
<1>1. /\ code \in Codes /\ tested \in [Experiments -> Codes]
      /\ altered = {} /\ finalized = {}
      /\ reviews = <<>> /\ decisions = <<>>
      /\ assessments = {} /\ rereadings = {} /\ compatibilities = {}
      /\ desk = [d \in Desks |-> Idle]
  BY DEF Init
<1>2. PICK r \in [Numbers -> Answers] :
        outcomes = [e \in Experiments |-> [i \in Numbers |->
                      IF e = Source THEN [status |-> "unverified", answer |-> r[i]] ELSE Open]]
  BY DEF Init
<1>3. \A i \in Numbers : [status |-> "unverified", answer |-> r[i]] \in Trial
  BY <1>2 DEF Trial
<1>4. Open \in Trial
  BY DEF Open, Trial
<1>5. outcomes \in [Experiments -> [Numbers -> Trial]]
  BY <1>2, <1>3, <1>4
<1>6. \A e \in Experiments, i \in Numbers : outcomes[e][i].status # "valid"
  BY <1>2 DEF Open
<1>7. WorldTyped
  BY <1>1, <1>5, <1>6 DEF WorldTyped, World, Worlds
<1>8. DecisionsStand /\ AssessmentsStand /\ RereadingsTyped /\ CompatibilitiesStand
  BY <1>1 DEF DecisionsStand, AssessmentsStand, RereadingsTyped, CompatibilitiesStand
<1>9. DesksHold
  BY <1>1, IdleHolds DEF DesksHold
<1> QED
  BY <1>1, <1>7, <1>8, <1>9 DEF Inv, CodeTyped

LEMMA CommandKeeps ==
  ASSUME Inv, NEW d \in Desks, DeskStep(d)
  PROVE  Inv'
<1>1. ASSUME NEW e \in Experiments,
             OpenDecision(d, e) \/ OpenAssessment(d, e) \/ \E i \in Numbers : OpenReview(d, e, i)
      PROVE  Inv'
  BY <1>1, OpenDecisionKeeps, OpenAssessmentKeeps, OpenReviewKeeps
<1>2. ASSUME NEW e \in Experiments, StageOf[e] = "appropriateness", OpenCompatibility(d, Configuration[e])
      PROVE  Inv'
  BY <1>2, OpenCompatibilityKeeps
<1>3. ASSUME \/ SaveReview(d) \/ ReadReviews(d) \/ CheckDecision(d) \/ SaveDecision(d)
             \/ OpenRereading(d) \/ ConfirmRereading(d) \/ SaveRereading(d)
      PROVE  Inv'
  BY <1>3, SaveReviewKeeps, ReadReviewsKeeps, CheckDecisionKeeps, SaveDecisionKeeps,
     OpenRereadingKeeps, ConfirmRereadingKeeps, SaveRereadingKeeps
<1>4. ASSUME \/ ReadIdentity(d) \/ SaveAssessment(d) \/ OpenPromotion(d) \/ SavePromotion(d)
             \/ Reassess(d) \/ ConfirmCompatibility(d) \/ SaveReassessment(d) \/ SaveCompatibility(d)
             \/ Stop(d)
      PROVE  Inv'
  BY <1>4, ReadIdentityKeeps, SaveAssessmentKeeps, OpenPromotionKeeps, SavePromotionKeeps,
     ReassessKeeps, ConfirmCompatibilityKeeps, SaveReassessmentKeeps, SaveCompatibilityKeeps, StopKeeps
<1> QED
  BY <1>1, <1>2, <1>3, <1>4 DEF DeskStep

LEMMA StepKeeps ==
  ASSUME Inv, [Next]_vars
  PROVE  Inv'
<1>1. CASE UNCHANGED vars
  <2>1. UNCHANGED <<code, rowVars, desk>> /\ UNCHANGED <<evidenceVars, reviews>>
    BY <1>1 DEF vars, rowVars
  <2>2. World' = World
    BY <2>1, WorldKept
  <2>3. WorldTyped' /\ CodeTyped'
    BY <2>1, <2>2 DEF Inv, WorldTyped, CodeTyped, evidenceVars
  <2> QED
    BY <2>1, <2>2, <2>3, Unmoved, EvidenceChanges
<1>2. CASE Next
  BY <1>2, DeployKeeps, CommandKeeps, AccountKeeps, EndTrialKeeps DEF Next
<1> QED
  BY <1>1, <1>2

LEMMA SpecKeepsInv == Spec => []Inv
<1>1. Init => Inv
  BY InitHolds
<1>2. Inv /\ [Next]_vars => Inv'
  BY StepKeeps
<1> QED
  BY <1>1, <1>2, PTL DEF Spec
------------------------------------------------------------------------------
(* What the invariant says to production                                   *)

LEMMA GatePermissionIsEarned ==
  ASSUME Inv, NEW e \in Experiments, StageOf[e] = "appropriateness", GatePermits(Configuration[e])
  PROVE  LET a == decisions[Current(Configuration[e])].assessment
         IN  /\ a.experiment \in finalized /\ Qualifies(a.experiment)
             /\ a.rule = code \/ a.evidence = Evidence(a.experiment)
<1>1. PICK c : c = Configuration[e]
  OBVIOUS
<1>2. PICK a : a = decisions[Current(c)].assessment
  OBVIOUS
<1>3. /\ Current(c) # 0 /\ a.qualifies
      /\ \/ a.rule = code
         \/ \E k \in compatibilities : k.original = a /\ k.retained = Evidence(a.experiment)
  BY <1>1, <1>2 DEF GatePermits, Promoted
<1>4. Assigned(decisions[Current(c)], World)
  BY <1>1, <1>3, DecidedOnAGate
<1>5. a.experiment \in finalized /\ a.qualifies = Right(outcomes[a.experiment])
  BY <1>2, <1>4, WorldFields DEF Assigned, Assessed
<1>6. Qualifies(a.experiment)
  BY <1>3, <1>5, QualifiesIsRight
<1>7. a.rule = code \/ a.evidence = Evidence(a.experiment)
  BY <1>3 DEF Inv, CompatibilitiesStand
<1> QED
  BY <1>1, <1>2, <1>5, <1>6, <1>7

LEMMA LunaPermissionIsEarned ==
  ASSUME Inv, NEW e \in Experiments, StageOf[e] \in Luna, NEW c \in {Configuration[e], Reread},
         LunaPermits(c), NEW i \in Numbers
  PROVE  Sound(decisions[Current(c)], i)
<1>1. PICK row : row = decisions[Current(c)]
  OBVIOUS
<1>2. /\ Current(c) # 0 /\ row.decision = "promote" /\ row.rule = code
      /\ row.via # Direct => Fresh(row.via)
  BY <1>1 DEF LunaPermits, Promoted
<1>3. row \in LunaRows /\ Earned(row, World)
  BY <1>1, <1>2, DecidedOnLuna
<1>4. PICK answer \in Answers : Worthy(row, i, answer, World)
  BY <1>2, <1>3 DEF Earned
<1>5. PICK f : f = row.experiment
  OBVIOUS
<1>6. CASE row.via = Direct
  <2>1. tested[f] = code /\ outcomes[f][i] = Valid(answer)
    BY <1>2, <1>4, <1>5, <1>6, WorldFields DEF Worthy
  <2>2. outcomes[f][i].status = "valid" /\ outcomes[f][i].answer = answer
    BY <2>1 DEF Valid
  <2> QED
    BY <1>1, <1>4, <1>5, <1>6, <2>1, <2>2, WorldFields DEF Worthy, Passes, Sound, Expected
<1>7. CASE row.via # Direct
  <2>1. f = Source /\ answer = "good"
    BY <1>3, <1>4, <1>5, <1>7 DEF Earned, Worthy
  <2>2. row.via.evidence = Evidence(f) /\ row.via.evidence = Approved
    BY <1>2, <1>3, <1>7, <2>1 DEF Fresh, LunaRows, Vias, RereadingRows
  <2>3. outcomes[f] = Approved.outcomes /\ (f \in altered) = Approved.altered
    BY <2>2 DEF Evidence
  <2>4. outcomes[f][i].status = "unverified" /\ outcomes[f][i].answer = answer
    BY <2>1, <2>3 DEF Approved
  <2>5. f \notin altered
    <3>1. Approved.altered = FALSE
      BY DEF Approved
    <3> QED
      BY <2>3, <3>1
  <2> QED
    BY <1>1, <1>4, <1>5, <1>7, <2>4, <2>5, WorldFields DEF Worthy, Passes, Sound, Expected
<1> QED
  BY <1>6, <1>7

(* Every row, and what every command holds, is of its kind, and stays true *)
(* to the evidence it was taken from while that evidence grows: a decision *)
(* to promote rests on valid, reviewed answers, an assessment says what    *)
(* the frozen trials say, and a proof retains the evidence it compared.    *)
THEOREM RowsStayTrue == Spec => []Inv
  BY SpecKeepsInv

(* PermissionIsEarned: requirePlannerPromotion, requireWriterPromotion and *)
(* requireGatePromotion let production use a configuration only while the  *)
(* evidence its newest decision rests on holds under the deployed code.    *)
THEOREM PermissionsAreEarned == Spec => []PermissionIsEarned
<1>1. Inv => PermissionIsEarned
  BY GatePermissionIsEarned, LunaPermissionIsEarned DEF PermissionIsEarned
<1> QED
  BY <1>1, SpecKeepsInv, PTL
==============================================================================
