--------------------------- MODULE MCOwnerPromotion ---------------------------
EXTENDS OwnerPromotion, TLC

MCStage == ("gate" :> "appropriateness" @@ "plan" :> "planner" @@ "reread" :> "planner" @@ "lesson" :> "writer")
MCConfiguration == ("gate" :> "gate" @@ "plan" :> "planner" @@ "reread" :> "older planner" @@ "lesson" :> "writer")
Symmetry == Permutations(Desks)

\* A part of the run for each stage: the stages share nothing but the code.  The
\* planner's two experiments have their trials before the owner starts, the
\* writer's go on under the owner's commands; only rows that something rests on
\* are accounted for late.  The gate's decisions take one command more.
VARIABLE about
Parts == {{"gate"}, {"plan", "reread"}, {"lesson"}}
Answered(e) == /\ tested[e] = IF e = Source THEN "original" ELSE "current"
               /\ \A i \in Numbers : outcomes[e][i].answer = "good"
Concerns(w) == /\ w.at \in {"review", "identity"} => w.row.experiment \in about
               /\ w.at = "reviews" => w.experiment \in about
               /\ w.at = "again" => Source \in about
MCInit == /\ Init /\ about \in Parts
          /\ \A e \in Experiments \ about : tested[e] = "original"
          /\ "lesson" \in about => tested["lesson"] = code
          /\ Source \notin about => \A i \in Numbers : outcomes[Source][i].answer = "good"
MCNext == /\ Next /\ UNCHANGED about
          /\ starts' < MaxStarts \/ about = {"gate"}
          /\ \A d \in Desks : Concerns(desk'[d])
          /\ finalized' \subseteq about /\ altered' \subseteq about \cap {"gate", "reread"}
          /\ \A e \in Experiments : outcomes'[e] # outcomes[e] =>
               e \in about /\ (Source \in about => starts = 0)
          /\ Source \in about /\ starts' > 0 => \A e \in about : Answered(e)
MCSpec == MCInit /\ [][MCNext]_<<vars, about>>
===============================================================================
