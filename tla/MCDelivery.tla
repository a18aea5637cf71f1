------------------------------ MODULE MCDelivery ------------------------------
EXTENDS DailyDelivery, TLC

\* A lesson whose one meaning is reworded next to a second one and reworded
\* back, the same lesson under another word, two lessons of one word, and words
\* enough to fill the queue again.
Meaning(sources, text) == [sources |-> sources, text |-> text]
Lesson(l, word, meanings) ==
  [lesson |-> l, word |-> word, meanings |-> meanings, blocked |-> FALSE]
First == Lesson(1, "fixture", {Meaning({"s"}, "a")})
Reworded == Lesson(1, "fixture", {Meaning({"s"}, "b"), Meaning({"s", "t"}, "a")})
MCCandidates == {First, Reworded,
                 Lesson(1, "fitting", {Meaning({"s"}, "a")}),
                 Lesson(2, "candid", {Meaning({"u"}, "a")})}
MCLegacy == (3 :> "candid" @@ 4 :> "lucid" @@ 5 :> "terse")
MCItems == {[lesson |-> 1, sources |-> {"s"}, born |-> 1, text |-> "a"],
            [lesson |-> 1, sources |-> {"s", "t"}, born |-> 2, text |-> "a"]}
Approved(c) == [cand |-> c, decision |-> "approve"]
MCReviewed == {<<>>, <<Approved(First), Approved(Reworded)>>}

Symmetry == Permutations(Publishers)

\* One half of the run has two publishers and reviewers and no learner, and
\* leaves alone the lessons nobody publishes. The other has a learner and one
\* publisher that commits the approved candidates in turn, each between two
\* statements of the learner, who sees only what is committed; the date is read
\* when a request starts, so days pass between requests.
VARIABLE learning
MCInit == DeliveryInit /\ learning = (reviews # <<>>)
MCNext == /\ Next /\ UNCHANGED learning
          /\ IF learning
             THEN /\ reviews' = reviews
                  /\ \A w \in Publishers : publishing'[w] # Quiet =>
                       /\ publishing'[w].cand = IF revisions = <<>> THEN First ELSE Reworded
                       /\ publishing'[w].expected = Len(revisions)
                       /\ \A x \in Publishers \ {w} : publishing'[x] = Quiet
                  /\ (\E w \in Publishers : publishing[w] # Quiet) => UNCHANGED deliveryVars
                  /\ Len(revisions') + Cardinality({w \in Publishers : publishing'[w] # Quiet}) = publishes'
                  /\ request # Rest => day' = day
             ELSE requests' = requests /\ day' = day
                  /\ \A l \in DOMAIN MCLegacy : shelf'[l] = shelf[l]
MCSpec == MCInit /\ [][MCNext]_<<allVars, learning>>
===============================================================================
