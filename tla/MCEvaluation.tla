----------------------------- MODULE MCEvaluation -----------------------------
EXTENDS EvaluationRun, TLC

MCNormalized == ("well-worn" :> "wellworn" @@ "wellworn" :> "wellworn" @@ "lucid" :> "lucid")
MCExpected == [c \in Cases |-> "blocked"]
Symmetry == Permutations(Tabs) \cup Permutations(Cases) \cup Permutations(Groups) \cup Permutations(Runners)

\* One part of the run writes every content from one tab whose locks work; in
\* the other two tabs, crashes and recoveries compete over few contents, and
\* what they froze undisturbed is evaluated: in the kinds that are not finalized,
\* when it is one case.
VARIABLE racing
MCInit == Init /\ racing \in BOOLEAN
Plain(w) == \A c \in DOMAIN w.rows :
              /\ w.rows[c].word = "lucid" /\ w.rows[c].split = "held-out"
              /\ ~w.rows[c].inspected
Undisturbed == /\ racing
               /\ tab = [t \in Tabs |-> Idle] /\ form = [t \in Tabs |-> workspace.revision]
               /\ lock = [n \in Locks |-> Absent] /\ guard = [n \in Locks |-> FALSE]
               /\ life = [t \in Tabs |-> 1]
               /\ workspace.revision = Cardinality(DOMAIN workspace.rows)
               /\ Cardinality({workspace.rows[c].group : c \in DOMAIN workspace.rows}) = 1
Contended == \A t \in Tabs : Plain(tab'[t].next) /\ tab'[t].next.revision <= 2
Alone == /\ life' = life /\ frozen' = frozen
         /\ \E t \in Tabs : /\ tab'[t].lock = ".write-lock" /\ tab'[t].at # "recovering"
                            /\ tab'[t].at = "guarded" => workspace.revision < MaxRevision
                            /\ \A u \in Tabs \ {t} : tab'[u] = Idle
Short == experiment'.kind \in {"usefulness", "luna"} => Len(experiment'.cases) = 1
MCNext == /\ UNCHANGED racing
          /\ \/ experiment = NoExperiment /\ StoreStep /\ IF racing THEN Contended ELSE Alone
             \/ Undisturbed /\ Evaluate /\ Short
MCSpec == MCInit /\ [][MCNext]_<<vars, racing>>
===============================================================================
