------------------------------ MODULE LearnerLog ------------------------------
(***************************************************************************)
(* What synchronization promises about a learner's changes: each of them   *)
(* takes effect at most once, in one profile, and the changes of one       *)
(* device to one delivery take effect in the order the learner made them,  *)
(* except that a change the device gave up may still arrive late.          *)
(***************************************************************************)
EXTENDS Sequences, SequencesExt, FiniteSets, Integers

CONSTANTS Profiles, Changes

VARIABLES made,  \* the changes the learner made
          taken, \* per profile, those that took effect, in order
          given  \* those a device gave up: evicted, expired or discarded

logVars == <<made, taken, given>>

LogInit == made = {} /\ taken = [p \in Profiles |-> <<>>] /\ given = {}

\* Two changes compete when the later one is meant to replace the earlier one.
Competing(c, d) == c.dev = d.dev /\ c.of = d.of

\* A change may displace others from a full outbox.
Make == /\ \E c \in Changes \ made : made' = made \union {c}
        /\ given' \in SUBSET made' /\ given \subseteq given'
        /\ UNCHANGED taken

Give == /\ given' \in SUBSET made /\ given \subseteq given'
        /\ UNCHANGED <<made, taken>>

\* In order: what is taken was not taken before, and nothing that competes
\* with it and is newer was, unless it was given up.
Ordered(log) ==
  \A j \in DOMAIN log : \A i \in 1..j - 1 :
    /\ log[i] # log[j]
    /\ Competing(log[i], log[j]) /\ log[i].data > log[j].data => log[j] \in given

Take(p) == \E batch \in SeqOf(made, Cardinality(made)) :
             /\ \A i \in DOMAIN batch : batch[i].of = p
             /\ Ordered(taken[p] \o batch)
             /\ taken' = [taken EXCEPT ![p] = @ \o batch]
             /\ UNCHANGED <<made, given>>

LogNext == Make \/ Give \/ \E p \in Profiles : Take(p)
LogSpec == LogInit /\ [][LogNext]_logVars
===============================================================================
