----------------------------- MODULE Publication -----------------------------
(***************************************************************************)
(* Publication of reviewed lessons: publishCandidate in a serializable     *)
(* transaction that takes its snapshot before it gets the lesson's lock.   *)
(*   pipeline/publication/publish.ts, identities.ts, checks.ts             *)
(*   db/private-migrations/016 to 018, db/migrations (public tables)       *)
(* A candidate is its content: its id, evidence and attribution identities *)
(* are fingerprints of it. A meaning is its defining sources, with their   *)
(* part of speech, and its wording.                                        *)
(***************************************************************************)
EXTENDS Integers, Sequences, FiniteSets

CONSTANTS
  Candidates,  \* [lesson, word, meanings: set of [sources, text], blocked]
  Legacy,      \* [Lessons -> words]: lessons on the shelf before any revision
  Items,       \* practice items: the lesson, meaning identity and wording of each
  Reviewed,    \* histories of reviews to start from
  Publishers, MaxReviews, MaxPublishes, MaxWithdrawals

Lessons == {c.lesson : c \in Candidates} \union DOMAIN Legacy

\* An item names a lesson that exists, a review its candidate.
ASSUME PublicationAssumption ==
  /\ \A c \in Candidates : c.meanings # {} /\ c.blocked \in BOOLEAN /\ c.word # "none"
  /\ \A l \in DOMAIN Legacy : Legacy[l] # "none"
  /\ \A i \in Items : i.lesson \in Lessons
  /\ Reviewed \subseteq Seq([cand : Candidates, decision : {"approve", "reject"}])
  /\ {MaxReviews, MaxPublishes, MaxWithdrawals} \subseteq Nat

VARIABLES
  revisions,   \* publication_revisions in order of commit
  reviews,     \* publication_reviews in order of created_at
  shelf,       \* published_lessons: word, record and availability
  bank,        \* published_practice_items: the state of each item
  publishing,  \* the transaction of each publisher
  publishes, withdrawals

publication == <<revisions, reviews, shelf, bank, publishing, publishes, withdrawals>>

Absent == [word |-> "none", record |-> {}, available |-> FALSE, version |-> 0]
Quiet == [phase |-> "idle"]
\* Meanings of a lesson that was on the shelf before publication existed.
OldRecord == {[id |-> [born |-> 0, sources |-> {}], text |-> "old"]}

PublicationInit ==
  /\ revisions = <<>> /\ reviews \in Reviewed
  /\ shelf = [l \in Lessons |-> IF l \in DOMAIN Legacy
                THEN [word |-> Legacy[l], record |-> OldRecord,
                      available |-> TRUE, version |-> 1]
                ELSE Absent]
  /\ bank = [i \in Items |-> "unborn"]
  /\ publishing = [w \in Publishers |-> Quiet]
  /\ publishes = 0 /\ withdrawals = 0
------------------------------------------------------------------------------
\* The places of a lesson's revisions, and of the one of the highest version.
OfLesson(revs, l) == {n \in DOMAIN revs : revs[n].cand.lesson = l}
Latest(revs, l) == CHOOSE n \in OfLesson(revs, l) :
                     \A m \in OfLesson(revs, l) : revs[m].version <= revs[n].version
LatestVersion(revs, l) == IF OfLesson(revs, l) = {} THEN 0 ELSE revs[Latest(revs, l)].version
PreviousMeanings(revs, l) == IF OfLesson(revs, l) = {} THEN {} ELSE revs[Latest(revs, l)].meanings

\* resolveMeanings: an unchanged group of defining sources keeps its identity;
\* a new one (randomUUID) names those it shares a source with.
Resolve(c, previous, version) ==
  {LET exact == {old \in previous : old.id.sources = m.sources}
   IN  [id |-> IF exact = {} THEN [born |-> version, sources |-> m.sources]
               ELSE (CHOOSE old \in exact : TRUE).id,
        text |-> m.text,
        predecessors |-> IF exact # {} THEN (CHOOSE old \in exact : TRUE).predecessors
                         ELSE {old.id : old \in {o \in previous :
                                 o.id.sources \intersect m.sources # {}}}] :
     m \in c.meanings}

Public(meanings) == {[id |-> m.id, text |-> m.text] : m \in meanings}

\* practiceMatchesLesson, and the test of the trigger that retires items. An
\* item is written for the first identity its meaning had.
Matches(i, record) == \E m \in record : m.id.sources = i.sources /\ m.id.born = i.born
                                        /\ m.text = i.text

Snapshot(l) == [revisions |-> Len(revisions), reviews |-> Len(reviews), row |-> shelf[l]]
------------------------------------------------------------------------------
RecordReview(c, decision) ==
  /\ Len(reviews) < MaxReviews
  /\ reviews' = Append(reviews, [cand |-> c, decision |-> decision])
  /\ UNCHANGED <<revisions, shelf, bank, publishing, publishes, withdrawals>>

BeginPublish(w, c, expected) ==
  /\ publishing[w] = Quiet /\ publishes < MaxPublishes
  /\ publishing' = [publishing EXCEPT ![w] =
       [phase |-> "waiting", cand |-> c, expected |-> expected, tries |-> 0,
        seen |-> Snapshot(c.lesson)]]
  /\ publishes' = publishes + 1
  /\ UNCHANGED <<revisions, reviews, shelf, bank, withdrawals>>

\* pg_advisory_xact_lock
LockLesson(w) ==
  /\ publishing[w].phase = "waiting"
  /\ \A x \in Publishers : publishing[x].phase = "locked" =>
       publishing[x].cand.lesson # publishing[w].cand.lesson
  /\ publishing' = [publishing EXCEPT ![w].phase = "locked"]
  /\ UNCHANGED <<revisions, reviews, shelf, bank, publishes, withdrawals>>

SeenRevisions(t) == SubSeq(revisions, 1, t.seen.revisions)
Published(t) == \E n \in DOMAIN SeenRevisions(t) : SeenRevisions(t)[n].cand = t.cand
Verdicts(t) == {i \in 1..t.seen.reviews : reviews[i].cand = t.cand}
LatestVerdict(t) == CHOOSE i \in Verdicts(t) : \A j \in Verdicts(t) : j <= i
SameWord(t) == t.seen.row = Absent \/ t.seen.row.word = t.cand.word

\* checkReview and the checks on the lesson's history.
Publishable(t) ==
  /\ Verdicts(t) # {} /\ reviews[LatestVerdict(t)].decision = "approve"
  /\ ~t.cand.blocked
  /\ SameWord(t)
  /\ t.seen.row # Absent => OfLesson(SeenRevisions(t), t.cand.lesson) # {}
  /\ LatestVersion(SeenRevisions(t), t.cand.lesson) = t.expected

Unseen(t) == FALSE  \* mutant: the snapshot is taken for the present

\* What makes the writes of the transaction fail with 40001.
Overtaken(t) == \/ OfLesson(revisions, t.cand.lesson) # OfLesson(SeenRevisions(t), t.cand.lesson)
                \/ shelf[t.cand.lesson] # t.seen.row

Untouched(l, record) == bank  \* mutant: no trigger

\* The trigger invalidate_changed_meaning_practice.
Invalidated(l, record) ==
  [i \in Items |-> IF i.lesson = l /\ bank[i] = "available" /\ ~Matches(i, record)
                   THEN "retired" ELSE bank[i]]

\* A receipt, a refusal, the refusal of the external authorization, or a
\* failure: nothing is written.
EndPublish(w) ==
  /\ publishing[w].phase = "locked"
  /\ publishing' = [publishing EXCEPT ![w] = Quiet]
  /\ UNCHANGED <<revisions, reviews, shelf, bank, publishes, withdrawals>>

RetryPublish(w) ==
  LET t == publishing[w]
  IN  /\ t.phase = "locked" /\ ~Published(t) /\ Publishable(t) /\ Overtaken(t)
      /\ t.tries < 2
      /\ publishing' = [publishing EXCEPT ![w] =
           [t EXCEPT !.phase = "waiting", !.tries = @ + 1, !.seen = Snapshot(t.cand.lesson)]]
      /\ UNCHANGED <<revisions, reviews, shelf, bank, publishes, withdrawals>>

CommitPublish(w) ==
  LET t == publishing[w]
      c == t.cand
      version == t.expected + 1
      meanings == Resolve(c, PreviousMeanings(SeenRevisions(t), c.lesson), version)
  IN  /\ t.phase = "locked" /\ ~Published(t) /\ Publishable(t) /\ ~Overtaken(t)
      /\ revisions' = Append(revisions, [cand |-> c, version |-> version,
           review |-> LatestVerdict(t), meanings |-> meanings])
      /\ shelf' = [shelf EXCEPT ![c.lesson] =
           [word |-> IF @ = Absent THEN c.word ELSE @.word, record |-> Public(meanings),
            available |-> TRUE, version |-> version]]
      /\ bank' = Invalidated(c.lesson, Public(meanings))
      /\ publishing' = [publishing EXCEPT ![w] = Quiet]
      /\ UNCHANGED <<reviews, publishes, withdrawals>>

(* Outside this repository's code: an operator withdraws a lesson; the     *)
(* practice pipeline adds an item for a meaning on the shelf or withdraws  *)
(* one. Its additions are taken to wait for a publication in progress.     *)
Withdraw(l) ==
  /\ shelf[l].available /\ withdrawals < MaxWithdrawals
  /\ shelf' = [shelf EXCEPT ![l].available = FALSE]
  /\ withdrawals' = withdrawals + 1
  /\ UNCHANGED <<revisions, reviews, bank, publishing, publishes>>

AddPractice(i) ==
  /\ bank[i] = "unborn" /\ Matches(i, shelf[i.lesson].record)
  /\ \A w \in Publishers : publishing[w].phase # "idle" => publishing[w].cand.lesson # i.lesson
  /\ bank' = [bank EXCEPT ![i] = "available"]
  /\ UNCHANGED <<revisions, reviews, shelf, publishing, publishes, withdrawals>>

RetirePractice(i) ==
  /\ bank[i] = "available" /\ withdrawals < MaxWithdrawals
  /\ bank' = [bank EXCEPT ![i] = "retired"]
  /\ withdrawals' = withdrawals + 1
  /\ UNCHANGED <<revisions, reviews, shelf, publishing, publishes>>

PublicationNext ==
  \/ \E c \in Candidates : \E decision \in {"approve", "reject"} : RecordReview(c, decision)
  \/ \E w \in Publishers :
       \/ \E c \in Candidates : \E e \in 0..Len(revisions) : BeginPublish(w, c, e)
       \/ LockLesson(w) \/ EndPublish(w) \/ RetryPublish(w) \/ CommitPublish(w)
  \/ \E l \in Lessons : Withdraw(l)
  \/ \E i \in Items : AddPractice(i) \/ RetirePractice(i)
------------------------------------------------------------------------------
KeepsIdentities(before, after) ==
  \A old \in before.meanings : \A m \in after.meanings :
    m.id.sources = old.id.sources => m.id = old.id

(* However publishers overlap: the revisions of a lesson are numbered      *)
(* without gaps and keep its word, a candidate has one at most, each rests *)
(* on a review that approved that candidate, what learners read is the     *)
(* latest of them, and a meaning that stays keeps its identity.            *)
PublishedOnce ==
  /\ \A l \in Lessons : LET revs == OfLesson(revisions, l) IN
       /\ \A n \in revs : /\ revisions[n].cand.word = shelf[l].word
                         /\ \/ revisions[n].version = 1
                            \/ \E m \in revs : revisions[m].version = revisions[n].version - 1
       /\ \A m, n \in revs : m < n =>
            /\ revisions[m].version < revisions[n].version
            /\ revisions[n].version = revisions[m].version + 1 => KeepsIdentities(revisions[m], revisions[n])
       /\ revs # {} => shelf[l].record = Public(revisions[Latest(revisions, l)].meanings)
  /\ \A m, n \in DOMAIN revisions : revisions[m].cand = revisions[n].cand => m = n
  /\ \A n \in DOMAIN revisions : reviews[revisions[n].review] =
       [cand |-> revisions[n].cand, decision |-> "approve"]

(* An item is only available while the meaning it was written for is on    *)
(* the shelf under its identity and wording, through splits, merges and    *)
(* wordings that change and come back.                                     *)
BankMatches == \A i \in Items :
  bank[i] = "available" => Matches(i, shelf[i.lesson].record)
==============================================================================
