------------------------- MODULE DailyDeliveryProofs -------------------------
(***************************************************************************)
(* Theorems about publication and a learner's deliveries: revisions of a   *)
(* lesson are published once and in order, practice items match what is on *)
(* the shelf, a word is the learner's once, words are delivered in the     *)
(* order they came up, and of the requests that follow a reply only skips  *)
(* that come too late are refused, for any candidates, items, publishers,  *)
(* time zones and lengths of the queue.                                    *)
(***************************************************************************)
EXTENDS DailyDelivery, FiniteSetTheorems, WellFoundedInduction, TLAPS

Named == {c.word : c \in Candidates} \union {Legacy[l] : l \in DOMAIN Legacy}
Meant == UNION {c.meanings : c \in Candidates}
Ids == [born : Nat, sources : {m.sources : m \in Meant}]
Texts == {m.text : m \in Meant}
MeaningRows == [id : Ids, text : Texts, predecessors : SUBSET Ids]
RevisionRows == [cand : Candidates, version : Nat \ {0}, review : Nat, meanings : SUBSET MeaningRows]
ReviewRows == [cand : Candidates, decision : {"approve", "reject"}]
Records == SUBSET ([id : Ids, text : Texts] \union OldRecord)
LessonRows == [word : Named \union {"none"}, record : Records, available : BOOLEAN, version : Nat]
Transactions == [phase : {"waiting", "locked"}, cand : Candidates, expected : Nat, tries : Nat,
                 seen : [revisions : Nat, reviews : Nat, row : LessonRows]]

(* The type of each variable of publication; a snapshot is of the past.    *)
RevisionsTyped == revisions \in Seq(RevisionRows)
ReviewsTyped == reviews \in Seq(ReviewRows)
ShelfTyped == shelf \in [Lessons -> LessonRows]
BankTyped == bank \in [Items -> {"unborn", "available", "retired"}]
PublishingTyped ==
  /\ DOMAIN publishing = Publishers
  /\ \A w \in Publishers : publishing[w] # Quiet =>
       /\ publishing[w] \in Transactions
       /\ publishing[w].seen.revisions <= Len(revisions)
       /\ publishing[w].seen.reviews <= Len(reviews)

(* A lesson on the shelf has a word.                                       *)
ShelfNamed == \A l \in Lessons : shelf[l] = Absent \/ shelf[l].word \in Named

(* The history of each lesson: its word, its versions, its identities, and *)
(* the revision on the shelf.                                              *)
Worded == \A n \in DOMAIN revisions : revisions[n].cand.word = shelf[revisions[n].cand.lesson].word
Gapless == \A n \in DOMAIN revisions :
  \/ revisions[n].version = 1
  \/ \E m \in OfLesson(revisions, revisions[n].cand.lesson) : revisions[m].version = revisions[n].version - 1
Ordered == \A l \in Lessons : \A m, n \in OfLesson(revisions, l) : m < n =>
  revisions[m].version < revisions[n].version
Kept == \A l \in Lessons : \A m, n \in OfLesson(revisions, l) :
  revisions[n].version = revisions[m].version + 1 => KeepsIdentities(revisions[m], revisions[n])
OneIdentity == \A n \in DOMAIN revisions : KeepsIdentities(revisions[n], revisions[n])
OnShelf == \A l \in Lessons : OfLesson(revisions, l) # {} =>
  \E n \in OfLesson(revisions, l) :
    /\ revisions[n].version = shelf[l].version /\ shelf[l].record = Public(revisions[n].meanings)
    /\ \A m \in OfLesson(revisions, l) : revisions[m].version <= revisions[n].version
Single == \A m, n \in DOMAIN revisions : revisions[m].cand = revisions[n].cand => m = n
ReviewApproved == \A n \in DOMAIN revisions :
  /\ revisions[n].review \in DOMAIN reviews
  /\ reviews[revisions[n].review] = [cand |-> revisions[n].cand, decision |-> "approve"]

PublicationTypes == RevisionsTyped /\ ReviewsTyped /\ ShelfTyped /\ BankTyped /\ PublishingTyped
History == Worded /\ Gapless /\ Ordered /\ Kept /\ OneIdentity /\ OnShelf /\ Single /\ ReviewApproved
PublicationInv == PublicationTypes /\ ShelfNamed /\ History /\ BankMatches

(* A profile's rows, committed or in a transaction, keep a word to one     *)
(* place; a lesson's word does not change once it is on the shelf.         *)
Deliveries == [date : Nat, lesson : Lessons, word : Named]
Reservations == [id : Nat, lesson : Lessons, word : Named, position : Nat]
ProfileRows == [deliveries : SUBSET Deliveries, reserved : SUBSET Reservations,
                skipped : SUBSET [word : Named, id : Nat], practised : SUBSET Items, drawn : Nat]
RowsOK(r) ==
  /\ r \in ProfileRows
  /\ IsFiniteSet(r.reserved) /\ Cardinality(r.reserved) <= QueueSize
  /\ UniqueKeys(r)
  /\ \A d \in r.deliveries : d.word = shelf[d.lesson].word
  /\ \A x \in r.reserved : x.word = shelf[x.lesson].word
  /\ (Words(r.deliveries) \union Words(r.reserved)) \intersect Words(r.skipped) = {}
  /\ Words(r.deliveries) \intersect Words(r.reserved) = {}

(* The queue is in the order of its ids, which were drawn; and what it     *)
(* holds stands as long as nothing was withdrawn.                          *)
QueueOK(r) ==
  /\ \A x \in r.reserved : x.id <= r.drawn
  /\ \A x, y \in r.reserved : x.id < y.id => x.position < y.position
  /\ withdrawals = 0 => \A x \in r.reserved : shelf[x.lesson].available

(* What was served was published, for a delivery that stays.               *)
Served(i, r) == i \in Items /\ bank[i] # "unborn" /\ \E d \in r.deliveries : d.lesson = i.lesson

(* A word that was shown is reserved under its id, delivered or skipped.   *)
Held(row, r) ==
  row \in r.reserved \/ row.word \in Words(r.deliveries) \/ row.id \in RowIds(r.skipped)

(* What a transaction makes of the committed rows: it takes no delivery or *)
(* skip back, numbers what it reserves anew, delivers what waited longest, *)
(* and loses nothing that was shown.                                       *)
Follows(r) ==
  /\ deliveries \subseteq r.deliveries /\ skipped \subseteq r.skipped /\ drawn <= r.drawn
  /\ \A y \in r.reserved : y \in reserved \/ drawn < y.id
  /\ \A x \in reserved : x.word \in Words(r.deliveries) => \A y \in r.reserved : x.id < y.id
  /\ withdrawals = 0 => \A row \in kept.upcoming : Held(row, r)
Early(phase, r) == phase \in {"discard", "deliver"} =>
  r.deliveries = deliveries /\ r.reserved \subseteq reserved

ServedLessons == [lesson : Lessons, record : Records]
Asked == [kind : {"lessons"}] \union [kind : {"skip"}, row : Reservations] \union [kind : {"sync"}, item : Items]
Phases == {"discard", "deliver", "fill", "lessons", "skip", "sync", "rest"}
RequestRows == [phase : Phases \union {"refused"}, what : Asked, date : Nat, rows : ProfileRows,
                filled : BOOLEAN, lessons : SUBSET ServedLessons]

RequestOK == request # Rest =>
  /\ request \in RequestRows
  /\ RowsOK(request.rows) /\ QueueOK(request.rows) /\ Follows(request.rows)
  /\ Early(request.phase, request.rows)
  /\ request.what.kind = "sync" => Served(request.what.item, request.rows)
  /\ request.what.kind = "skip" => request.what.row \in kept.upcoming
  /\ request.phase = "skip" => request.what.kind = "skip"
  /\ request.phase = "sync" => request.what.kind = "sync"
  /\ \A x \in request.lessons : \E d \in request.rows.deliveries : d.lesson = x.lesson

KeptOK ==
  /\ kept \in [items : SUBSET Items, upcoming : SUBSET Reservations]
  /\ \A i \in kept.items : Served(i, Rows)
  /\ withdrawals = 0 => \A row \in kept.upcoming : Held(row, Rows)

DeliveryInv == /\ RowsOK(Rows) /\ QueueOK(Rows) /\ RequestOK /\ KeptOK
               /\ day \in Nat /\ withdrawals \in Nat /\ OnlyLateSkipsFail

Inv == PublicationInv /\ DeliveryInv
------------------------------------------------------------------------------
(* A set of numbers has a least element; a bounded or a finite one has a  *)
(* greatest.                                                               *)
LEMMA LeastNumber ==
  ASSUME NEW V, V \subseteq Nat, V # {}
  PROVE  \E i \in V : \A j \in V : i <= j
<1> DEFINE less == OpToRel(<, Nat)
<1>1. \A x, y \in Nat : <<x, y>> \in less <=> x < y
  BY DEF OpToRel
<1>2. IsWellFoundedOn(less, Nat)
  BY NatLessThanWellFounded
<1> HIDE DEF less
<1>3. PICK i \in V : \A j \in V : ~ (<<j, i>> \in less)
  BY <1>2, WFMin
<1>4. \A j \in V : ~(j < i)
  BY <1>1, <1>3
<1> QED
  BY <1>4

LEMMA GreatestOfBounded ==
  ASSUME NEW V, V \subseteq Nat, V # {}, NEW b \in Nat, \A j \in V : j <= b
  PROVE  \E i \in V : \A j \in V : j <= i
<1> DEFINE above == {n \in Nat : \A j \in V : j <= n}
<1>1. above \subseteq Nat /\ above # {}
  OBVIOUS
<1>2. PICK i \in above : \A n \in above : i <= n
  BY <1>1, LeastNumber
<1>3. PICK v : v \in V
  OBVIOUS
<1>4. CASE i \in V
  BY <1>2, <1>4
<1>5. CASE i \notin V
  <2>1. \A j \in V : j < i
    BY <1>2, <1>5
  <2>2. i - 1 \in above
    BY <2>1, <1>3
  <2> QED
    BY <2>2, <1>2
<1> QED
  BY <1>4, <1>5

LEMMA GreatestNumber ==
  ASSUME NEW V, V \subseteq Nat, V # {}, IsFiniteSet(V)
  PROVE  \E i \in V : \A j \in V : j <= i
<1> DEFINE Bounded(W) == \E b \in Nat : \A j \in W : j <= b
           wrong == {Cardinality(W) : W \in {U \in SUBSET V : ~Bounded(U)}}
<1>1. wrong \subseteq Nat
  BY FS_Subset, FS_CardinalityType
<1>2. ASSUME wrong # {} PROVE FALSE
  <2>1. PICK n \in wrong : \A m \in wrong : n <= m
    BY <1>1, <1>2, LeastNumber
  <2>2. PICK W \in SUBSET V : ~Bounded(W) /\ n = Cardinality(W)
    BY <2>1
  <2>3. PICK w \in W : TRUE
    BY <2>2
  <2>4. IsFiniteSet(W) /\ IsFiniteSet(W \ {w}) /\ Cardinality(W \ {w}) = Cardinality(W) - 1
    BY <2>3, FS_Subset, FS_RemoveElement
  <2>5. Bounded(W \ {w})
    <3>1. SUFFICES ASSUME ~Bounded(W \ {w}) PROVE FALSE
      OBVIOUS
    <3>2. Cardinality(W \ {w}) \in wrong
      BY <3>1
    <3>3. n <= n - 1
      BY <3>2, <2>1, <2>2, <2>4
    <3>4. n \in Nat
      BY <1>1, <2>1
    <3> HIDE DEF wrong
    <3> QED
      BY <3>3, <3>4
  <2>6. PICK b \in Nat : \A j \in W \ {w} : j <= b
    BY <2>5
  <2>7. w \in Nat
    OBVIOUS
  <2>8. CASE w <= b
    BY <2>6, <2>8, <2>2
  <2>9. CASE ~(w <= b)
    <3>1. \A j \in W : j \in Nat /\ j <= w
      BY <2>6, <2>9, <2>7
    <3> QED
      BY <3>1, <2>7, <2>2
  <2> QED
    BY <2>8, <2>9
<1>3. Bounded(V)
  BY <1>2
<1> QED
  BY <1>3, GreatestOfBounded
------------------------------------------------------------------------------
(* Publication *)

LEMMA LessonOf ==
  ASSUME NEW c \in Candidates
  PROVE  c.lesson \in Lessons
BY DEF Lessons

LEMMA RevisionAt ==
  ASSUME RevisionsTyped, NEW n \in DOMAIN revisions
  PROVE  /\ n \in Nat /\ n \in 1..Len(revisions) /\ revisions[n] \in RevisionRows
         /\ revisions[n].cand \in Candidates /\ revisions[n].cand.lesson \in Lessons
         /\ revisions[n].version \in Nat /\ revisions[n].version >= 1
         /\ revisions[n].meanings \in SUBSET MeaningRows
<1>1. n \in Nat /\ n \in 1..Len(revisions) /\ revisions[n] \in RevisionRows
  BY DEF RevisionsTyped
<1>2. /\ revisions[n].cand \in Candidates /\ revisions[n].version \in Nat \ {0}
      /\ revisions[n].meanings \in SUBSET MeaningRows
  BY <1>1 DEF RevisionRows
<1> QED
  BY <1>1, <1>2, LessonOf

LEMMA PublicationStarts ==
  ASSUME PublicationInit
  PROVE  PublicationInv
<1>1. RevisionsTyped /\ ReviewsTyped
  <2>1. Reviewed \subseteq Seq(ReviewRows)
    BY PublicationAssumption DEF ReviewRows
  <2>2. reviews \in Reviewed /\ revisions = <<>>
    BY DEF PublicationInit
  <2> QED
    BY <2>1, <2>2 DEF RevisionsTyped, ReviewsTyped
<1>2. \A l \in Lessons : shelf[l] \in LessonRows /\ (shelf[l] = Absent \/ shelf[l].word \in Named)
  <2> SUFFICES ASSUME NEW l \in Lessons
               PROVE  shelf[l] \in LessonRows /\ (shelf[l] = Absent \/ shelf[l].word \in Named)
    OBVIOUS
  <2>1. OldRecord \in Records /\ {} \in Records
    BY DEF Records
  <2>2. CASE l \in DOMAIN Legacy
    <3>1. shelf[l] = [word |-> Legacy[l], record |-> OldRecord, available |-> TRUE, version |-> 1]
      BY <2>2 DEF PublicationInit
    <3>2. Legacy[l] \in Named
      BY <2>2 DEF Named
    <3> QED
      BY <3>1, <3>2, <2>1 DEF LessonRows
  <2>3. CASE l \notin DOMAIN Legacy
    <3>1. shelf[l] = Absent
      BY <2>3 DEF PublicationInit
    <3> QED
      BY <3>1, <2>1 DEF LessonRows, Absent
  <2> QED
    BY <2>2, <2>3
<1>3. ShelfTyped /\ ShelfNamed
  BY <1>2 DEF PublicationInit, ShelfTyped, ShelfNamed
<1>4. BankTyped /\ BankMatches
  BY DEF PublicationInit, BankTyped, BankMatches
<1>5. PublishingTyped
  BY DEF PublicationInit, PublishingTyped
<1>6. revisions = <<>> /\ DOMAIN revisions = {}
  BY DEF PublicationInit
<1>7. History
  BY <1>6 DEF History, Worded, Gapless, Ordered, Kept, OneIdentity, OnShelf, Single, ReviewApproved,
              OfLesson
<1> QED
  BY <1>1, <1>3, <1>4, <1>5, <1>7 DEF PublicationInv, PublicationTypes

(* What a transaction has seen is the beginning of the history.            *)
LEMMA SeenIs ==
  ASSUME RevisionsTyped, PublishingTyped, NEW w \in Publishers, publishing[w] # Quiet
  PROVE  LET t == publishing[w]
         IN  /\ DOMAIN SeenRevisions(t) = 1..t.seen.revisions
             /\ t.seen.revisions \in Nat /\ t.seen.revisions <= Len(revisions)
             /\ \A n \in 1..t.seen.revisions : n \in DOMAIN revisions /\ SeenRevisions(t)[n] = revisions[n]
<1> DEFINE k == publishing[w].seen.revisions
<1>1. k \in Nat /\ k <= Len(revisions) /\ Len(revisions) \in Nat /\ revisions \in Seq(RevisionRows)
  BY DEF RevisionsTyped, PublishingTyped, Transactions
<1>2. /\ Len(SubSeq(revisions, 1, k)) = k /\ DOMAIN SubSeq(revisions, 1, k) = 1..k
      /\ \A n \in 1..k : SubSeq(revisions, 1, k)[n] = revisions[n]
  BY <1>1
<1>3. \A n \in 1..k : n \in DOMAIN revisions
  BY <1>1
<1> QED
  BY <1>1, <1>2, <1>3 DEF SeenRevisions

(* The latest revision of a lesson, in what a transaction sees of all of   *)
(* its revisions, is the one on the shelf.                                 *)
LEMMA LatestIs ==
  ASSUME PublicationInv, NEW l \in Lessons, OfLesson(revisions, l) # {}, NEW seen,
         OfLesson(seen, l) = OfLesson(revisions, l),
         \A m \in OfLesson(revisions, l) : seen[m] = revisions[m]
  PROVE  LET n == Latest(seen, l)
         IN  /\ n \in OfLesson(revisions, l)
             /\ revisions[n].version = shelf[l].version
             /\ shelf[l].record = Public(revisions[n].meanings)
             /\ \A m \in OfLesson(revisions, l) :
                  /\ revisions[m].version <= revisions[n].version
                  /\ revisions[m].version = revisions[n].version => m = n
<1> DEFINE revs == OfLesson(revisions, l)
           n == Latest(seen, l)
<1>1. PICK top \in revs :
        /\ revisions[top].version = shelf[l].version /\ shelf[l].record = Public(revisions[top].meanings)
        /\ \A m \in revs : revisions[m].version <= revisions[top].version
  BY DEF PublicationInv, History, OnShelf
<1>2. n \in revs /\ \A m \in revs : revisions[m].version <= revisions[n].version
  <2>1. \A m \in revs : seen[m].version <= seen[top].version
    BY <1>1
  <2>2. n \in revs /\ \A m \in revs : seen[m].version <= seen[n].version
    BY <2>1 DEF Latest
  <2> QED
    BY <2>2
<1>3. \A m \in revs : m \in Nat /\ revisions[m].version \in Nat
  BY RevisionAt DEF OfLesson, PublicationInv, PublicationTypes
<1>4. \A i, j \in revs : i < j => revisions[i].version < revisions[j].version
  BY DEF PublicationInv, History, Ordered
<1> HIDE DEF n, revs
<1>5. \A i, j \in revs : revisions[i].version = revisions[j].version => i = j
  BY <1>3, <1>4
<1>6. revisions[n].version = revisions[top].version
  BY <1>1, <1>2, <1>3
<1>7. n = top
  BY <1>1, <1>2, <1>5, <1>6
<1> QED
  BY <1>1, <1>2, <1>5, <1>7 DEF n, revs

(* The version after a publication: the shelf has it, or the lesson is new. *)
LEMMA VersionsPositive ==
  ASSUME PublicationInv, NEW l \in Lessons, OfLesson(revisions, l) # {}
  PROVE  shelf[l].version \in Nat /\ shelf[l].version >= 1 /\ shelf[l] # Absent
<1>1. Latest(revisions, l) \in DOMAIN revisions
  BY LatestIs DEF OfLesson
<1>2. revisions[Latest(revisions, l)].version \in Nat /\ revisions[Latest(revisions, l)].version >= 1
  BY <1>1, RevisionAt DEF PublicationInv, PublicationTypes
<1> QED
  BY <1>2, LatestIs DEF Absent

LEMMA LatestVerdictIs ==
  ASSUME PublicationInv, NEW w \in Publishers, publishing[w] # Quiet, Verdicts(publishing[w]) # {}
  PROVE  LatestVerdict(publishing[w]) \in Verdicts(publishing[w])
<1> DEFINE V == Verdicts(publishing[w])
           b == publishing[w].seen.reviews
<1>1. b \in Nat
  BY DEF PublicationInv, PublicationTypes, PublishingTyped, Transactions
<1>2. V \subseteq Nat /\ V # {} /\ \A j \in V : j <= b
  BY <1>1 DEF Verdicts
<1>3. \E i \in V : \A j \in V : j <= i
  <2> HIDE DEF V, b
  <2> QED
    BY <1>1, <1>2, GreatestOfBounded
<1> QED
  BY <1>3 DEF LatestVerdict

(* A meaning that stays keeps the identity it had.                         *)
LEMMA Resolved ==
  ASSUME NEW c \in Candidates, NEW previous \in SUBSET MeaningRows, NEW version \in Nat,
         \A a, b \in previous : a.id.sources = b.id.sources => a.id = b.id
  PROVE  LET new == Resolve(c, previous, version)
         IN  /\ new \in SUBSET MeaningRows
             /\ \A a, b \in new : a.id.sources = b.id.sources => a.id = b.id
             /\ \A old \in previous : \A m \in new : m.id.sources = old.id.sources => m.id = old.id
<1> DEFINE new == Resolve(c, previous, version)
           Exact(m) == {old \in previous : old.id.sources = m.sources}
           Id(m) == IF Exact(m) = {} THEN [born |-> version, sources |-> m.sources]
                    ELSE (CHOOSE old \in Exact(m) : TRUE).id
           Before(m) == IF Exact(m) # {} THEN (CHOOSE old \in Exact(m) : TRUE).predecessors
                        ELSE {old.id : old \in {o \in previous : o.id.sources \intersect m.sources # {}}}
<1>1. new = {[id |-> Id(m), text |-> m.text, predecessors |-> Before(m)] : m \in c.meanings}
  BY DEF Resolve
<1>2. ASSUME NEW m \in c.meanings
      PROVE  /\ Id(m) \in Ids /\ Id(m).sources = m.sources /\ m.text \in Texts /\ Before(m) \in SUBSET Ids
             /\ \A old \in previous : m.sources = old.id.sources => Id(m) = old.id
  <2>1. m \in Meant /\ m.text \in Texts /\ m.sources \in {x.sources : x \in Meant}
    BY DEF Meant, Texts
  <2>2. \A old \in previous : old.id \in Ids /\ old.predecessors \in SUBSET Ids
    BY DEF MeaningRows
  <2>3. CASE Exact(m) = {}
    <3>1. Id(m) = [born |-> version, sources |-> m.sources]
      BY <2>3
    <3>2. Before(m) = {old.id : old \in {o \in previous : o.id.sources \intersect m.sources # {}}}
      BY <2>3
    <3> HIDE DEF Id, Before
    <3> QED
      BY <3>1, <3>2, <2>1, <2>2, <2>3 DEF Ids
  <2>4. CASE Exact(m) # {}
    <3>1. PICK old \in Exact(m) : old = CHOOSE x \in Exact(m) : TRUE
      BY <2>4
    <3>2. Id(m) = old.id /\ Before(m) = old.predecessors /\ old \in previous /\ old.id.sources = m.sources
      BY <3>1, <2>4
    <3> HIDE DEF Id, Before
    <3> QED
      BY <3>2, <2>1, <2>2
  <2> QED
    BY <2>3, <2>4
<1> HIDE DEF Id, Before, new
<1>3. \A a \in new : \E m \in c.meanings :
        a = [id |-> Id(m), text |-> m.text, predecessors |-> Before(m)]
  BY <1>1
<1>4. \A a \in new : a \in MeaningRows
  BY <1>2, <1>3 DEF MeaningRows
<1>5. ASSUME NEW a \in new, NEW b \in new, a.id.sources = b.id.sources
      PROVE  a.id = b.id
  <2>1. PICK m \in c.meanings : a.id = Id(m)
    BY <1>3
  <2>2. PICK k \in c.meanings : b.id = Id(k)
    BY <1>3
  <2>3. m.sources = k.sources
    BY <2>1, <2>2, <1>2, <1>5
  <2>4. Exact(m) = Exact(k)
    BY <2>3
  <2>5. Id(m) = Id(k)
    BY <2>3, <2>4 DEF Id
  <2> QED
    BY <2>1, <2>2, <2>5
<1>6. ASSUME NEW old \in previous, NEW a \in new, a.id.sources = old.id.sources
      PROVE  a.id = old.id
  <2>1. PICK m \in c.meanings : a.id = Id(m)
    BY <1>3
  <2> QED
    BY <2>1, <1>2, <1>6
<1> QED
  BY <1>4, <1>5, <1>6 DEF new
------------------------------------------------------------------------------
(* One lemma per step of publication. *)

LEMMA HistoryStays ==
  ASSUME RevisionsTyped, History, revisions' = revisions,
         \A l \in Lessons : /\ shelf'[l].word = shelf[l].word /\ shelf'[l].record = shelf[l].record
                            /\ shelf'[l].version = shelf[l].version,
         \A i \in DOMAIN reviews : i \in DOMAIN reviews' /\ reviews'[i] = reviews[i]
  PROVE  History'
<1>1. Worded'
  BY RevisionAt DEF History, Worded
<1>2. Gapless' /\ Ordered' /\ Kept' /\ OneIdentity' /\ Single'
  BY DEF History, Gapless, Ordered, Kept, OneIdentity, Single, OfLesson
<1>3. OnShelf'
  BY DEF History, OnShelf, OfLesson
<1>4. ReviewApproved'
  BY DEF History, ReviewApproved
<1> QED
  BY <1>1, <1>2, <1>3, <1>4 DEF History

LEMMA ShelfStays ==
  ASSUME PublicationInv, UNCHANGED <<revisions, shelf>>,
         \A i \in DOMAIN reviews : i \in DOMAIN reviews' /\ reviews'[i] = reviews[i]
  PROVE  RevisionsTyped' /\ ShelfTyped' /\ ShelfNamed' /\ History'
<1>1. RevisionsTyped' /\ ShelfTyped' /\ ShelfNamed'
  BY DEF PublicationInv, PublicationTypes, RevisionsTyped, ShelfTyped, ShelfNamed
<1>2. History'
  BY HistoryStays DEF PublicationInv, PublicationTypes
<1> QED
  BY <1>1, <1>2

LEMMA SnapshotTyped ==
  ASSUME PublicationInv, NEW l \in Lessons
  PROVE  /\ Snapshot(l) \in [revisions : Nat, reviews : Nat, row : LessonRows]
         /\ Snapshot(l).revisions <= Len(revisions) /\ Snapshot(l).reviews <= Len(reviews)
BY DEF Snapshot, PublicationInv, PublicationTypes, RevisionsTyped, ReviewsTyped, ShelfTyped

LEMMA PublisherMoves ==
  ASSUME PublicationInv, NEW w \in Publishers, NEW t,
         publishing' = [publishing EXCEPT ![w] = t], UNCHANGED <<revisions, reviews>>,
         t # Quiet => /\ t \in Transactions
                      /\ t.seen.revisions <= Len(revisions) /\ t.seen.reviews <= Len(reviews)
  PROVE  PublishingTyped'
<1>1. DOMAIN publishing' = Publishers
  BY DEF PublicationInv, PublicationTypes, PublishingTyped
<1>2. \A x \in Publishers : publishing'[x] = IF x = w THEN t ELSE publishing[x]
  BY DEF PublicationInv, PublicationTypes, PublishingTyped
<1> QED
  BY <1>1, <1>2 DEF PublicationInv, PublicationTypes, PublishingTyped

LEMMA RecordReviewKeeps ==
  ASSUME PublicationInv, NEW c \in Candidates, NEW decision \in {"approve", "reject"},
         RecordReview(c, decision)
  PROVE  PublicationInv'
<1> DEFINE new == [cand |-> c, decision |-> decision]
<1>1. reviews' = Append(reviews, new) /\ UNCHANGED <<revisions, shelf, bank, publishing>>
  BY DEF RecordReview
<1>2. reviews \in Seq(ReviewRows) /\ new \in ReviewRows
  BY DEF PublicationInv, PublicationTypes, ReviewsTyped, ReviewRows
<1> HIDE DEF new
<1>3. /\ reviews' \in Seq(ReviewRows) /\ Len(reviews) <= Len(reviews') /\ Len(reviews) \in Nat /\ Len(reviews') \in Nat
      /\ \A i \in DOMAIN reviews : i \in DOMAIN reviews' /\ reviews'[i] = reviews[i]
  BY <1>1, <1>2
<1>4. RevisionsTyped' /\ ShelfTyped' /\ ShelfNamed' /\ History'
  BY <1>1, <1>3, ShelfStays
<1>5. BankTyped' /\ BankMatches'
  BY <1>1 DEF PublicationInv, PublicationTypes, BankTyped, BankMatches, Matches
<1>6. PublishingTyped'
  BY <1>1, <1>3 DEF PublicationInv, PublicationTypes, PublishingTyped, Transactions
<1> QED
  BY <1>3, <1>4, <1>5, <1>6 DEF PublicationInv, PublicationTypes, ReviewsTyped

LEMMA PublisherKeeps ==
  ASSUME PublicationInv, PublishingTyped', UNCHANGED <<revisions, reviews, shelf, bank>>
  PROVE  PublicationInv'
<1>1. RevisionsTyped' /\ ShelfTyped' /\ ShelfNamed' /\ History'
  BY ShelfStays
<1>2. BankTyped' /\ BankMatches' /\ ReviewsTyped'
  BY DEF PublicationInv, PublicationTypes, BankTyped, BankMatches, Matches, ReviewsTyped
<1> QED
  BY <1>1, <1>2 DEF PublicationInv, PublicationTypes

LEMMA BeginPublishKeeps ==
  ASSUME PublicationInv, NEW w \in Publishers, NEW c \in Candidates, NEW e \in 0..Len(revisions),
         BeginPublish(w, c, e)
  PROVE  PublicationInv'
<1> DEFINE t == [phase |-> "waiting", cand |-> c, expected |-> e, tries |-> 0, seen |-> Snapshot(c.lesson)]
<1>1. publishing' = [publishing EXCEPT ![w] = t] /\ UNCHANGED <<revisions, reviews, shelf, bank>>
  BY DEF BeginPublish
<1>2. t \in Transactions /\ t.seen.revisions <= Len(revisions) /\ t.seen.reviews <= Len(reviews)
  BY SnapshotTyped, LessonOf DEF Transactions
<1> HIDE DEF t
<1> QED
  BY <1>1, <1>2, PublisherMoves, PublisherKeeps

LEMMA LockLessonKeeps ==
  ASSUME PublicationInv, NEW w \in Publishers, LockLesson(w)
  PROVE  PublicationInv'
<1> DEFINE t == [publishing[w] EXCEPT !.phase = "locked"]
<1>1. publishing' = [publishing EXCEPT ![w] = t] /\ UNCHANGED <<revisions, reviews, shelf, bank>>
  BY DEF LockLesson
<1>2. publishing[w] # Quiet
  BY DEF LockLesson, Quiet
<1>3. /\ publishing[w] \in Transactions
      /\ publishing[w].seen.revisions <= Len(revisions) /\ publishing[w].seen.reviews <= Len(reviews)
  BY <1>2 DEF PublicationInv, PublicationTypes, PublishingTyped
<1>4. t \in Transactions /\ t.seen = publishing[w].seen
  BY <1>3 DEF Transactions
<1> HIDE DEF t
<1> QED
  BY <1>1, <1>3, <1>4, PublisherMoves, PublisherKeeps

LEMMA EndPublishKeeps ==
  ASSUME PublicationInv, NEW w \in Publishers, EndPublish(w)
  PROVE  PublicationInv'
<1>1. publishing' = [publishing EXCEPT ![w] = Quiet] /\ UNCHANGED <<revisions, reviews, shelf, bank>>
  BY DEF EndPublish
<1> QED
  BY <1>1, PublisherMoves, PublisherKeeps

LEMMA RetryPublishKeeps ==
  ASSUME PublicationInv, NEW w \in Publishers, RetryPublish(w)
  PROVE  PublicationInv'
<1> DEFINE old == publishing[w]
           t == [old EXCEPT !.phase = "waiting", !.tries = @ + 1, !.seen = Snapshot(old.cand.lesson)]
<1>1. publishing' = [publishing EXCEPT ![w] = t] /\ UNCHANGED <<revisions, reviews, shelf, bank>>
  BY DEF RetryPublish
<1>2. old # Quiet
  BY DEF RetryPublish, Quiet
<1>3. old \in Transactions /\ old.cand \in Candidates
  BY <1>2 DEF PublicationInv, PublicationTypes, PublishingTyped, Transactions
<1>4. /\ Snapshot(old.cand.lesson) \in [revisions : Nat, reviews : Nat, row : LessonRows]
      /\ Snapshot(old.cand.lesson).revisions <= Len(revisions)
      /\ Snapshot(old.cand.lesson).reviews <= Len(reviews)
  BY <1>3, SnapshotTyped, LessonOf
<1>5. t \in Transactions /\ t.seen = Snapshot(old.cand.lesson)
  <2>1. PICK now : now = Snapshot(old.cand.lesson)
    OBVIOUS
  <2>2. t = [old EXCEPT !.phase = "waiting", !.tries = @ + 1, !.seen = now]
    BY <2>1
  <2> HIDE DEF t, old
  <2>3. now \in [revisions : Nat, reviews : Nat, row : LessonRows] /\ old.tries \in Nat
    BY <1>3, <1>4, <2>1 DEF Transactions
  <2>4. t = [phase |-> "waiting", cand |-> old.cand, expected |-> old.expected,
             tries |-> old.tries + 1, seen |-> now]
    BY <1>3, <2>2 DEF Transactions
  <2>5. old.cand \in Candidates /\ old.expected \in Nat /\ old.tries + 1 \in Nat
    BY <1>3, <2>3 DEF Transactions
  <2>6. t \in Transactions /\ t.seen = now
    BY <2>3, <2>4, <2>5 DEF Transactions
  <2> QED
    BY <2>1, <2>6
<1> HIDE DEF t, old
<1> QED
  BY <1>1, <1>4, <1>5, PublisherMoves, PublisherKeeps

LEMMA WithdrawKeeps ==
  ASSUME PublicationInv, NEW l \in Lessons, Withdraw(l)
  PROVE  PublicationInv'
<1> DEFINE row == [shelf[l] EXCEPT !.available = FALSE]
<1>1. shelf' = [shelf EXCEPT ![l] = row] /\ UNCHANGED <<revisions, reviews, bank, publishing>>
  BY DEF Withdraw
<1>2. shelf \in [Lessons -> LessonRows] /\ shelf[l].available
  BY DEF Withdraw, PublicationInv, PublicationTypes, ShelfTyped
<1>3. /\ row \in LessonRows /\ row.word = shelf[l].word /\ row.record = shelf[l].record
      /\ row.version = shelf[l].version
  BY <1>2 DEF LessonRows
<1>4. shelf[l].word \in Named
  BY <1>2 DEF PublicationInv, ShelfNamed, Absent
<1> HIDE DEF row
<1>5. \A x \in Lessons : /\ shelf'[x].word = shelf[x].word /\ shelf'[x].record = shelf[x].record
                         /\ shelf'[x].version = shelf[x].version
                         /\ x # l => shelf'[x] = shelf[x]
  BY <1>1, <1>2, <1>3
<1>6. ShelfTyped'
  BY <1>1, <1>2, <1>3 DEF ShelfTyped
<1>7. ShelfNamed'
  BY <1>4, <1>5 DEF PublicationInv, ShelfNamed
<1>8. History'
  BY <1>1, <1>5, HistoryStays DEF PublicationInv, PublicationTypes
<1>9. BankMatches'
  BY <1>1, <1>5, PublicationAssumption DEF PublicationInv, BankMatches, Matches
<1>10. RevisionsTyped' /\ ReviewsTyped' /\ BankTyped' /\ PublishingTyped'
  BY <1>1 DEF PublicationInv, PublicationTypes, RevisionsTyped, ReviewsTyped, BankTyped, PublishingTyped
<1> QED
  BY <1>6, <1>7, <1>8, <1>9, <1>10 DEF PublicationInv, PublicationTypes

LEMMA PracticeKeeps ==
  ASSUME PublicationInv, NEW i \in Items, AddPractice(i) \/ RetirePractice(i)
  PROVE  PublicationInv'
<1>1. /\ bank' \in {[bank EXCEPT ![i] = "available"], [bank EXCEPT ![i] = "retired"]}
      /\ bank'[i] = "available" => Matches(i, shelf[i.lesson].record)
      /\ UNCHANGED <<revisions, reviews, shelf, publishing>>
  BY DEF AddPractice, RetirePractice, PublicationInv, PublicationTypes, BankTyped
<1>2. BankTyped' /\ \A x \in Items : x # i => bank'[x] = bank[x]
  BY <1>1 DEF PublicationInv, PublicationTypes, BankTyped
<1>3. BankMatches'
  BY <1>1, <1>2 DEF PublicationInv, BankMatches, Matches
<1>4. RevisionsTyped' /\ ShelfTyped' /\ ShelfNamed' /\ History'
  BY <1>1, ShelfStays
<1>5. ReviewsTyped' /\ PublishingTyped'
  BY <1>1 DEF PublicationInv, PublicationTypes, ReviewsTyped, PublishingTyped
<1> QED
  BY <1>2, <1>3, <1>4, <1>5 DEF PublicationInv, PublicationTypes

(* What a commit writes: the next version of its lesson, from the latest   *)
(* revision and an approval of its candidate.                              *)
CommitWrites(w, c, version, review, meanings) ==
  /\ revisions' = Append(revisions, [cand |-> c, version |-> version, review |-> review,
                                     meanings |-> meanings])
  /\ shelf' = [shelf EXCEPT ![c.lesson] = [word |-> c.word, record |-> Public(meanings),
                                           available |-> TRUE, version |-> version]]
  /\ bank' = Invalidated(c.lesson, Public(meanings))
  /\ publishing' = [publishing EXCEPT ![w] = Quiet] /\ UNCHANGED reviews
  /\ shelf[c.lesson] = Absent \/ shelf[c.lesson].word = c.word
  /\ OfLesson(revisions, c.lesson) = {} => version = 1
  /\ OfLesson(revisions, c.lesson) # {} => shelf[c.lesson] # Absent /\ version = shelf[c.lesson].version + 1
  /\ \A n \in OfLesson(revisions, c.lesson) : revisions[n].version + 1 = version =>
       \A old \in revisions[n].meanings : \A m \in meanings :
         m.id.sources = old.id.sources => m.id = old.id
  /\ \A a, b \in meanings : a.id.sources = b.id.sources => a.id = b.id
  /\ \A n \in DOMAIN revisions : revisions[n].cand # c
  /\ reviews[review] = [cand |-> c, decision |-> "approve"]

LEMMA CommitIs ==
  ASSUME PublicationInv, NEW w \in Publishers, CommitPublish(w)
  PROVE  \E c \in Candidates : \E version \in Nat \ {0} : \E review \in DOMAIN reviews :
           \E meanings \in SUBSET MeaningRows : CommitWrites(w, c, version, review, meanings)
<1> DEFINE t == publishing[w]
           c == t.cand
           l == c.lesson
           seen == SeenRevisions(t)
           revs == OfLesson(revisions, l)
           version == t.expected + 1
           review == LatestVerdict(t)
           meanings == Resolve(c, PreviousMeanings(seen, l), version)
<1>1. t # Quiet /\ ~Published(t) /\ Publishable(t) /\ ~Overtaken(t)
  BY DEF CommitPublish, Quiet
<1>2. t \in Transactions /\ c \in Candidates /\ l \in Lessons /\ t.expected \in Nat
  BY <1>1, LessonOf DEF PublicationInv, PublicationTypes, PublishingTyped, Transactions
<1>3. OfLesson(seen, l) = revs /\ shelf[l] = t.seen.row
  BY <1>1 DEF Overtaken
<1>4. /\ DOMAIN seen = 1..t.seen.revisions
      /\ \A n \in 1..t.seen.revisions : n \in DOMAIN revisions /\ seen[n] = revisions[n]
  BY <1>1, SeenIs DEF PublicationInv, PublicationTypes
<1>5. \A n \in revs : n \in DOMAIN seen /\ n \in DOMAIN revisions /\ seen[n] = revisions[n]
  BY <1>3, <1>4 DEF OfLesson
<1>6. \A n \in DOMAIN revisions : revisions[n].cand # c
  <2> SUFFICES ASSUME NEW n \in DOMAIN revisions, revisions[n].cand = c PROVE FALSE
    OBVIOUS
  <2>1. n \in revs
    BY DEF OfLesson
  <2> QED
    BY <2>1, <1>1, <1>5 DEF Published
<1>7. /\ review \in DOMAIN reviews /\ reviews[review] = [cand |-> c, decision |-> "approve"]
  <2>1. review \in Verdicts(t) /\ reviews[review].decision = "approve"
    BY <1>1, LatestVerdictIs DEF Publishable
  <2>2. t.seen.reviews \in Nat /\ t.seen.reviews <= Len(reviews) /\ reviews \in Seq(ReviewRows)
    BY <1>1 DEF PublicationInv, PublicationTypes, PublishingTyped, ReviewsTyped, Transactions
  <2>3. review \in 1..t.seen.reviews /\ reviews[review].cand = c
    BY <2>1 DEF Verdicts
  <2> HIDE DEF review, t
  <2>4. review \in DOMAIN reviews /\ reviews[review] \in ReviewRows
    BY <2>2, <2>3
  <2> QED
    BY <2>1, <2>3, <2>4 DEF ReviewRows
<1>8. /\ LatestVersion(seen, l) = t.expected /\ SameWord(t)
      /\ shelf[l] # Absent => revs # {}
  BY <1>1, <1>3 DEF Publishable
<1>9. CASE revs = {}
  <2>1. t.expected = 0 /\ shelf[l] = Absent
    BY <1>3, <1>8, <1>9 DEF LatestVersion
  <2>2. PreviousMeanings(seen, l) = {}
    BY <1>3, <1>9 DEF PreviousMeanings
  <2>3. /\ meanings \in SUBSET MeaningRows
        /\ \A a, b \in meanings : a.id.sources = b.id.sources => a.id = b.id
    BY <1>2, <2>2, Resolved
  <2>4. shelf' = [shelf EXCEPT ![l] = [word |-> c.word, record |-> Public(meanings),
                                       available |-> TRUE, version |-> version]]
    BY <2>1 DEF CommitPublish
  <2>5. /\ revisions' = Append(revisions, [cand |-> c, version |-> version, review |-> review,
                                           meanings |-> meanings])
        /\ bank' = Invalidated(l, Public(meanings))
        /\ publishing' = [publishing EXCEPT ![w] = Quiet] /\ UNCHANGED reviews
    BY DEF CommitPublish
  <2>6. version = 1 /\ version \in Nat \ {0}
    BY <2>1
  <2>7. CommitWrites(w, c, version, review, meanings)
    <3> HIDE DEF meanings, review, version, c, t
    <3> QED
      BY <1>6, <1>7, <1>9, <2>1, <2>3, <2>4, <2>5, <2>6 DEF CommitWrites
  <2> QED
    BY <1>2, <1>7, <2>3, <2>6, <2>7
<1>10. CASE revs # {}
  <2> DEFINE p == Latest(seen, l)
  <2>1. /\ p \in revs /\ revisions[p].version = shelf[l].version
        /\ \A m \in revs : revisions[m].version = revisions[p].version => m = p
    BY <1>2, <1>3, <1>5, <1>10, LatestIs
  <2>2. t.expected = shelf[l].version
    BY <2>1, <1>3, <1>5, <1>8, <1>10 DEF LatestVersion
  <2>3. shelf[l] # Absent
    BY <1>2, <1>10, VersionsPositive
  <2>4. shelf[l].word = c.word
    BY <1>3, <1>8, <2>3 DEF SameWord
  <2>5. PreviousMeanings(seen, l) = revisions[p].meanings
    BY <1>3, <1>5, <1>10, <2>1 DEF PreviousMeanings
  <2>6. p \in DOMAIN revisions
    BY <2>1, <1>5
  <2>7. /\ revisions[p].meanings \in SUBSET MeaningRows
        /\ \A a, b \in revisions[p].meanings : a.id.sources = b.id.sources => a.id = b.id
    BY <2>6, RevisionAt DEF PublicationInv, PublicationTypes, History, OneIdentity, KeepsIdentities
  <2>8. version \in Nat \ {0}
    BY <1>2
  <2>9. meanings = Resolve(c, revisions[p].meanings, version)
    BY <2>5
  <2>10. /\ meanings \in SUBSET MeaningRows
         /\ \A a, b \in meanings : a.id.sources = b.id.sources => a.id = b.id
         /\ \A old \in revisions[p].meanings : \A m \in meanings : m.id.sources = old.id.sources => m.id = old.id
    <3> HIDE DEF meanings, version, p
    <3> QED
      BY <1>2, <2>7, <2>8, <2>9, Resolved
  <2>11. shelf' = [shelf EXCEPT ![l] = [word |-> c.word, record |-> Public(meanings),
                                        available |-> TRUE, version |-> version]]
    BY <2>3, <2>4 DEF CommitPublish
  <2>12. /\ revisions' = Append(revisions, [cand |-> c, version |-> version, review |-> review,
                                            meanings |-> meanings])
         /\ bank' = Invalidated(l, Public(meanings))
         /\ publishing' = [publishing EXCEPT ![w] = Quiet] /\ UNCHANGED reviews
    BY DEF CommitPublish
  <2>13. version = shelf[l].version + 1
    BY <2>2
  <2>14. ASSUME NEW n \in revs, revisions[n].version + 1 = version
         PROVE  \A old \in revisions[n].meanings : \A m \in meanings :
                  m.id.sources = old.id.sources => m.id = old.id
    <3>1. revisions[n].version \in Nat /\ shelf[l].version \in Nat
      BY <1>2, <1>5, RevisionAt, VersionsPositive DEF PublicationInv, PublicationTypes
    <3>2. revisions[n].version = revisions[p].version
      BY <2>1, <2>13, <2>14, <3>1
    <3>3. n = p
      BY <2>1, <2>14, <3>2
    <3> QED
      BY <3>3, <2>10
  <2>15. CommitWrites(w, c, version, review, meanings)
    <3> HIDE DEF meanings, review, version, c, t, p
    <3> QED
      BY <1>6, <1>7, <1>10, <2>3, <2>4, <2>10, <2>11, <2>12, <2>13, <2>14 DEF CommitWrites
  <2> QED
    BY <1>2, <1>7, <2>8, <2>10, <2>15
<1> QED
  BY <1>9, <1>10

LEMMA CommitKeeps ==
  ASSUME PublicationInv, NEW w \in Publishers, NEW c \in Candidates, NEW version \in Nat \ {0},
         NEW review \in DOMAIN reviews, NEW meanings \in SUBSET MeaningRows,
         CommitWrites(w, c, version, review, meanings)
  PROVE  PublicationInv'
<1> DEFINE l == c.lesson
           k == Len(revisions) + 1
           new == [cand |-> c, version |-> version, review |-> review, meanings |-> meanings]
           row == [word |-> c.word, record |-> Public(meanings), available |-> TRUE, version |-> version]
<1>1. l \in Lessons /\ reviews \in Seq(ReviewRows) /\ revisions \in Seq(RevisionRows)
  BY LessonOf DEF PublicationInv, PublicationTypes, ReviewsTyped, RevisionsTyped
<1>2. review \in Nat /\ new \in RevisionRows
  BY <1>1 DEF RevisionRows
<1>3. revisions' = Append(revisions, new)
  BY DEF CommitWrites
<1>4. new.cand = c /\ new.version = version /\ new.review = review /\ new.meanings = meanings
  OBVIOUS
<1> HIDE DEF new
<1>5. /\ revisions' \in Seq(RevisionRows) /\ Len(revisions') = k /\ Len(revisions) \in Nat
      /\ DOMAIN revisions' = DOMAIN revisions \union {k} /\ k \notin DOMAIN revisions
      /\ revisions'[k] = new /\ \A n \in DOMAIN revisions : revisions'[n] = revisions[n] /\ n < k /\ n \in Nat
  BY <1>1, <1>2, <1>3
<1>6. shelf' = [shelf EXCEPT ![l] = row]
  BY DEF CommitWrites
<1>7. row.word = c.word /\ row.record = Public(meanings) /\ row.available = TRUE /\ row.version = version
  OBVIOUS
<1>8. row \in LessonRows /\ c.word \in Named
  <2>1. c.word \in Named
    BY DEF Named
  <2>2. Public(meanings) \in Records
    BY DEF Public, Records, MeaningRows
  <2> QED
    BY <2>1, <2>2 DEF LessonRows
<1> HIDE DEF row
<1>9. /\ shelf' \in [Lessons -> LessonRows] /\ shelf'[l] = row
      /\ \A x \in Lessons : x # l => shelf'[x] = shelf[x]
  BY <1>1, <1>6, <1>8 DEF PublicationInv, PublicationTypes, ShelfTyped
<1>10. /\ OfLesson(revisions', l) = OfLesson(revisions, l) \union {k}
       /\ \A x \in Lessons : x # l => OfLesson(revisions', x) = OfLesson(revisions, x)
  BY <1>4, <1>5 DEF OfLesson
<1>11. \A x \in Lessons : \A n \in OfLesson(revisions, x) :
         /\ n \in DOMAIN revisions /\ n \in DOMAIN revisions' /\ revisions'[n] = revisions[n]
         /\ n # k /\ n < k /\ n \in Nat /\ k \in Nat
         /\ revisions[n].cand.lesson = x
         /\ revisions[n].version \in Nat
  BY <1>5, RevisionAt DEF OfLesson, PublicationInv, PublicationTypes
<1>12. \A n \in OfLesson(revisions, l) : revisions[n].version < version
  <2> SUFFICES ASSUME NEW n \in OfLesson(revisions, l) PROVE revisions[n].version < version
    OBVIOUS
  <2>1. version = shelf[l].version + 1
    BY DEF CommitWrites
  <2>2. \E top \in OfLesson(revisions, l) :
          /\ revisions[top].version = shelf[l].version
          /\ revisions[n].version <= revisions[top].version
    BY <1>1 DEF PublicationInv, History, OnShelf
  <2> QED
    BY <1>1, <1>11, <2>1, <2>2
<1>13. \A n \in DOMAIN revisions : revisions[n].cand.lesson \in Lessons /\ n \in OfLesson(revisions, revisions[n].cand.lesson)
  BY RevisionAt DEF OfLesson, PublicationInv, PublicationTypes
<1>14. Worded'
  <2> SUFFICES ASSUME NEW n \in DOMAIN revisions'
               PROVE  revisions'[n].cand.word = shelf'[revisions'[n].cand.lesson].word
    BY DEF Worded
  <2>1. CASE n = k
    BY <2>1, <1>4, <1>5, <1>7, <1>9
  <2>2. CASE n # k
    <3>1. n \in DOMAIN revisions /\ revisions'[n] = revisions[n]
      BY <2>2, <1>5
    <3>2. revisions[n].cand.word = shelf[revisions[n].cand.lesson].word
      BY <3>1 DEF PublicationInv, History, Worded
    <3>3. CASE revisions[n].cand.lesson = l
      <4>1. shelf[l].word = c.word
        BY <3>1, <3>3, <1>13 DEF CommitWrites
      <4> QED
        BY <4>1, <3>1, <3>2, <3>3, <1>7, <1>9
    <3>4. CASE revisions[n].cand.lesson # l
      BY <3>1, <3>2, <3>4, <1>9, <1>13
    <3> QED
      BY <3>3, <3>4
  <2> QED
    BY <2>1, <2>2
<1>15. Gapless'
  <2> SUFFICES ASSUME NEW n \in DOMAIN revisions'
               PROVE  \/ revisions'[n].version = 1
                      \/ \E m \in OfLesson(revisions', revisions'[n].cand.lesson) :
                           revisions'[m].version = revisions'[n].version - 1
    BY DEF Gapless
  <2>1. CASE n = k
    <3>1. revisions'[n].cand.lesson = l /\ revisions'[n].version = version
      BY <2>1, <1>4, <1>5
    <3>2. CASE OfLesson(revisions, l) = {}
      BY <3>1, <3>2 DEF CommitWrites
    <3>3. CASE OfLesson(revisions, l) # {}
      <4>1. PICK top \in OfLesson(revisions, l) : revisions[top].version = shelf[l].version
        BY <1>1, <3>3 DEF PublicationInv, History, OnShelf
      <4>2. version = shelf[l].version + 1
        BY <3>3 DEF CommitWrites
      <4>3. revisions'[top].version = version - 1 /\ top \in OfLesson(revisions', l)
        BY <1>1, <4>1, <4>2, <1>10, <1>11
      <4> QED
        BY <3>1, <4>3
    <3> QED
      BY <3>2, <3>3
  <2>2. CASE n # k
    <3>1. n \in DOMAIN revisions /\ revisions'[n] = revisions[n]
      BY <2>2, <1>5
    <3> DEFINE x == revisions[n].cand.lesson
    <3>2. x \in Lessons /\ OfLesson(revisions, x) \subseteq OfLesson(revisions', x)
      BY <3>1, <1>10, <1>13
    <3>3. \/ revisions[n].version = 1
          \/ \E m \in OfLesson(revisions, x) : revisions[m].version = revisions[n].version - 1
      BY <3>1 DEF PublicationInv, History, Gapless
    <3> QED
      BY <3>1, <3>2, <3>3, <1>11
  <2> QED
    BY <2>1, <2>2
<1>16. ASSUME NEW x \in Lessons, NEW m \in OfLesson(revisions', x), NEW n \in OfLesson(revisions', x), m # k, n # k
       PROVE  /\ m \in OfLesson(revisions, x) /\ n \in OfLesson(revisions, x)
              /\ revisions'[m] = revisions[m] /\ revisions'[n] = revisions[n]
  <2>1. m \in OfLesson(revisions, x) /\ n \in OfLesson(revisions, x)
    BY <1>10, <1>16
  <2> QED
    BY <2>1, <1>11
<1>17. ASSUME NEW x \in Lessons, k \in OfLesson(revisions', x)
       PROVE  x = l
  BY <1>4, <1>5, <1>17 DEF OfLesson
<1>18. Ordered'
  <2> SUFFICES ASSUME NEW x \in Lessons, NEW m \in OfLesson(revisions', x), NEW n \in OfLesson(revisions', x), m < n
               PROVE  revisions'[m].version < revisions'[n].version
    BY DEF Ordered
  <2>1. m # k \/ n # k
    BY <1>5
  <2>2. CASE m # k /\ n # k
    BY <2>2, <1>16 DEF PublicationInv, History, Ordered
  <2>3. CASE n = k /\ m # k
    <3>1. x = l /\ m \in OfLesson(revisions, l)
      BY <2>3, <1>10, <1>17
    <3> QED
      BY <3>1, <2>3, <1>1, <1>4, <1>5, <1>11, <1>12
  <2>4. CASE m = k /\ n # k
    <3>1. x = l /\ n \in OfLesson(revisions, l)
      BY <2>4, <1>10, <1>17
    <3>2. n < k /\ n \in Nat /\ k \in Nat
      BY <3>1, <1>1, <1>11
    <3> QED
      BY <3>2, <2>4
  <2> QED
    BY <2>1, <2>2, <2>3, <2>4
<1>19. Kept'
  <2> SUFFICES ASSUME NEW x \in Lessons, NEW m \in OfLesson(revisions', x), NEW n \in OfLesson(revisions', x),
                      revisions'[n].version = revisions'[m].version + 1
               PROVE  KeepsIdentities(revisions'[m], revisions'[n])
    BY DEF Kept
  <2>1. CASE m # k /\ n # k
    <3>1. /\ m \in OfLesson(revisions, x) /\ n \in OfLesson(revisions, x)
          /\ revisions'[m] = revisions[m] /\ revisions'[n] = revisions[n]
      BY <2>1, <1>16
    <3>2. KeepsIdentities(revisions[m], revisions[n])
      BY <3>1 DEF PublicationInv, History, Kept
    <3> QED
      BY <3>1, <3>2
  <2>2. CASE n = k /\ m # k
    <3>1. x = l /\ m \in OfLesson(revisions, l)
      BY <2>2, <1>10, <1>17
    <3>2. revisions'[m] = revisions[m] /\ revisions'[n] = new
      BY <3>1, <2>2, <1>1, <1>5, <1>11
    <3>3. revisions[m].version + 1 = version
      BY <3>2, <1>4
    <3>4. \A old \in revisions[m].meanings : \A z \in meanings : z.id.sources = old.id.sources => z.id = old.id
      BY <3>1, <3>3 DEF CommitWrites
    <3> QED
      BY <3>2, <3>4, <1>4 DEF KeepsIdentities
  <2>3. CASE m = k /\ n # k
    <3>1. x = l /\ n \in OfLesson(revisions, l)
      BY <2>3, <1>10, <1>17
    <3>2. revisions'[n] = revisions[n] /\ revisions'[m] = new
      BY <3>1, <2>3, <1>1, <1>5, <1>11
    <3>3. revisions[n].version < version /\ revisions[n].version \in Nat
      BY <3>1, <1>1, <1>11, <1>12
    <3> QED
      BY <3>2, <3>3, <1>4
  <2>4. CASE m = k /\ n = k
    <3>1. revisions'[n].version = revisions'[m].version /\ revisions'[n].version \in Nat
      BY <2>4, <1>4, <1>5
    <3> QED
      BY <3>1
  <2> QED
    BY <2>1, <2>2, <2>3, <2>4
<1>20. OneIdentity'
  <2> SUFFICES ASSUME NEW n \in DOMAIN revisions' PROVE KeepsIdentities(revisions'[n], revisions'[n])
    BY DEF OneIdentity
  <2>1. CASE n = k
    BY <2>1, <1>4, <1>5 DEF CommitWrites, KeepsIdentities
  <2>2. CASE n # k
    BY <2>2, <1>5 DEF PublicationInv, History, OneIdentity
  <2> QED
    BY <2>1, <2>2
<1>21. OnShelf'
  <2> SUFFICES ASSUME NEW x \in Lessons, OfLesson(revisions', x) # {}
               PROVE  \E n \in OfLesson(revisions', x) :
                        /\ revisions'[n].version = shelf'[x].version
                        /\ shelf'[x].record = Public(revisions'[n].meanings)
                        /\ \A m \in OfLesson(revisions', x) : revisions'[m].version <= revisions'[n].version
    BY DEF OnShelf
  <2>1. CASE x = l
    <3>1. k \in OfLesson(revisions', l) /\ revisions'[k].version = version /\ revisions'[k].meanings = meanings
      BY <1>4, <1>5, <1>10
    <3>2. \A m \in OfLesson(revisions', l) : revisions'[m].version <= version
      <4> SUFFICES ASSUME NEW m \in OfLesson(revisions', l) PROVE revisions'[m].version <= version
        OBVIOUS
      <4>1. CASE m = k
        BY <4>1, <3>1
      <4>2. CASE m # k
        <5>1. m \in OfLesson(revisions, l) /\ revisions'[m] = revisions[m]
          BY <4>2, <1>1, <1>10, <1>11
        <5> QED
          BY <5>1, <1>1, <1>11, <1>12
      <4> QED
        BY <4>1, <4>2
    <3> QED
      BY <2>1, <3>1, <3>2, <1>7, <1>9
  <2>2. CASE x # l
    <3>1. OfLesson(revisions', x) = OfLesson(revisions, x) /\ shelf'[x] = shelf[x]
      BY <2>2, <1>9, <1>10
    <3>2. PICK n \in OfLesson(revisions, x) :
            /\ revisions[n].version = shelf[x].version /\ shelf[x].record = Public(revisions[n].meanings)
            /\ \A m \in OfLesson(revisions, x) : revisions[m].version <= revisions[n].version
      BY <3>1 DEF PublicationInv, History, OnShelf
    <3>3. \A m \in OfLesson(revisions, x) : revisions'[m] = revisions[m]
      BY <1>11
    <3> QED
      BY <3>1, <3>2, <3>3
  <2> QED
    BY <2>1, <2>2
<1>22. Single'
  <2>1. \A n \in DOMAIN revisions : revisions[n].cand # c
    BY DEF CommitWrites
  <2> QED
    BY <2>1, <1>4, <1>5 DEF PublicationInv, History, Single
<1>23. ReviewApproved'
  <2>1. reviews' = reviews /\ reviews[review] = [cand |-> c, decision |-> "approve"]
    BY DEF CommitWrites
  <2> SUFFICES ASSUME NEW n \in DOMAIN revisions'
               PROVE  /\ revisions'[n].review \in DOMAIN reviews
                      /\ reviews[revisions'[n].review] = [cand |-> revisions'[n].cand, decision |-> "approve"]
    BY <2>1 DEF ReviewApproved
  <2>2. CASE n = k
    BY <2>1, <2>2, <1>4, <1>5
  <2>3. CASE n # k
    BY <2>3, <1>5 DEF PublicationInv, History, ReviewApproved
  <2> QED
    BY <2>2, <2>3
<1>24. History'
  BY <1>14, <1>15, <1>18, <1>19, <1>20, <1>21, <1>22, <1>23 DEF History
<1>25. ShelfNamed'
  BY <1>7, <1>8, <1>9 DEF PublicationInv, ShelfNamed
<1>26. bank' = Invalidated(l, Public(meanings))
  BY DEF CommitWrites
<1>27. BankTyped'
  BY <1>26 DEF PublicationInv, PublicationTypes, BankTyped, Invalidated
<1>28. BankMatches'
  <2> SUFFICES ASSUME NEW i \in Items, bank'[i] = "available"
               PROVE  Matches(i, shelf'[i.lesson].record)
    BY DEF BankMatches, Matches
  <2>1. bank[i] = "available" /\ (i.lesson = l => Matches(i, Public(meanings)))
    BY <1>26 DEF Invalidated
  <2>2. CASE i.lesson = l
    BY <2>1, <2>2, <1>7, <1>9
  <2>3. CASE i.lesson # l
    BY <2>1, <2>3, <1>9, PublicationAssumption DEF PublicationInv, BankMatches
  <2> QED
    BY <2>2, <2>3
<1>29. PublishingTyped'
  <2>1. publishing' = [publishing EXCEPT ![w] = Quiet] /\ reviews' = reviews
    BY DEF CommitWrites
  <2>2. \A x \in Publishers : publishing'[x] # Quiet => x # w /\ publishing'[x] = publishing[x]
    BY <2>1 DEF PublicationInv, PublicationTypes, PublishingTyped
  <2>3. DOMAIN publishing' = Publishers
    BY <2>1 DEF PublicationInv, PublicationTypes, PublishingTyped
  <2>4. Len(revisions) <= Len(revisions') /\ Len(revisions') \in Nat
    BY <1>5
  <2> QED
    BY <2>1, <2>2, <2>3, <2>4, <1>5 DEF PublicationInv, PublicationTypes, PublishingTyped, Transactions
<1>30. RevisionsTyped' /\ ReviewsTyped' /\ ShelfTyped'
  BY <1>1, <1>5, <1>9 DEF RevisionsTyped, ReviewsTyped, ShelfTyped, CommitWrites
<1> QED
  BY <1>24, <1>25, <1>27, <1>28, <1>29, <1>30 DEF PublicationInv, PublicationTypes

LEMMA PublicationKeeps ==
  ASSUME PublicationInv, PublicationNext
  PROVE  PublicationInv'
<1>1. ASSUME NEW c \in Candidates, NEW decision \in {"approve", "reject"}, RecordReview(c, decision)
      PROVE  PublicationInv'
  BY <1>1, RecordReviewKeeps
<1>2. ASSUME NEW w \in Publishers, NEW c \in Candidates, NEW e \in 0..Len(revisions), BeginPublish(w, c, e)
      PROVE  PublicationInv'
  BY <1>2, BeginPublishKeeps
<1>3. ASSUME NEW w \in Publishers, LockLesson(w) PROVE PublicationInv'
  BY <1>3, LockLessonKeeps
<1>4. ASSUME NEW w \in Publishers, EndPublish(w) PROVE PublicationInv'
  BY <1>4, EndPublishKeeps
<1>5. ASSUME NEW w \in Publishers, RetryPublish(w) PROVE PublicationInv'
  BY <1>5, RetryPublishKeeps
<1>6. ASSUME NEW w \in Publishers, CommitPublish(w) PROVE PublicationInv'
  BY <1>6, CommitIs, CommitKeeps
<1>7. ASSUME NEW l \in Lessons, Withdraw(l) PROVE PublicationInv'
  BY <1>7, WithdrawKeeps
<1>8. ASSUME NEW i \in Items, AddPractice(i) \/ RetirePractice(i) PROVE PublicationInv'
  BY <1>8, PracticeKeeps
<1> QED
  BY <1>1, <1>2, <1>3, <1>4, <1>5, <1>6, <1>7, <1>8 DEF PublicationNext

LEMMA PublicationStutters ==
  ASSUME PublicationInv, UNCHANGED publication
  PROVE  PublicationInv'
<1>1. RevisionsTyped' /\ ShelfTyped' /\ ShelfNamed' /\ History'
  BY ShelfStays DEF publication
<1>2. BankTyped' /\ BankMatches' /\ ReviewsTyped' /\ PublishingTyped'
  BY DEF publication, PublicationInv, PublicationTypes, BankTyped, BankMatches, Matches, ReviewsTyped,
         PublishingTyped
<1> QED
  BY <1>1, <1>2 DEF PublicationInv, PublicationTypes

LEMMA NoneIsNoWord == "none" \notin Named
BY PublicationAssumption DEF Named

(* A lesson keeps its word, an item that was published stays so, and a     *)
(* lesson stays available as long as nothing is withdrawn.                 *)
ShelfKeeps == /\ \A l \in Lessons : shelf[l].word \in Named => shelf'[l].word = shelf[l].word
              /\ \A i \in Items : bank[i] # "unborn" => bank'[i] # "unborn"
              /\ withdrawals' \in Nat
              /\ withdrawals' = 0 => /\ withdrawals = 0
                                    /\ \A l \in Lessons : shelf[l].available => shelf'[l].available

LEMMA PublicationLasts ==
  ASSUME PublicationInv, withdrawals \in Nat, PublicationNext
  PROVE  ShelfKeeps
<1>1. ASSUME UNCHANGED <<shelf, bank, withdrawals>> PROVE ShelfKeeps
  BY <1>1 DEF ShelfKeeps
<1>2. ASSUME NEW l \in Lessons, Withdraw(l) PROVE ShelfKeeps
  <2>1. shelf \in [Lessons -> LessonRows] /\ UNCHANGED bank
    BY <1>2 DEF Withdraw, PublicationInv, PublicationTypes, ShelfTyped
  <2>2. shelf' = [shelf EXCEPT ![l] = [shelf[l] EXCEPT !.available = FALSE]]
    BY <1>2 DEF Withdraw
  <2>3. \A x \in Lessons : shelf'[x].word = shelf[x].word
    BY <2>1, <2>2 DEF LessonRows
  <2>4. withdrawals' \in Nat /\ withdrawals' # 0
    BY <1>2 DEF Withdraw
  <2> QED
    BY <2>1, <2>3, <2>4 DEF ShelfKeeps
<1>3. ASSUME NEW i \in Items, AddPractice(i) \/ RetirePractice(i) PROVE ShelfKeeps
  BY <1>3 DEF ShelfKeeps, AddPractice, RetirePractice, PublicationInv, PublicationTypes, BankTyped
<1>4. ASSUME NEW w \in Publishers, CommitPublish(w) PROVE ShelfKeeps
  <2>1. PICK c \in Candidates : \E version \in Nat \ {0} : \E review \in DOMAIN reviews :
           \E meanings \in SUBSET MeaningRows : CommitWrites(w, c, version, review, meanings)
    BY <1>4, CommitIs
  <2>2. PICK version \in Nat \ {0} : \E review \in DOMAIN reviews :
           \E meanings \in SUBSET MeaningRows : CommitWrites(w, c, version, review, meanings)
    BY <2>1
  <2>3. PICK review \in DOMAIN reviews : \E meanings \in SUBSET MeaningRows :
           CommitWrites(w, c, version, review, meanings)
    BY <2>2
  <2>4. PICK meanings \in SUBSET MeaningRows : CommitWrites(w, c, version, review, meanings)
    BY <2>3
  <2>5. /\ bank' = Invalidated(c.lesson, Public(meanings))
        /\ shelf[c.lesson].word \in Named => shelf[c.lesson].word = c.word
    BY <2>4, NoneIsNoWord DEF CommitWrites, Absent
  <2>6. shelf' = [shelf EXCEPT ![c.lesson] = [word |-> c.word, record |-> Public(meanings),
                                              available |-> TRUE, version |-> version]]
    BY <2>4 DEF CommitWrites
  <2>7. c.lesson \in Lessons /\ shelf \in [Lessons -> LessonRows]
    BY LessonOf DEF PublicationInv, PublicationTypes, ShelfTyped
  <2>8. \A l \in Lessons : shelf[l].word \in Named => shelf'[l].word = shelf[l].word
    BY <2>5, <2>6, <2>7
  <2>9. \A i \in Items : bank[i] # "unborn" => bank'[i] # "unborn"
    BY <2>5 DEF Invalidated
  <2>10. \A l \in Lessons : shelf[l].available => shelf'[l].available
    BY <2>6, <2>7
  <2>11. withdrawals' = withdrawals
    BY <1>4 DEF CommitPublish
  <2> QED
    BY <2>8, <2>9, <2>10, <2>11 DEF ShelfKeeps
<1>5. ASSUME NEW w \in Publishers, LockLesson(w) \/ EndPublish(w) \/ RetryPublish(w) PROVE UNCHANGED <<shelf, bank, withdrawals>>
  BY <1>5 DEF LockLesson, EndPublish, RetryPublish
<1>6. ASSUME NEW w \in Publishers, NEW c \in Candidates, NEW e \in 0..Len(revisions), BeginPublish(w, c, e)
      PROVE  UNCHANGED <<shelf, bank, withdrawals>>
  BY <1>6 DEF BeginPublish
<1>7. ASSUME NEW c \in Candidates, NEW decision \in {"approve", "reject"}, RecordReview(c, decision)
      PROVE  UNCHANGED <<shelf, bank, withdrawals>>
  BY <1>7 DEF RecordReview
<1> QED
  BY <1>1, <1>2, <1>3, <1>4, <1>5, <1>6, <1>7 DEF PublicationNext

------------------------------------------------------------------------------
(* Deliveries: what the statements of a transaction make of its rows. *)

(* What a statement other than the delivery makes of the rows: it reserves *)
(* a set of rows under new ids, or none, and loses nothing but by a skip.  *)
AddsTo(r, q, new) ==
  /\ q.deliveries = r.deliveries /\ r.skipped \subseteq q.skipped /\ r.drawn <= q.drawn
  /\ q.reserved \subseteq r.reserved \union new /\ \A y \in new : r.drawn < y.id
  /\ withdrawals = 0 => \A y \in r.reserved : y \in q.reserved \/ y.id \in RowIds(q.skipped)

LEMMA RowsStay ==
  ASSUME NEW r, RowsOK(r), ShelfKeeps
  PROVE  RowsOK(r)'
<1>1. r.deliveries \in SUBSET Deliveries /\ r.reserved \in SUBSET Reservations
  BY DEF RowsOK, ProfileRows
<1>2. \A d \in r.deliveries : d.lesson \in Lessons /\ d.word \in Named /\ d.word = shelf[d.lesson].word
  BY <1>1 DEF RowsOK, Deliveries
<1>3. \A x \in r.reserved : x.lesson \in Lessons /\ x.word \in Named /\ x.word = shelf[x.lesson].word
  BY <1>1 DEF RowsOK, Reservations
<1>4. \A d \in r.deliveries : d.word = shelf'[d.lesson].word
  BY <1>2 DEF ShelfKeeps
<1>5. \A x \in r.reserved : x.word = shelf'[x.lesson].word
  BY <1>3 DEF ShelfKeeps
<1> QED
  BY <1>4, <1>5 DEF RowsOK, UniqueKeys, Words

LEMMA QueueStays ==
  ASSUME NEW r, RowsOK(r), QueueOK(r), ShelfKeeps
  PROVE  QueueOK(r)'
<1>1. \A x \in r.reserved : x.lesson \in Lessons
  BY DEF RowsOK, ProfileRows, Reservations
<1>2. withdrawals' = 0 => \A x \in r.reserved : shelf'[x.lesson].available
  BY <1>1 DEF QueueOK, ShelfKeeps
<1> QED
  BY <1>2 DEF QueueOK

LEMMA QueueFewer ==
  ASSUME NEW r, NEW q, QueueOK(r), q.reserved \subseteq r.reserved, q.drawn = r.drawn
  PROVE  QueueOK(q)
BY DEF QueueOK

LEMMA FollowsOn ==
  ASSUME RowsOK(Rows), QueueOK(Rows), NEW r, RowsOK(r), NEW q, RowsOK(q), Follows(r), NEW new, AddsTo(r, q, new)
  PROVE  Follows(q)
<1>1. /\ drawn \in Nat /\ r.drawn \in Nat /\ q.drawn \in Nat /\ r.reserved \subseteq Reservations
      /\ q.reserved \subseteq Reservations /\ reserved \subseteq Reservations
  BY DEF RowsOK, ProfileRows, Rows
<1>2. /\ \A x \in reserved : x.id \in Nat /\ x.id <= drawn
      /\ \A y \in q.reserved : y.id \in Nat
  BY <1>1 DEF QueueOK, Rows, Reservations
<1>3. \A y \in q.reserved : y \in r.reserved \/ r.drawn < y.id
  BY DEF AddsTo
<1>4. /\ deliveries \subseteq q.deliveries /\ skipped \subseteq q.skipped /\ drawn <= q.drawn
      /\ drawn <= r.drawn
  BY <1>1 DEF Follows, AddsTo
<1>5. \A y \in q.reserved : y \in reserved \/ drawn < y.id
  BY <1>1, <1>2, <1>3, <1>4 DEF Follows
<1>6. \A x \in reserved : x.word \in Words(q.deliveries) => \A y \in q.reserved : x.id < y.id
  <2>1. SUFFICES ASSUME NEW x \in reserved, x.word \in Words(r.deliveries), NEW y \in q.reserved
                 PROVE  x.id < y.id
    BY DEF AddsTo
  <2>2. CASE y \in r.reserved
    BY <2>1, <2>2 DEF Follows
  <2>3. CASE r.drawn < y.id
    BY <1>1, <1>2, <1>4, <2>3
  <2> QED
    BY <1>3, <2>2, <2>3
<1>7. ASSUME withdrawals = 0, NEW row \in kept.upcoming PROVE Held(row, q)
  <2>1. Held(row, r)
    BY <1>7 DEF Follows
  <2>2. RowIds(r.skipped) \subseteq RowIds(q.skipped)
    BY DEF AddsTo, RowIds
  <2>3. CASE row \in r.reserved
    BY <1>7, <2>3 DEF AddsTo, Held
  <2>4. CASE row \notin r.reserved
    BY <2>1, <2>2, <2>4 DEF AddsTo, Held
  <2> QED
    BY <2>3, <2>4
<1> QED
  BY <1>4, <1>5, <1>6, <1>7 DEF Follows

LEMMA ServedStays ==
  ASSUME NEW i, NEW r, NEW q, Served(i, r), r.deliveries \subseteq q.deliveries, ShelfKeeps
  PROVE  Served(i, q)'
BY DEF Served, ShelfKeeps

LEMMA NextLesson ==
  ASSUME PublicationInv, NEW r, NEW taken, FirstLesson(r, taken) # 0
  PROVE  LET l == FirstLesson(r, taken)
         IN  /\ l \in Lessons /\ shelf[l].word \in Named
             /\ shelf[l].word \notin Words(r.deliveries) /\ shelf[l].word \notin Words(r.skipped)
             /\ shelf[l].word \notin taken /\ shelf[l].available
<1> DEFINE l == FirstLesson(r, taken)
           free == {x \in Lessons : Deliverable(x, shelf[x].word, r) /\ shelf[x].word \notin taken}
<1>1. free # {}
  BY DEF FirstLesson
<1>2. l = CHOOSE x \in free : \A other \in free : x <= other
  BY <1>1 DEF FirstLesson
<1>3. free \subseteq Nat
  BY DeliveryAssumption
<1>4. \E x \in free : \A other \in free : x <= other
  <2> HIDE DEF free
  <2> QED
    BY <1>1, <1>3, LeastNumber
<1>5. l \in free
  <2> HIDE DEF free, l
  <2> QED
    BY <1>2, <1>4
<1>6. l \in Lessons /\ Deliverable(l, shelf[l].word, r) /\ shelf[l].word \notin taken
  BY <1>5
<1>7. shelf[l].word \in Named
  BY <1>6 DEF Deliverable, PublicationInv, ShelfNamed, Absent
<1> QED
  BY <1>6, <1>7 DEF Deliverable

LEMMA RowsFewer ==
  ASSUME NEW r, RowsOK(r), NEW R \in SUBSET r.reserved
  PROVE  RowsOK([r EXCEPT !.reserved = R])
<1> DEFINE q == [r EXCEPT !.reserved = R]
<1>1. /\ r \in ProfileRows /\ IsFiniteSet(r.reserved) /\ Cardinality(r.reserved) \in Nat
      /\ Cardinality(r.reserved) <= QueueSize /\ QueueSize \in Nat
  BY DeliveryAssumption, FS_CardinalityType DEF RowsOK
<1>2. IsFiniteSet(R) /\ Cardinality(R) \in Nat /\ Cardinality(R) <= QueueSize
  BY <1>1, FS_Subset, FS_CardinalityType
<1>3. /\ q \in ProfileRows /\ q.reserved = R /\ q.deliveries = r.deliveries /\ q.skipped = r.skipped
  BY <1>1 DEF ProfileRows
<1> HIDE DEF q
<1>4. UniqueKeys(q)
  BY <1>3 DEF RowsOK, UniqueKeys
<1>5. Words(R) \subseteq Words(r.reserved)
  BY DEF Words
<1>6. q \in ProfileRows /\ \A x \in q.reserved : x.word = shelf[x.lesson].word
  BY <1>3 DEF RowsOK
<1> QED
  BY <1>2, <1>3, <1>4, <1>5, <1>6 DEF RowsOK, q

LEMMA RowsDelivered ==
  ASSUME PublicationInv, NEW r, RowsOK(r), NEW l \in Lessons, NEW word \in Named, word = shelf[l].word,
         word \notin Words(r.deliveries), word \notin Words(r.skipped),
         NEW date \in Nat, \A d \in r.deliveries : d.date # date,
         NEW R \in SUBSET r.reserved, \A x \in R : x.word # word
  PROVE  LET q == [r EXCEPT !.deliveries = @ \union {[date |-> date, lesson |-> l, word |-> word]},
                            !.reserved = R]
         IN  RowsOK(q) /\ r.deliveries \subseteq q.deliveries
<1> DEFINE new == [date |-> date, lesson |-> l, word |-> word]
           q == [r EXCEPT !.deliveries = @ \union {new}, !.reserved = R]
           fewer == [r EXCEPT !.reserved = R]
<1>1. r \in ProfileRows /\ RowsOK(fewer)
  BY RowsFewer DEF RowsOK
<1>2. new \in Deliveries /\ new.date = date /\ new.lesson = l /\ new.word = word
  BY DEF Deliveries
<1>3. /\ fewer.deliveries = r.deliveries /\ fewer.reserved = R /\ fewer.skipped = r.skipped
  BY <1>1 DEF ProfileRows
<1>4. q.deliveries = r.deliveries \union {new} /\ q.reserved = R /\ q.skipped = r.skipped
  BY <1>1 DEF ProfileRows
<1>5. q \in ProfileRows
  <2>1. r.deliveries \union {new} \in SUBSET Deliveries /\ R \in SUBSET Reservations
    BY <1>1, <1>2 DEF ProfileRows
  <2> HIDE DEF new
  <2> QED
    BY <1>1, <2>1 DEF ProfileRows
<1> HIDE DEF new, q, fewer
<1>6. UniqueKeys(q)
  <2>1. \A d \in r.deliveries : d.word # word
    BY DEF Words
  <2> QED
    BY <1>1, <1>2, <1>3, <1>4, <2>1 DEF RowsOK, UniqueKeys
<1>7. Words(q.deliveries) = Words(r.deliveries) \union {word}
  BY <1>2, <1>4 DEF Words
<1>8. word \notin Words(R)
  BY DEF Words
<1>9. \A d \in q.deliveries : d.word = shelf[d.lesson].word
  BY <1>1, <1>2, <1>3, <1>4 DEF RowsOK
<1>10. /\ IsFiniteSet(q.reserved) /\ Cardinality(q.reserved) <= QueueSize
       /\ \A x \in q.reserved : x.word = shelf[x.lesson].word
  BY <1>1, <1>3, <1>4 DEF RowsOK
<1>11. (Words(q.deliveries) \union Words(q.reserved)) \intersect Words(q.skipped) = {}
  BY <1>1, <1>3, <1>4, <1>7 DEF RowsOK
<1>12. Words(q.deliveries) \intersect Words(q.reserved) = {}
  BY <1>1, <1>3, <1>4, <1>7, <1>8 DEF RowsOK
<1>13. RowsOK(q)
  BY <1>5, <1>6, <1>9, <1>10, <1>11, <1>12 DEF RowsOK
<1> QED
  BY <1>4, <1>13 DEF q, new

LEMMA DiscardedOK ==
  ASSUME NEW r, RowsOK(r), QueueOK(r)
  PROVE  /\ RowsOK(Discarded(r)) /\ QueueOK(Discarded(r)) /\ AddsTo(r, Discarded(r), {})
         /\ Discarded(r).reserved \subseteq r.reserved
<1> DEFINE R == {row \in r.reserved : Deliverable(row.lesson, row.word, r)}
           q == [r EXCEPT !.reserved = R]
<1>1. Discarded(r) = q
  BY DEF Discarded
<1>2. R \in SUBSET r.reserved /\ r \in ProfileRows
  BY DEF RowsOK
<1>3. withdrawals = 0 => R = r.reserved
  <2>1. \A y \in r.reserved : y.word \notin Words(r.deliveries) /\ y.word \notin Words(r.skipped)
    BY DEF RowsOK, Words
  <2> QED
    BY <2>1 DEF QueueOK, Deliverable
<1> HIDE DEF R
<1>4. /\ q.deliveries = r.deliveries /\ q.reserved = R /\ q.skipped = r.skipped /\ q.drawn = r.drawn
      /\ r.drawn \in Nat
  BY <1>2 DEF ProfileRows
<1>5. RowsOK(q)
  BY <1>2, RowsFewer
<1> HIDE DEF q
<1>6. QueueOK(q)
  BY <1>2, <1>4, QueueFewer
<1>7. AddsTo(r, q, {})
  BY <1>2, <1>3, <1>4 DEF AddsTo
<1> QED
  BY <1>1, <1>2, <1>4, <1>5, <1>6, <1>7

LEMMA NextReservedIs ==
  ASSUME NEW rows, rows \subseteq Reservations, rows # {}
  PROVE  NextReserved(rows) \in rows /\ \A y \in rows : NextReserved(rows).position <= y.position
<1> DEFINE V == {row.position : row \in rows}
<1>1. V \subseteq Nat /\ V # {}
  BY DEF Reservations
<1>2. PICK p \in V : \A n \in V : p <= n
  <2> HIDE DEF V
  <2> QED
    BY <1>1, LeastNumber
<1>3. PICK row \in rows : row.position = p
  OBVIOUS
<1>4. \A other \in rows : row.position <= other.position
  BY <1>2, <1>3
<1> DEFINE first == CHOOSE x \in rows : \A other \in rows : x.position <= other.position
<1>5. first \in rows /\ \A other \in rows : first.position <= other.position
  BY <1>3, <1>4
<1> QED
  BY <1>5 DEF NextReserved

LEMMA DeliveredOK ==
  ASSUME PublicationInv, NEW r, RowsOK(r), NEW date \in Nat
  PROVE  RowsOK(Delivered(r, date)) /\ r.deliveries \subseteq Delivered(r, date).deliveries
<1>1. CASE \E d \in r.deliveries : d.date = date
  BY <1>1 DEF Delivered
<1>2. ASSUME ~ \E d \in r.deliveries : d.date = date, NEW x, Upcoming(r) = {x}
      PROVE  Delivered(r, date) =
               [r EXCEPT !.deliveries = @ \union {[date |-> date, lesson |-> x.lesson, word |-> x.word]},
                         !.reserved = r.reserved \ {x}]
  <2>1. {[date |-> date, lesson |-> row.lesson, word |-> row.word] : row \in Upcoming(r)}
          = {[date |-> date, lesson |-> x.lesson, word |-> x.word]}
    BY <1>2
  <2> QED
    BY <1>2, <2>1 DEF Delivered
<1>3. CASE (~ \E d \in r.deliveries : d.date = date) /\ r.reserved # {}
  <2> DEFINE x == NextReserved(r.reserved)
  <2>1. Upcoming(r) = {x}
    BY <1>3 DEF Upcoming
  <2>2. x \in r.reserved /\ x \in Reservations
    BY <1>3, NextReservedIs DEF RowsOK, ProfileRows
  <2> HIDE DEF x
  <2>3. x.lesson \in Lessons /\ x.word \in Named /\ x.word = shelf[x.lesson].word
    BY <2>2 DEF Reservations, RowsOK
  <2>4. x.word \notin Words(r.deliveries) /\ x.word \notin Words(r.skipped)
    BY <2>2 DEF RowsOK, Words
  <2>5. r.reserved \ {x} \in SUBSET r.reserved /\ \A y \in r.reserved \ {x} : y.word # x.word
    BY <2>2 DEF RowsOK, UniqueKeys
  <2>6. \A d \in r.deliveries : d.date # date
    BY <1>3
  <2> DEFINE q == [r EXCEPT !.deliveries = @ \union {[date |-> date, lesson |-> x.lesson, word |-> x.word]},
                            !.reserved = r.reserved \ {x}]
  <2>7. RowsOK(q) /\ r.deliveries \subseteq q.deliveries
    BY <2>3, <2>4, <2>5, <2>6, RowsDelivered
  <2>8. Delivered(r, date) = q
    BY <1>2, <1>3, <2>1
  <2> HIDE DEF q
  <2> QED
    BY <2>7, <2>8
<1>4. CASE (~ \E d \in r.deliveries : d.date = date) /\ r.reserved = {} /\ FirstLesson(r, {}) # 0
  <2> DEFINE l == FirstLesson(r, {})
             x == Row(0, l, 0)
  <2>1. Upcoming(r) = {x}
    BY <1>4 DEF Upcoming
  <2>2. /\ l \in Lessons /\ shelf[l].word \in Named
        /\ shelf[l].word \notin Words(r.deliveries) /\ shelf[l].word \notin Words(r.skipped)
    BY <1>4, NextLesson
  <2> HIDE DEF l
  <2>3. x.lesson = l /\ x.word = shelf[l].word
    BY DEF Row
  <2> HIDE DEF x
  <2>4. r.reserved \ {x} \in SUBSET r.reserved /\ \A y \in r.reserved \ {x} : y.word # x.word
    BY <1>4
  <2>5. \A d \in r.deliveries : d.date # date
    BY <1>4
  <2> DEFINE q == [r EXCEPT !.deliveries = @ \union {[date |-> date, lesson |-> x.lesson, word |-> x.word]},
                            !.reserved = r.reserved \ {x}]
  <2>6. RowsOK(q) /\ r.deliveries \subseteq q.deliveries
    BY <2>2, <2>3, <2>4, <2>5, RowsDelivered
  <2>7. Delivered(r, date) = q
    BY <1>2, <1>4, <2>1
  <2> HIDE DEF q
  <2> QED
    BY <2>6, <2>7
<1>5. CASE (~ \E d \in r.deliveries : d.date = date) /\ Upcoming(r) = {}
  <2>1. r \in ProfileRows
    BY DEF RowsOK
  <2>2. Delivered(r, date) = [r EXCEPT !.deliveries = r.deliveries, !.reserved = r.reserved]
    BY <1>5 DEF Delivered
  <2>3. Delivered(r, date) = r
    BY <2>1, <2>2 DEF ProfileRows
  <2> QED
    BY <2>3
<1> QED
  BY <1>1, <1>3, <1>4, <1>5 DEF Upcoming

(* The delivery takes the first row of the queue, or a lesson if there is  *)
(* no row.                                                                 *)
DeliversFirst(r, q) == \E x, d :
  /\ q.deliveries = r.deliveries \union {d} /\ d.word = x.word
  /\ q.reserved = r.reserved \ {x} /\ q.skipped = r.skipped /\ q.drawn = r.drawn
  /\ r.reserved # {} => x \in r.reserved /\ \A y \in r.reserved : x.position <= y.position

LEMMA DeliveredIs ==
  ASSUME NEW r, RowsOK(r), NEW date
  PROVE  Delivered(r, date) = r \/ DeliversFirst(r, Delivered(r, date))
<1>1. CASE \E d \in r.deliveries : d.date = date
  BY <1>1 DEF Delivered
<1>2. ASSUME ~ \E d \in r.deliveries : d.date = date, NEW x, Upcoming(r) = {x},
             r.reserved # {} => x \in r.reserved /\ \A y \in r.reserved : x.position <= y.position
      PROVE  DeliversFirst(r, Delivered(r, date))
  <2> DEFINE d == [date |-> date, lesson |-> x.lesson, word |-> x.word]
  <2>1. {[date |-> date, lesson |-> row.lesson, word |-> row.word] : row \in Upcoming(r)} = {d}
    BY <1>2
  <2>2. d.word = x.word
    OBVIOUS
  <2> HIDE DEF d
  <2>3. PICK q : q = Delivered(r, date)
    OBVIOUS
  <2>4. q = [r EXCEPT !.deliveries = r.deliveries \union {d}, !.reserved = r.reserved \ {x}]
    BY <1>2, <2>1, <2>3 DEF Delivered
  <2>5. r \in ProfileRows
    BY DEF RowsOK
  <2>6. /\ q.deliveries = r.deliveries \union {d} /\ q.reserved = r.reserved \ {x}
        /\ q.skipped = r.skipped /\ q.drawn = r.drawn
    BY <2>4, <2>5 DEF ProfileRows
  <2>7. DeliversFirst(r, q)
    BY <1>2, <2>2, <2>6 DEF DeliversFirst
  <2> QED
    BY <2>3, <2>7
<1>3. CASE (~ \E d \in r.deliveries : d.date = date) /\ r.reserved # {}
  <2>1. PICK x : x = NextReserved(r.reserved)
    OBVIOUS
  <2>2. Upcoming(r) = {x}
    BY <1>3, <2>1 DEF Upcoming
  <2>3. x \in r.reserved /\ \A y \in r.reserved : x.position <= y.position
    BY <1>3, <2>1, NextReservedIs DEF RowsOK, ProfileRows
  <2> QED
    BY <1>2, <1>3, <2>2, <2>3
<1>4. CASE (~ \E d \in r.deliveries : d.date = date) /\ r.reserved = {} /\ FirstLesson(r, {}) # 0
  <2>1. PICK x : x = Row(0, FirstLesson(r, {}), 0)
    OBVIOUS
  <2>2. Upcoming(r) = {x}
    BY <1>4, <2>1 DEF Upcoming
  <2> QED
    BY <1>2, <1>4, <2>2
<1>5. CASE (~ \E d \in r.deliveries : d.date = date) /\ Upcoming(r) = {}
  <2>1. r \in ProfileRows
    BY DEF RowsOK
  <2>2. Delivered(r, date) = [r EXCEPT !.deliveries = r.deliveries, !.reserved = r.reserved]
    BY <1>5 DEF Delivered
  <2> QED
    BY <2>1, <2>2 DEF ProfileRows
<1> QED
  BY <1>1, <1>3, <1>4, <1>5 DEF Upcoming

(* So the word that is delivered waited longest of those still there.      *)
LEMMA DeliveredFollows ==
  ASSUME RowsOK(Rows), QueueOK(Rows), NEW r, RowsOK(r), QueueOK(r), Follows(r),
         r.deliveries = deliveries, r.reserved \subseteq reserved, NEW q, DeliversFirst(r, q)
  PROVE  Follows(q) /\ QueueOK(q)
<1>1. PICK x : \E d :
        /\ q.deliveries = r.deliveries \union {d} /\ d.word = x.word
        /\ q.reserved = r.reserved \ {x} /\ q.skipped = r.skipped /\ q.drawn = r.drawn
        /\ r.reserved # {} => x \in r.reserved /\ \A y \in r.reserved : x.position <= y.position
  BY DEF DeliversFirst
<1>2. PICK d :
        /\ q.deliveries = r.deliveries \union {d} /\ d.word = x.word
        /\ q.reserved = r.reserved \ {x} /\ q.skipped = r.skipped /\ q.drawn = r.drawn
        /\ r.reserved # {} => x \in r.reserved /\ \A y \in r.reserved : x.position <= y.position
  BY <1>1
<1>3. QueueOK(q)
  BY <1>2, QueueFewer
<1>4. Words(q.deliveries) = Words(deliveries) \union {x.word}
  BY <1>2 DEF Words
<1>5. /\ \A a, b \in reserved : a.word = b.word => a = b
      /\ \A a \in reserved : a.word \notin Words(deliveries)
      /\ \A a \in r.reserved : a.id \in Nat /\ a.position \in Nat
      /\ \A a, b \in r.reserved : a.id = b.id => a = b
  BY DEF RowsOK, UniqueKeys, Rows, Words, ProfileRows, Reservations
<1>6. ASSUME NEW a \in reserved, a.word \in Words(q.deliveries), NEW y \in q.reserved PROVE a.id < y.id
  <2>1. y \in r.reserved /\ y # x /\ x \in r.reserved /\ x.position <= y.position
    BY <1>2, <1>6
  <2>2. a.word = x.word
    BY <1>4, <1>5, <1>6
  <2>3. a = x
    BY <1>5, <2>1, <2>2
  <2>4. x.id # y.id /\ x.id \in Nat /\ y.id \in Nat /\ x.position \in Nat /\ y.position \in Nat
    BY <1>5, <2>1
  <2>5. ~(y.id < x.id)
    BY <2>1, <2>4 DEF QueueOK
  <2> QED
    BY <2>3, <2>4, <2>5
<1>7. ASSUME withdrawals = 0, NEW row \in kept.upcoming PROVE Held(row, q)
  <2>1. Held(row, r)
    BY <1>7 DEF Follows
  <2>2. CASE row \in r.reserved
    BY <1>2, <1>4, <2>2 DEF Held
  <2>3. CASE row \notin r.reserved
    BY <1>2, <1>4, <2>1, <2>3 DEF Held
  <2> QED
    BY <2>2, <2>3
<1>8. /\ deliveries \subseteq q.deliveries /\ skipped \subseteq q.skipped /\ drawn <= q.drawn
      /\ \A y \in q.reserved : y \in reserved \/ drawn < y.id
  BY <1>2 DEF Follows
<1> QED
  BY <1>3, <1>6, <1>7, <1>8 DEF Follows

LEMMA NextPositionIs ==
  ASSUME NEW rows, rows \subseteq Reservations, IsFiniteSet(rows)
  PROVE  NextPosition(rows) \in Nat /\ \A x \in rows : x.position < NextPosition(rows)
<1> DEFINE V == Positions(rows)
<1>1. V \subseteq Nat /\ \A x \in rows : x.position \in V
  BY DEF Positions, Reservations
<1>2. IsFiniteSet(V)
  <2>1. [x \in rows |-> x.position] \in Surjection(rows, V)
    BY DEF Surjection, Positions
  <2> QED
    BY <2>1, FS_Surjection
<1>3. CASE rows = {}
  BY <1>3 DEF NextPosition
<1>4. CASE rows # {}
  <2>1. V # {}
    BY <1>4 DEF Positions
  <2> DEFINE top == CHOOSE n \in V : \A m \in V : m <= n
  <2>2. NextPosition(rows) = 1 + top
    BY <1>4 DEF NextPosition
  <2>3. \E n \in V : \A m \in V : m <= n
    <3> HIDE DEF V
    <3> QED
      BY <1>1, <1>2, <2>1, GreatestNumber
  <2>4. top \in V /\ \A m \in V : m <= top
    <3> HIDE DEF V
    <3> QED
      BY <2>3
  <2> HIDE DEF V, top
  <2>5. top \in Nat /\ \A x \in rows : x.position \in Nat /\ x.position <= top
    BY <1>1, <2>4
  <2> QED
    BY <2>2, <2>5
<1> QED
  BY <1>3, <1>4

LEMMA FilledOK ==
  ASSUME PublicationInv, NEW r, RowsOK(r), QueueOK(r), Vacant(r)
  PROVE  LET x == Row(r.drawn + 1, FirstLesson(r, Words(r.reserved)), NextPosition(r.reserved))
             q == [r EXCEPT !.drawn = @ + 1, !.reserved = @ \union {x}]
         IN  RowsOK(q) /\ QueueOK(q) /\ AddsTo(r, q, {x})
<1> DEFINE l == FirstLesson(r, Words(r.reserved))
           p == NextPosition(r.reserved)
           x == Row(r.drawn + 1, l, p)
           q == [r EXCEPT !.drawn = @ + 1, !.reserved = @ \union {x}]
<1>1. /\ l \in Lessons /\ shelf[l].word \in Named
      /\ shelf[l].word \notin Words(r.deliveries) /\ shelf[l].word \notin Words(r.skipped)
      /\ shelf[l].word \notin Words(r.reserved) /\ shelf[l].available
  BY NextLesson DEF Vacant
<1>2. /\ r \in ProfileRows /\ r.reserved \subseteq Reservations /\ IsFiniteSet(r.reserved) /\ r.drawn \in Nat
      /\ \A y \in r.reserved : y.id \in Nat /\ y.position \in Nat
  BY DEF RowsOK, ProfileRows, Reservations
<1>3. p \in Nat /\ \A y \in r.reserved : y.position < p
  BY <1>2, NextPositionIs
<1> HIDE DEF l, p
<1>4. x \in Reservations /\ x.lesson = l /\ x.word = shelf[l].word /\ x.position = p /\ x.id = r.drawn + 1
  BY <1>1, <1>2, <1>3 DEF Row, Reservations
<1> HIDE DEF x
<1>5. /\ q \in ProfileRows /\ q.reserved = r.reserved \union {x} /\ q.deliveries = r.deliveries
      /\ q.skipped = r.skipped /\ q.drawn = r.drawn + 1
  <2>1. PICK more : more = r.reserved \union {x}
    OBVIOUS
  <2>2. more \in SUBSET Reservations /\ r.drawn + 1 \in Nat
    BY <1>2, <1>4, <2>1
  <2>3. PICK mid : mid = [r EXCEPT !.drawn = r.drawn + 1]
    OBVIOUS
  <2>4. /\ mid \in ProfileRows /\ mid.reserved = r.reserved /\ mid.deliveries = r.deliveries
        /\ mid.skipped = r.skipped /\ mid.drawn = r.drawn + 1
    BY <1>2, <2>2, <2>3 DEF ProfileRows
  <2>5. q = [mid EXCEPT !.reserved = more]
    BY <1>2, <2>1, <2>3, <2>4 DEF ProfileRows
  <2>6. /\ q \in ProfileRows /\ q.reserved = more /\ q.deliveries = mid.deliveries
        /\ q.skipped = mid.skipped /\ q.drawn = mid.drawn
    BY <2>2, <2>4, <2>5 DEF ProfileRows
  <2> QED
    BY <2>1, <2>4, <2>6
<1> HIDE DEF q
<1>6. \A y \in r.reserved :
        y.id < x.id /\ y.id # x.id /\ y.word # x.word /\ y.lesson # x.lesson /\ y.position < x.position /\ y.position # x.position
  <2>1. \A y \in r.reserved : y.word # x.word /\ y.lesson # x.lesson
    BY <1>1, <1>4 DEF RowsOK, Words
  <2>2. \A y \in r.reserved : y.id <= r.drawn
    BY DEF QueueOK
  <2> QED
    BY <1>2, <1>3, <1>4, <2>1, <2>2
<1>7. IsFiniteSet(q.reserved) /\ Cardinality(q.reserved) <= QueueSize
  <2>1. Cardinality(r.reserved) \in Nat /\ Cardinality(r.reserved) < QueueSize /\ QueueSize \in Nat
    BY <1>2, FS_CardinalityType, DeliveryAssumption DEF Vacant
  <2>2. x \notin r.reserved /\ IsFiniteSet(r.reserved)
    BY <1>2, <1>6
  <2>3. IsFiniteSet(r.reserved \union {x}) /\ Cardinality(r.reserved \union {x}) = Cardinality(r.reserved) + 1
    BY <2>2, FS_AddElement
  <2> QED
    BY <1>5, <2>1, <2>3
<1>8. UniqueKeys(q)
  BY <1>5, <1>6 DEF RowsOK, UniqueKeys
<1>9. Words(q.reserved) = Words(r.reserved) \union {shelf[l].word}
  BY <1>4, <1>5 DEF Words
<1>10. /\ \A d \in q.deliveries : d.word = shelf[d.lesson].word
       /\ \A y \in q.reserved : y.word = shelf[y.lesson].word
  BY <1>4, <1>5 DEF RowsOK
<1>11. (Words(q.deliveries) \union Words(q.reserved)) \intersect Words(q.skipped) = {}
  BY <1>1, <1>5, <1>9 DEF RowsOK
<1>12. Words(q.deliveries) \intersect Words(q.reserved) = {}
  BY <1>1, <1>5, <1>9 DEF RowsOK
<1>13. RowsOK(q)
  BY <1>5, <1>7, <1>8, <1>10, <1>11, <1>12 DEF RowsOK
<1>14. QueueOK(q)
  <2>1. \A y \in q.reserved : y.id <= q.drawn
    BY <1>2, <1>4, <1>5 DEF QueueOK
  <2>2. \A y, z \in q.reserved : y.id < z.id => y.position < z.position
    <3>1. \A y, z \in r.reserved : y.id < z.id => y.position < z.position
      BY DEF QueueOK
    <3>2. \A y \in r.reserved : ~(x.id < y.id) /\ ~(x.id < x.id)
      BY <1>2, <1>4, <1>6
    <3> QED
      BY <1>2, <1>4, <1>5, <1>6, <3>1, <3>2
  <2>3. withdrawals = 0 => \A y \in q.reserved : shelf[y.lesson].available
    BY <1>1, <1>4, <1>5 DEF QueueOK
  <2> QED
    BY <2>1, <2>2, <2>3 DEF QueueOK
<1>15. AddsTo(r, q, {x})
  BY <1>2, <1>4, <1>5 DEF AddsTo
<1> QED
  BY <1>13, <1>14, <1>15 DEF q, x, l, p

LEMMA SkippedOK ==
  ASSUME NEW r, RowsOK(r), QueueOK(r), NEW id \in RowIds(r.reserved)
  PROVE  LET q == [r EXCEPT !.skipped = @ \union NewSkips(r, id),
                            !.reserved = {row \in @ : row.id # id}]
         IN  RowsOK(q) /\ QueueOK(q) /\ AddsTo(r, q, {})
<1> DEFINE R == {row \in r.reserved : row.id # id}
           new == NewSkips(r, id)
           q == [r EXCEPT !.skipped = @ \union new, !.reserved = R]
           fewer == [r EXCEPT !.reserved = R]
<1>1. r \in ProfileRows /\ RowsOK(fewer) /\ r.drawn \in Nat
  BY RowsFewer DEF RowsOK, ProfileRows
<1>2. PICK x \in r.reserved : x.id = id
  BY DEF RowIds
<1>3. id \in Nat /\ x.word \in Named
  BY <1>1, <1>2 DEF ProfileRows, Reservations
<1>4. new \subseteq {[word |-> x.word, id |-> id]}
  <2>1. \A y \in r.reserved : y.id = id => y = x
    BY <1>2 DEF RowsOK, UniqueKeys
  <2> QED
    BY <2>1 DEF NewSkips
<1>5. [word |-> x.word, id |-> id] \in new \/ id \in RowIds(r.skipped)
  <2>1. x.word \notin Words(r.skipped)
    BY <1>2 DEF RowsOK, Words
  <2> QED
    BY <1>2, <2>1 DEF NewSkips
<1> HIDE DEF new
<1>6. /\ fewer.deliveries = r.deliveries /\ fewer.reserved = R /\ fewer.skipped = r.skipped
  BY <1>1 DEF ProfileRows
<1>7. /\ q.deliveries = r.deliveries /\ q.reserved = R /\ q.skipped = r.skipped \union new
      /\ q.drawn = r.drawn
  BY <1>1 DEF ProfileRows
<1>8. q \in ProfileRows
  <2>1. r.skipped \union new \in SUBSET [word : Named, id : Nat] /\ R \in SUBSET Reservations
    BY <1>1, <1>3, <1>4 DEF ProfileRows
  <2> HIDE DEF R
  <2> QED
    BY <1>1, <2>1 DEF ProfileRows
<1>9. x.word \notin Words(R) /\ x.word \notin Words(r.deliveries)
  BY <1>2 DEF RowsOK, UniqueKeys, Words
<1>10. /\ R \subseteq r.reserved
       /\ \A y \in r.reserved : y \in R \/ y.id = id
  OBVIOUS
<1> HIDE DEF q, fewer, R
<1>11. id \in RowIds(q.skipped)
  <2> DEFINE s == [word |-> x.word, id |-> id]
  <2>1. s.id = id /\ (s \in new \/ id \in RowIds(r.skipped))
    BY <1>5
  <2> HIDE DEF s
  <2> QED
    BY <1>7, <2>1 DEF RowIds
<1>12. Words(q.skipped) \subseteq Words(r.skipped) \union {x.word}
  <2> DEFINE s == [word |-> x.word, id |-> id]
  <2>1. s.word = x.word /\ q.skipped \subseteq r.skipped \union {s}
    BY <1>4, <1>7
  <2> HIDE DEF s
  <2> QED
    BY <2>1 DEF Words
<1>13. /\ IsFiniteSet(q.reserved) /\ Cardinality(q.reserved) <= QueueSize /\ UniqueKeys(q)
       /\ \A d \in q.deliveries : d.word = shelf[d.lesson].word
       /\ \A y \in q.reserved : y.word = shelf[y.lesson].word
       /\ Words(q.deliveries) \intersect Words(q.reserved) = {}
  BY <1>1, <1>6, <1>7 DEF RowsOK, UniqueKeys
<1>14. (Words(q.deliveries) \union Words(q.reserved)) \intersect Words(q.skipped) = {}
  BY <1>1, <1>6, <1>7, <1>9, <1>12 DEF RowsOK
<1>15. RowsOK(q)
  BY <1>8, <1>13, <1>14 DEF RowsOK
<1>16. QueueOK(q)
  BY <1>7, <1>10, QueueFewer
<1>17. AddsTo(r, q, {})
  BY <1>1, <1>7, <1>10, <1>11 DEF AddsTo
<1> QED
  BY <1>15, <1>16, <1>17 DEF q, R, new

LEMMA PractisedOK ==
  ASSUME NEW r, RowsOK(r), QueueOK(r), NEW i \in Items
  PROVE  LET q == [r EXCEPT !.practised = @ \union {i}]
         IN  RowsOK(q) /\ QueueOK(q) /\ AddsTo(r, q, {})
<1> DEFINE q == [r EXCEPT !.practised = @ \union {i}]
<1>1. r \in ProfileRows /\ r.drawn \in Nat
  BY DEF RowsOK, ProfileRows
<1>2. /\ q \in ProfileRows /\ q.deliveries = r.deliveries /\ q.reserved = r.reserved
      /\ q.skipped = r.skipped /\ q.drawn = r.drawn
  BY <1>1 DEF ProfileRows
<1> HIDE DEF q
<1>3. RowsOK(q)
  BY <1>2 DEF RowsOK, UniqueKeys
<1>4. QueueOK(q) /\ AddsTo(r, q, {})
  BY <1>1, <1>2, QueueFewer DEF AddsTo
<1> QED
  BY <1>3, <1>4 DEF q
------------------------------------------------------------------------------
(* One lemma per step of a learner's transaction. *)

LEMMA ShelfKept ==
  ASSUME withdrawals \in Nat, UNCHANGED publication
  PROVE  ShelfKeeps
BY DEF publication, ShelfKeeps

(* The profile's rows and the client's copy stay while a request goes on.  *)
LEMMA ProfileStays ==
  ASSUME DeliveryInv, ShelfKeeps, UNCHANGED <<profile, kept>>
  PROVE  RowsOK(Rows)' /\ QueueOK(Rows)' /\ KeptOK'
<1>1. PICK r : r = Rows
  OBVIOUS
<1>2. Rows' = Rows
  BY DEF Rows, profile
<1>3. RowsOK(r)' /\ QueueOK(r)'
  BY <1>1, RowsStay, QueueStays DEF DeliveryInv
<1>4. RowsOK(Rows)'
  BY <1>1, <1>2, <1>3 DEF RowsOK, UniqueKeys, Words
<1>5. QueueOK(Rows)'
  BY <1>1, <1>2, <1>3 DEF QueueOK
<1>6. \A i \in kept.items : Served(i, r)'
  BY <1>1, ServedStays DEF DeliveryInv, KeptOK
<1>7. withdrawals' = 0 => \A row \in kept.upcoming : Held(row, r)
  BY <1>1 DEF DeliveryInv, KeptOK, ShelfKeeps
<1>8. KeptOK'
  BY <1>1, <1>2, <1>6, <1>7 DEF DeliveryInv, KeptOK, Served, Held, RowIds, Words
<1> QED
  BY <1>4, <1>5, <1>8

(* A request goes on, with its rows or others.                             *)
LEMMA RequestStays ==
  ASSUME DeliveryInv, ShelfKeeps, request # Rest, UNCHANGED <<profile, kept>>,
         NEW r, RowsOK(r), QueueOK(r), Follows(r), request.rows.deliveries \subseteq r.deliveries,
         request' \in RequestRows, request'.rows = r, request'.what = request.what,
         Early(request'.phase, r),
         request'.phase = "skip" => request.what.kind = "skip",
         request'.phase = "sync" => request.what.kind = "sync",
         \A x \in request'.lessons : \E d \in r.deliveries : d.lesson = x.lesson
  PROVE  RequestOK'
<1>1. RowsOK(r)' /\ QueueOK(r)'
  BY RowsStay, QueueStays
<1>2. Follows(r)'
  BY DEF Follows, Held, profile, ShelfKeeps
<1>3. RowsOK(request.rows)'
  BY <1>1 DEF RowsOK, UniqueKeys, Words
<1>4. QueueOK(request.rows)'
  BY <1>1 DEF QueueOK
<1>5. Follows(request.rows)'
  BY <1>2 DEF Follows, Held, RowIds, Words
<1>6. Early(request.phase, request.rows)'
  BY DEF Early, profile
<1>7. request.what.kind = "sync" => Served(request.what.item, request.rows)'
  BY DEF DeliveryInv, RequestOK, Served, ShelfKeeps
<1>8. request.what.kind = "skip" => request'.what.row \in kept'.upcoming
  BY DEF DeliveryInv, RequestOK
<1> QED
  BY <1>3, <1>4, <1>5, <1>6, <1>7, <1>8 DEF RequestOK

LEMMA RequestGoesOn ==
  ASSUME DeliveryInv, request # Rest, UNCHANGED <<publication, profile, kept, day>>,
         NEW phase \in Phases, NEW rows, NEW filled \in BOOLEAN,
         request' = [request EXCEPT !.phase = phase, !.rows = rows, !.filled = filled],
         RowsOK(rows), QueueOK(rows), Follows(rows), Early(phase, rows),
         request.rows.deliveries \subseteq rows.deliveries,
         phase = "skip" => request.what.kind = "skip", phase = "sync" => request.what.kind = "sync"
  PROVE  DeliveryInv'
<1>1. ShelfKeeps
  BY ShelfKept DEF DeliveryInv
<1>2. request \in RequestRows /\ rows \in ProfileRows
  BY DEF DeliveryInv, RequestOK, RowsOK
<1>3. /\ request' \in RequestRows /\ request'.rows = rows /\ request'.phase = phase
      /\ request'.what = request.what /\ request'.lessons = request.lessons
  BY <1>2 DEF RequestRows
<1>4. \A x \in request'.lessons : \E d \in rows.deliveries : d.lesson = x.lesson
  BY <1>3 DEF DeliveryInv, RequestOK
<1>5. RequestOK'
  BY <1>1, <1>3, <1>4, RequestStays
<1>6. RowsOK(Rows)' /\ QueueOK(Rows)' /\ KeptOK'
  BY <1>1, ProfileStays
<1>7. OnlyLateSkipsFail'
  BY <1>3 DEF OnlyLateSkipsFail, Phases
<1> QED
  BY <1>5, <1>6, <1>7 DEF DeliveryInv, publication

LEMMA RequestEnds ==
  ASSUME DeliveryInv, request' = Rest, UNCHANGED <<publication, profile, kept, day>>
  PROVE  DeliveryInv'
<1>1. RowsOK(Rows)' /\ QueueOK(Rows)' /\ KeptOK'
  BY ProfileStays, ShelfKept DEF DeliveryInv
<1>2. OnlyLateSkipsFail'
  BY DEF OnlyLateSkipsFail, Rest
<1> QED
  BY <1>1, <1>2 DEF DeliveryInv, RequestOK, publication

LEMMA StepGoesOn ==
  ASSUME DeliveryInv, request # Rest, NEW phase \in Phases, NEW rows, Step(phase, rows),
         RowsOK(rows), QueueOK(rows), Follows(rows), Early(phase, rows),
         request.rows.deliveries \subseteq rows.deliveries,
         phase = "skip" => request.what.kind = "skip", phase = "sync" => request.what.kind = "sync"
  PROVE  DeliveryInv'
<1>1. UniqueKeys(rows)
  BY DEF RowsOK
<1>2. /\ request' = [request EXCEPT !.phase = phase, !.rows = rows]
      /\ UNCHANGED <<publication, profile, kept, day>>
  BY <1>1 DEF Step
<1>3. request \in RequestRows
  BY DEF DeliveryInv, RequestOK
<1>4. /\ request.filled \in BOOLEAN
      /\ request' = [request EXCEPT !.phase = phase, !.rows = rows, !.filled = request.filled]
  BY <1>2, <1>3 DEF RequestRows
<1> QED
  BY <1>2, <1>4, RequestGoesOn

(* What a request in progress works on.                                    *)
LEMMA InProgress ==
  ASSUME DeliveryInv, request # Rest
  PROVE  /\ RowsOK(Rows) /\ QueueOK(Rows)
         /\ request \in RequestRows /\ request.what \in Asked /\ request.date \in Nat
         /\ RowsOK(request.rows) /\ QueueOK(request.rows) /\ Follows(request.rows)
         /\ Early(request.phase, request.rows)
BY DEF DeliveryInv, RequestOK, RequestRows

LEMMA StartRequestKeeps ==
  ASSUME PublicationInv, DeliveryInv, NEW what \in Requests, NEW zone \in Zones, StartRequest(what, zone)
  PROVE  DeliveryInv'
<1> DEFINE new == [phase |-> "discard", what |-> what, date |-> day + zone, rows |-> Rows,
                   filled |-> FALSE, lessons |-> {}]
<1>1. request' = new /\ UNCHANGED <<publication, day, profile, kept>> /\ request = Rest
  BY DEF StartRequest
<1>2. RowsOK(Rows)' /\ QueueOK(Rows)' /\ KeptOK' /\ Rows' = Rows
  BY <1>1, ProfileStays, ShelfKept DEF Rows, profile, DeliveryInv
<1>3. /\ what \in Asked /\ (what.kind = "sync" => Served(what.item, Rows))
      /\ (what.kind = "skip" => what.row \in kept.upcoming)
  <2>1. CASE what \in {[kind |-> "lessons"]}
    BY <2>1 DEF Asked
  <2>2. CASE what \in {[kind |-> "skip", row |-> row] : row \in kept.upcoming}
    <3>1. PICK row \in kept.upcoming : what = [kind |-> "skip", row |-> row]
      BY <2>2
    <3>2. row \in Reservations
      BY DEF DeliveryInv, KeptOK
    <3> QED
      BY <3>1, <3>2 DEF Asked
  <2>3. CASE what \in {[kind |-> "sync", item |-> i] : i \in kept.items}
    <3>1. PICK i \in kept.items : what = [kind |-> "sync", item |-> i]
      BY <2>3
    <3>2. i \in Items /\ Served(i, Rows)
      BY DEF DeliveryInv, KeptOK, Served
    <3> QED
      BY <3>1, <3>2 DEF Asked
  <2> QED
    BY <2>1, <2>2, <2>3 DEF Requests
<1>4. day + zone \in Nat /\ Rows \in ProfileRows
  BY DeliveryAssumption DEF DeliveryInv, RowsOK
<1>5. /\ new \in RequestRows /\ new.rows = Rows /\ new.what = what /\ new.lessons = {} /\ new.phase = "discard"
  BY <1>3, <1>4 DEF RequestRows, Phases
<1> HIDE DEF new
<1>6. Follows(Rows)
  <2>1. \A x \in reserved : x.word \notin Words(deliveries)
    BY DEF DeliveryInv, RowsOK, Rows, Words
  <2>2. drawn \in Nat
    BY <1>4 DEF ProfileRows, Rows
  <2>3. withdrawals = 0 => \A row \in kept.upcoming : Held(row, Rows)
    BY DEF DeliveryInv, KeptOK
  <2> QED
    BY <2>1, <2>2, <2>3 DEF Follows, Rows
<1>7. PICK r : r = Rows
  OBVIOUS
<1>8. Follows(r)'
  BY <1>1, <1>6, <1>7 DEF Follows, Held, profile, publication
<1>9. RowsOK(request.rows)'
  BY <1>1, <1>2, <1>5 DEF RowsOK, UniqueKeys, Words
<1>10. QueueOK(request.rows)'
  BY <1>1, <1>2, <1>5 DEF QueueOK
<1>11. Follows(request.rows)'
  BY <1>1, <1>5, <1>7, <1>8 DEF Follows, Held, RowIds, Words
<1>12. Early(request.phase, request.rows)'
  BY <1>1, <1>5 DEF Early, Rows, profile
<1>13. request'.what.kind = "sync" => Served(request.what.item, request.rows)'
  BY <1>1, <1>3, <1>5 DEF Served, publication
<1>14. RequestOK'
  BY <1>1, <1>3, <1>5, <1>9, <1>10, <1>11, <1>12, <1>13 DEF RequestOK
<1>15. OnlyLateSkipsFail'
  BY <1>1, <1>5 DEF OnlyLateSkipsFail
<1> QED
  BY <1>1, <1>2, <1>14, <1>15 DEF DeliveryInv, publication

LEMMA DiscardKeeps ==
  ASSUME PublicationInv, DeliveryInv, Discard
  PROVE  DeliveryInv'
<1>1. request # Rest /\ request.phase = "discard"
  BY DEF Discard, Rest
<1>2. PICK r : r = request.rows
  OBVIOUS
<1>3. PICK q : q = Discarded(r)
  OBVIOUS
<1>4. RowsOK(r) /\ QueueOK(r) /\ Follows(r) /\ RowsOK(Rows) /\ QueueOK(Rows)
  BY <1>1, <1>2, InProgress
<1>5. RowsOK(q) /\ QueueOK(q) /\ AddsTo(r, q, {}) /\ q.reserved \subseteq r.reserved
  BY <1>3, <1>4, DiscardedOK
<1>6. Follows(q)
  BY <1>4, <1>5, FollowsOn
<1>7. r.deliveries = deliveries /\ r.reserved \subseteq reserved /\ q.deliveries = r.deliveries
  BY <1>1, <1>2, <1>5, InProgress DEF Early, AddsTo
<1>8. Early("deliver", q) /\ "deliver" \in Phases
  BY <1>5, <1>7 DEF Early, Phases
<1>9. Step("deliver", q)
  BY <1>2, <1>3 DEF Discard
<1>10. request.rows.deliveries \subseteq q.deliveries
  BY <1>2, <1>7
<1> QED
  BY <1>1, <1>5, <1>6, <1>8, <1>9, <1>10, StepGoesOn

LEMMA DeliverKeeps ==
  ASSUME PublicationInv, DeliveryInv, Deliver
  PROVE  DeliveryInv'
<1>1. request # Rest /\ request.phase = "deliver" /\ request.date \in Nat
  BY InProgress DEF Deliver, Rest
<1>2. PICK r : r = request.rows
  OBVIOUS
<1>3. PICK q : q = Delivered(r, request.date)
  OBVIOUS
<1>4. RowsOK(r) /\ QueueOK(r) /\ Follows(r) /\ RowsOK(Rows) /\ QueueOK(Rows)
  BY <1>1, <1>2, InProgress
<1>5. RowsOK(q) /\ r.deliveries \subseteq q.deliveries /\ (q = r \/ DeliversFirst(r, q))
  BY <1>1, <1>3, <1>4, DeliveredOK, DeliveredIs
<1>6. r.deliveries = deliveries /\ r.reserved \subseteq reserved
  BY <1>1, <1>2, InProgress DEF Early
<1>7. Follows(q) /\ QueueOK(q)
  BY <1>4, <1>5, <1>6, DeliveredFollows
<1>8. Early("fill", q) /\ "fill" \in Phases
  BY DEF Early, Phases
<1>9. Step("fill", q)
  BY <1>2, <1>3 DEF Deliver
<1>10. request.rows.deliveries \subseteq q.deliveries
  BY <1>2, <1>5
<1> QED
  BY <1>1, <1>5, <1>7, <1>8, <1>9, <1>10, StepGoesOn

LEMMA FillKeeps ==
  ASSUME PublicationInv, DeliveryInv, Fill
  PROVE  DeliveryInv'
<1>1. request # Rest /\ request.what \in Asked
  BY InProgress DEF Fill, Rest
<1>2. PICK r : r = request.rows
  OBVIOUS
<1>3. RowsOK(r) /\ QueueOK(r) /\ Follows(r) /\ RowsOK(Rows) /\ QueueOK(Rows)
  BY <1>1, <1>2, InProgress
<1>4. CASE Vacant(r)
  <2>1. PICK x : x = Row(r.drawn + 1, FirstLesson(r, Words(r.reserved)), NextPosition(r.reserved))
    OBVIOUS
  <2>2. PICK q : q = [r EXCEPT !.drawn = @ + 1, !.reserved = @ \union {x}]
    OBVIOUS
  <2>3. RowsOK(q) /\ QueueOK(q) /\ AddsTo(r, q, {x})
    BY <1>3, <1>4, <2>1, <2>2, FilledOK
  <2>4. Follows(q)
    BY <1>3, <2>3, FollowsOn
  <2>5. Step("fill", q)
    BY <1>2, <1>4, <2>1, <2>2 DEF Fill
  <2>6. Early("fill", q) /\ "fill" \in Phases
    BY DEF Early, Phases
  <2>7. request.rows.deliveries \subseteq q.deliveries
    BY <1>2, <2>3 DEF AddsTo
  <2> QED
    BY <1>1, <2>3, <2>4, <2>5, <2>6, <2>7, StepGoesOn
<1>5. CASE ~Vacant(r)
  <2>1. PICK phase : phase = IF request.filled THEN "lessons" ELSE request.what.kind
    OBVIOUS
  <2>2. Step(phase, r)
    BY <1>2, <1>5, <2>1 DEF Fill
  <2>3. request.what.kind \in {"lessons", "skip", "sync"}
    BY <1>1 DEF Asked
  <2>4. phase \in Phases /\ Early(phase, r)
    BY <2>1, <2>3 DEF Early, Phases
  <2> QED
    BY <1>1, <1>2, <1>3, <2>1, <2>2, <2>4, StepGoesOn
<1> QED
  BY <1>4, <1>5

(* A refused skip is of a word that was delivered, or something has been   *)
(* withdrawn since.                                                        *)
LEMMA RefuseKeeps ==
  ASSUME DeliveryInv, request # Rest, request.what.kind = "skip",
         request.what.row.id \notin RowIds(request.rows.reserved),
         request.what.row.id \notin RowIds(request.rows.skipped), Refuse
  PROVE  DeliveryInv'
<1>1. request' = [request EXCEPT !.phase = "refused"] /\ UNCHANGED <<publication, profile, kept, day>>
  BY DEF Refuse
<1>2. request \in RequestRows
  BY InProgress
<1>3. /\ request' \in RequestRows /\ request'.rows = request.rows /\ request'.phase = "refused"
      /\ request'.what = request.what /\ request'.lessons = request.lessons
  BY <1>1, <1>2 DEF RequestRows
<1>4. PICK r : r = request.rows
  OBVIOUS
<1>5. RowsOK(r) /\ QueueOK(r) /\ Follows(r) /\ Early("refused", r)
  BY <1>4, InProgress DEF Early
<1>6. \A x \in request'.lessons : \E d \in r.deliveries : d.lesson = x.lesson
  BY <1>3, <1>4 DEF DeliveryInv, RequestOK
<1>7. ShelfKeeps
  BY <1>1, ShelfKept DEF DeliveryInv
<1>8. RequestOK'
  BY <1>1, <1>3, <1>4, <1>5, <1>6, <1>7, RequestStays
<1>9. OnlyLateSkipsFail'
  <2>1. PICK row : row = request.what.row
    OBVIOUS
  <2>2. row.id \notin RowIds(skipped)
    BY <1>4, <1>5, <2>1 DEF Follows, RowIds
  <2>3. withdrawals = 0 => row.word \in Words(r.deliveries)
    <3>1. row \in kept.upcoming
      BY <2>1 DEF DeliveryInv, RequestOK
    <3>2. row \notin r.reserved /\ row.id \notin RowIds(r.skipped)
      BY <1>4, <2>1 DEF RowIds
    <3> QED
      BY <1>5, <3>1, <3>2 DEF Follows, Held
  <2> QED
    BY <1>1, <1>3, <1>4, <2>1, <2>2, <2>3 DEF OnlyLateSkipsFail, profile, publication, RowIds, Words
<1>10. RowsOK(Rows)' /\ QueueOK(Rows)' /\ KeptOK'
  BY <1>1, <1>7, ProfileStays
<1> QED
  BY <1>1, <1>8, <1>9, <1>10 DEF DeliveryInv, publication

LEMMA SkipWordKeeps ==
  ASSUME PublicationInv, DeliveryInv, SkipWord
  PROVE  DeliveryInv'
<1>1. request # Rest /\ request.what.kind = "skip"
  BY DEF SkipWord, Rest, DeliveryInv, RequestOK
<1>2. PICK r : r = request.rows
  OBVIOUS
<1>3. PICK id : id = request.what.row.id
  OBVIOUS
<1>4. RowsOK(r) /\ QueueOK(r) /\ Follows(r) /\ RowsOK(Rows) /\ QueueOK(Rows)
  BY <1>1, <1>2, InProgress
<1>5. CASE id \in RowIds(r.reserved)
  <2>1. PICK q : q = [r EXCEPT !.skipped = @ \union NewSkips(r, id),
                               !.reserved = {row \in @ : row.id # id}]
    OBVIOUS
  <2>2. RowsOK(q) /\ QueueOK(q) /\ AddsTo(r, q, {})
    BY <1>4, <1>5, <2>1, SkippedOK
  <2>3. Follows(q)
    BY <1>4, <2>2, FollowsOn
  <2>4. /\ request' = [request EXCEPT !.phase = "fill", !.filled = TRUE, !.rows = q]
        /\ UNCHANGED <<publication, profile, kept, day>>
    BY <1>2, <1>3, <1>5, <2>1 DEF SkipWord
  <2>5. PICK filled \in BOOLEAN : filled = TRUE
    OBVIOUS
  <2>6. request' = [request EXCEPT !.phase = "fill", !.rows = q, !.filled = filled]
    BY <2>4, <2>5
  <2>7. Early("fill", q) /\ "fill" \in Phases /\ request.rows.deliveries \subseteq q.deliveries
    BY <1>2, <2>2 DEF Early, Phases, AddsTo
  <2> QED
    BY <1>1, <2>2, <2>3, <2>4, <2>5, <2>6, <2>7, RequestGoesOn
<1>6. CASE id \notin RowIds(r.reserved) /\ id \in RowIds(r.skipped)
  <2>1. Step("lessons", r)
    BY <1>2, <1>3, <1>6 DEF SkipWord
  <2>2. Early("lessons", r) /\ "lessons" \in Phases
    BY DEF Early, Phases
  <2> QED
    BY <1>1, <1>2, <1>4, <2>1, <2>2, StepGoesOn
<1>7. CASE id \notin RowIds(r.reserved) /\ id \notin RowIds(r.skipped)
  <2>1. Refuse
    BY <1>2, <1>3, <1>7 DEF SkipWord
  <2> QED
    BY <1>1, <1>2, <1>3, <1>7, <2>1, RefuseKeeps
<1> QED
  BY <1>5, <1>6, <1>7

(* A practice answer is for an item that was published for a delivery.     *)
LEMMA AcceptPracticeKeeps ==
  ASSUME PublicationInv, DeliveryInv, AcceptPractice
  PROVE  DeliveryInv'
<1>1. request # Rest
  BY DEF AcceptPractice, Rest
<1>2. PICK r : r = request.rows
  OBVIOUS
<1>3. PICK i : i = request.what.item
  OBVIOUS
<1>4. Served(i, r)
  BY <1>1, <1>2, <1>3 DEF AcceptPractice, DeliveryInv, RequestOK
<1>5. i \in Items /\ Answerable(i, r)
  BY <1>4 DEF Served, Answerable
<1>6. PICK q : q = [r EXCEPT !.practised = @ \union {i}]
  OBVIOUS
<1>7. RowsOK(r) /\ QueueOK(r) /\ Follows(r) /\ RowsOK(Rows) /\ QueueOK(Rows)
  BY <1>1, <1>2, InProgress
<1>8. RowsOK(q) /\ QueueOK(q) /\ AddsTo(r, q, {})
  BY <1>5, <1>6, <1>7, PractisedOK
<1>9. Follows(q)
  BY <1>7, <1>8, FollowsOn
<1>10. Step("lessons", q)
  BY <1>2, <1>3, <1>5, <1>6 DEF AcceptPractice
<1>11. Early("lessons", q) /\ "lessons" \in Phases /\ request.rows.deliveries \subseteq q.deliveries
  BY <1>2, <1>8 DEF Early, Phases, AddsTo
<1> QED
  BY <1>1, <1>8, <1>9, <1>10, <1>11, StepGoesOn

LEMMA ReadLessonsKeeps ==
  ASSUME PublicationInv, DeliveryInv, ReadLessons
  PROVE  DeliveryInv'
<1> DEFINE found == {l \in Lessons : shelf[l].available /\ \E d \in request.rows.deliveries : d.lesson = l}
           lessons == {[lesson |-> l, record |-> shelf[l].record] : l \in found}
<1>1. /\ request' = [request EXCEPT !.phase = "rest", !.lessons = lessons]
      /\ UNCHANGED <<publication, day, profile, kept>>
  BY DEF ReadLessons
<1>2. request # Rest
  BY DEF ReadLessons, Rest
<1>3. request \in RequestRows
  BY <1>2, InProgress
<1>4. \A l \in Lessons : shelf[l].record \in Records
  BY DEF PublicationInv, PublicationTypes, ShelfTyped, LessonRows
<1>5. lessons \in SUBSET ServedLessons
  BY <1>4 DEF ServedLessons
<1>6. \A x \in lessons : \E d \in request.rows.deliveries : d.lesson = x.lesson
  OBVIOUS
<1> HIDE DEF lessons
<1>7. /\ request' \in RequestRows /\ request'.rows = request.rows /\ request'.what = request.what
      /\ request'.lessons = lessons /\ request'.phase = "rest"
  BY <1>1, <1>3, <1>5 DEF RequestRows, Phases
<1>8. PICK r : r = request.rows
  OBVIOUS
<1>9. RowsOK(r) /\ QueueOK(r) /\ Follows(r) /\ Early("rest", r)
  BY <1>2, <1>8, InProgress DEF Early
<1>10. ShelfKeeps
  BY <1>1, ShelfKept DEF DeliveryInv
<1>11. RequestOK'
  BY <1>1, <1>2, <1>6, <1>7, <1>8, <1>9, <1>10, RequestStays
<1>12. RowsOK(Rows)' /\ QueueOK(Rows)' /\ KeptOK'
  BY <1>1, <1>10, ProfileStays
<1>13. OnlyLateSkipsFail'
  BY <1>7 DEF OnlyLateSkipsFail
<1> QED
  BY <1>1, <1>11, <1>12, <1>13 DEF DeliveryInv, publication

LEMMA ReadRestKeeps ==
  ASSUME PublicationInv, DeliveryInv, ReadRest
  PROVE  DeliveryInv'
<1>1. PICK r : r = request.rows
  OBVIOUS
<1>2. PICK items : items = Projected(request.lessons)
  OBVIOUS
<1>3. /\ deliveries' = r.deliveries /\ reserved' = r.reserved /\ skipped' = r.skipped
      /\ practised' = r.practised /\ drawn' = r.drawn
      /\ kept' \in {kept, [items |-> items, upcoming |-> r.reserved]}
      /\ request' = Rest /\ UNCHANGED <<publication, day>>
  BY <1>1, <1>2 DEF ReadRest
<1>4. request # Rest
  BY DEF ReadRest, Rest
<1>5. /\ request \in RequestRows /\ RowsOK(r) /\ QueueOK(r) /\ Follows(r) /\ r \in ProfileRows
      /\ deliveries \subseteq r.deliveries
  BY <1>1, <1>4, InProgress DEF RowsOK, Follows
<1>6. Rows' = r
  BY <1>3, <1>5 DEF Rows, ProfileRows
<1>7. ShelfKeeps /\ withdrawals' = withdrawals
  BY <1>3, ShelfKept DEF DeliveryInv, publication
<1>8. RowsOK(r)' /\ QueueOK(r)'
  BY <1>5, <1>7, RowsStay, QueueStays
<1>9. RowsOK(Rows)'
  BY <1>6, <1>8 DEF RowsOK, UniqueKeys, Words
<1>10. QueueOK(Rows)'
  BY <1>6, <1>8 DEF QueueOK
<1>11. ASSUME kept' = kept PROVE KeptOK'
  <2>1. \A i \in kept.items : Served(i, Rows) /\ Rows.deliveries = deliveries
    BY DEF DeliveryInv, KeptOK, Rows
  <2>2. \A i \in kept.items : Served(i, r)
    BY <2>1, <1>5 DEF Served
  <2>3. \A i \in kept'.items : Served(i, Rows)'
    BY <2>2, <1>3, <1>6, <1>11 DEF Served, publication
  <2>4. withdrawals' = 0 => \A row \in kept'.upcoming : Held(row, r)
    BY <1>5, <1>7, <1>11 DEF Follows
  <2>5. withdrawals' = 0 => \A row \in kept'.upcoming : Held(row, Rows)'
    BY <2>4, <1>6 DEF Held, RowIds, Words
  <2>6. kept' \in [items : SUBSET Items, upcoming : SUBSET Reservations]
    BY <1>11 DEF DeliveryInv, KeptOK
  <2> QED
    BY <2>3, <2>5, <2>6 DEF KeptOK
<1>12. ASSUME kept' = [items |-> items, upcoming |-> r.reserved]
       PROVE  KeptOK'
  <2>1. \A i \in items : i \in Items /\ bank[i] = "available" /\ \E x \in request.lessons : x.lesson = i.lesson
    BY <1>2 DEF Projected
  <2>2. r.reserved \in SUBSET Reservations
    BY <1>5 DEF ProfileRows
  <2>3. kept' \in [items : SUBSET Items, upcoming : SUBSET Reservations]
    BY <1>12, <2>1, <2>2
  <2>4. \A i \in items : \E d \in r.deliveries : d.lesson = i.lesson
    BY <1>1, <1>4, <2>1 DEF DeliveryInv, RequestOK
  <2>5. \A i \in kept'.items : Served(i, Rows)'
    BY <1>3, <1>6, <1>12, <2>1, <2>4 DEF Served, publication
  <2>6. \A row \in kept'.upcoming : Held(row, Rows)'
    BY <1>6, <1>12 DEF Held
  <2> QED
    BY <2>3, <2>5, <2>6 DEF KeptOK
<1>13. KeptOK'
  BY <1>3, <1>11, <1>12
<1>14. OnlyLateSkipsFail'
  BY <1>3 DEF OnlyLateSkipsFail, Rest
<1> QED
  BY <1>3, <1>7, <1>9, <1>10, <1>13, <1>14 DEF DeliveryInv, RequestOK

(* A publication, or a day, goes by while a request is in progress.        *)
LEMMA RequestWaits ==
  ASSUME DeliveryInv, ShelfKeeps, UNCHANGED <<profile, kept, request>>, day' \in Nat
  PROVE  DeliveryInv'
<1>1. RowsOK(Rows)' /\ QueueOK(Rows)' /\ KeptOK'
  BY ProfileStays
<1>2. ASSUME request # Rest
      PROVE  RequestOK'
  <2>1. PICK r : r = request.rows
    OBVIOUS
  <2>2. RowsOK(r) /\ QueueOK(r) /\ Follows(r) /\ request' \in RequestRows
    BY <1>2, <2>1, InProgress
  <2>3. Early(request'.phase, r)
    BY <1>2, <2>1, InProgress DEF Early
  <2>4. /\ request'.phase = "skip" => request.what.kind = "skip"
        /\ request'.phase = "sync" => request.what.kind = "sync"
        /\ \A x \in request'.lessons : \E d \in r.deliveries : d.lesson = x.lesson
    BY <1>2, <2>1 DEF DeliveryInv, RequestOK
  <2> QED
    BY <1>2, <2>1, <2>2, <2>3, <2>4, RequestStays
<1>3. RequestOK'
  BY <1>2 DEF RequestOK
<1>4. OnlyLateSkipsFail'
  BY DEF DeliveryInv, OnlyLateSkipsFail, ShelfKeeps, profile
<1> QED
  BY <1>1, <1>3, <1>4 DEF DeliveryInv, ShelfKeeps
------------------------------------------------------------------------------
(* Every step keeps the invariant. *)

LEMMA InitHolds ==
  ASSUME DeliveryInit
  PROVE  Inv
<1>1. PublicationInv
  BY PublicationStarts DEF DeliveryInit
<1>2. deliveries = {} /\ reserved = {} /\ skipped = {} /\ practised = {} /\ drawn = 0 /\ request = Rest
      /\ kept = Nothing /\ day = 1 /\ withdrawals = 0
  BY DEF DeliveryInit, PublicationInit
<1>3. PICK r : r = Rows
  OBVIOUS
<1>4. r.deliveries = {} /\ r.reserved = {} /\ r.skipped = {} /\ r.practised = {} /\ r \in ProfileRows
  BY <1>2, <1>3 DEF Rows, ProfileRows
<1>5. IsFiniteSet(r.reserved) /\ Cardinality(r.reserved) <= QueueSize
  BY <1>4, FS_EmptySet, DeliveryAssumption
<1>6. RowsOK(Rows)
  BY <1>3, <1>4, <1>5 DEF RowsOK, UniqueKeys, Words
<1>7. QueueOK(Rows)
  BY <1>3, <1>4 DEF QueueOK
<1>8. KeptOK
  BY <1>2 DEF KeptOK, Nothing
<1>9. OnlyLateSkipsFail
  BY <1>2 DEF OnlyLateSkipsFail, Rest
<1> QED
  BY <1>1, <1>2, <1>6, <1>7, <1>8, <1>9 DEF Inv, DeliveryInv, RequestOK

LEMMA DeliveryKeeps ==
  ASSUME PublicationInv, DeliveryInv, DeliveryNext
  PROVE  DeliveryInv' /\ UNCHANGED publication
<1>1. ASSUME NEW what \in Requests, NEW zone \in Zones, StartRequest(what, zone)
      PROVE  DeliveryInv' /\ UNCHANGED publication
  BY <1>1, StartRequestKeeps DEF StartRequest
<1>2. CASE Discard
  BY <1>2, DiscardKeeps DEF Discard, Step
<1>3. CASE Deliver
  BY <1>3, DeliverKeeps DEF Deliver, Step
<1>4. CASE Fill
  BY <1>4, FillKeeps DEF Fill, Step
<1>5. CASE SkipWord
  BY <1>5, SkipWordKeeps DEF SkipWord, Step, Refuse
<1>6. CASE AcceptPractice
  BY <1>6, AcceptPracticeKeeps DEF AcceptPractice, Step, Refuse
<1>7. CASE ReadLessons
  BY <1>7, ReadLessonsKeeps DEF ReadLessons
<1>8. CASE ReadRest
  BY <1>8, ReadRestKeeps DEF ReadRest
<1>9. CASE Rollback
  BY <1>9, RequestEnds DEF Rollback
<1>10. CASE NextDay
  <2>1. UNCHANGED <<publication, profile, kept, request>> /\ day' \in Nat
    BY <1>10 DEF NextDay, DeliveryInv
  <2> QED
    BY <2>1, ShelfKept, RequestWaits DEF DeliveryInv
<1> QED
  BY <1>1, <1>2, <1>3, <1>4, <1>5, <1>6, <1>7, <1>8, <1>9, <1>10 DEF DeliveryNext

LEMMA EveryStepKeeps ==
  ASSUME Inv, [Next]_allVars
  PROVE  Inv'
<1>1. PublicationInv /\ DeliveryInv /\ withdrawals \in Nat /\ day \in Nat
  BY DEF Inv, DeliveryInv
<1>2. CASE PublicationNext /\ UNCHANGED deliveryVars
  <2>1. ShelfKeeps
    BY <1>1, <1>2, PublicationLasts
  <2>2. DeliveryInv'
    BY <1>1, <1>2, <2>1, RequestWaits DEF deliveryVars
  <2> QED
    BY <1>1, <1>2, <2>2, PublicationKeeps DEF Inv
<1>3. CASE DeliveryNext
  BY <1>1, <1>3, DeliveryKeeps, PublicationStutters DEF Inv
<1>4. CASE UNCHANGED allVars
  <2>1. UNCHANGED <<publication, profile, kept, request, day>>
    BY <1>4 DEF allVars, deliveryVars
  <2>2. DeliveryInv'
    BY <1>1, <2>1, ShelfKept, RequestWaits
  <2> QED
    BY <1>1, <2>1, <2>2, PublicationStutters DEF Inv
<1> QED
  BY <1>2, <1>3, <1>4 DEF Next

LEMMA InvHolds == Spec => []Inv
<1>1. DeliveryInit => Inv
  BY InitHolds
<1>2. Inv /\ [Next]_allVars => Inv'
  BY EveryStepKeeps
<1> QED
  BY <1>1, <1>2, PTL DEF Spec

(* However publishers and reviewers overlap, a lesson's revisions are      *)
(* numbered without gaps and keep its word, a candidate has one revision,  *)
(* each rests on an approval, the latest is on the shelf, and a meaning    *)
(* that stays keeps its identity (publish.ts publishCandidate).            *)
THEOREM RevisionsAreInOrder == Spec => []PublishedOnce
<1>1. ASSUME PublicationInv PROVE PublishedOnce
  <2> USE <1>1
  <2>1. ASSUME NEW l \in Lessons, NEW n \in OfLesson(revisions, l)
        PROVE  /\ revisions[n].cand.word = shelf[l].word
               /\ \/ revisions[n].version = 1
                  \/ \E m \in OfLesson(revisions, l) : revisions[m].version = revisions[n].version - 1
    <3>1. n \in DOMAIN revisions /\ revisions[n].cand.lesson = l
      BY <2>1 DEF OfLesson
    <3> QED
      BY <3>1 DEF PublicationInv, History, Worded, Gapless
  <2>2. ASSUME NEW l \in Lessons, NEW m \in OfLesson(revisions, l), NEW n \in OfLesson(revisions, l), m < n
        PROVE  /\ revisions[m].version < revisions[n].version
               /\ revisions[n].version = revisions[m].version + 1 => KeepsIdentities(revisions[m], revisions[n])
    BY <2>2 DEF PublicationInv, History, Ordered, Kept
  <2>3. ASSUME NEW l \in Lessons, OfLesson(revisions, l) # {}
        PROVE  shelf[l].record = Public(revisions[Latest(revisions, l)].meanings)
    BY <2>3, LatestIs
  <2>4. \A m, n \in DOMAIN revisions : revisions[m].cand = revisions[n].cand => m = n
    BY DEF PublicationInv, History, Single
  <2>5. \A n \in DOMAIN revisions : reviews[revisions[n].review] =
          [cand |-> revisions[n].cand, decision |-> "approve"]
    BY DEF PublicationInv, History, ReviewApproved
  <2> QED
    BY <2>1, <2>2, <2>3, <2>4, <2>5 DEF PublishedOnce
<1>2. Inv => PublishedOnce
  BY <1>1 DEF Inv
<1> QED
  BY <1>2, InvHolds, PTL

(* A practice item is available only while the meaning it was written for  *)
(* is on the shelf (the trigger of migration 017).                         *)
THEOREM PracticeMatchesShelf == Spec => []BankMatches
<1>1. Inv => BankMatches
  BY DEF Inv, PublicationInv
<1> QED
  BY <1>1, InvHolds, PTL

(* A word is delivered or reserved once, never after it was skipped, on    *)
(* one date each, and the reserve keeps to its size (database.ts           *)
(* ensureDailyDelivery, fillUpcoming, skipUpcoming).                       *)
THEOREM WordIsLearnersOnce == Spec => []WordsOnce
<1>1. ASSUME Inv PROVE WordsOnce
  <2>1. PICK r : r = Rows
    OBVIOUS
  <2>2. /\ RowsOK(r) /\ r.deliveries = deliveries /\ r.reserved = reserved /\ r.skipped = skipped
    BY <1>1, <2>1 DEF Inv, DeliveryInv, Rows
  <2>3. \A d \in deliveries : d.lesson \in Lessons /\ d.word \in Named /\ d.word = shelf[d.lesson].word
    BY <2>2 DEF RowsOK, ProfileRows, Deliveries
  <2>4. \A x \in reserved : x.lesson \in Lessons /\ x.word \in Named /\ x.word = shelf[x.lesson].word
    BY <2>2 DEF RowsOK, ProfileRows, Reservations
  <2>5. Words(deliveries) \union Words(reserved) \subseteq {shelf[l].word : l \in Lessons} \ {"none"}
    BY <2>3, <2>4, NoneIsNoWord DEF Words
  <2>6. UniqueKeys(Rows)
    BY <2>1, <2>2 DEF RowsOK
  <2> QED
    BY <2>2, <2>5, <2>6 DEF WordsOnce, RowsOK
<1>2. Inv => WordsOnce
  BY <1>1
<1> QED
  BY <1>2, InvHolds, PTL

(* Only skips that come too late are refused: a request that follows what  *)
(* the client was served meets no unique key, its answers are accepted, a  *)
(* repeated skip is answered, and a skip gets a 404 only for a word that   *)
(* was delivered or once something was withdrawn (database.ts              *)
(* skipUpcoming, acceptOperation, fillUpcoming).                           *)
THEOREM OnlyLateSkipsAreRefused == Spec => []OnlyLateSkipsFail
<1>1. Inv => OnlyLateSkipsFail
  BY DEF Inv, DeliveryInv
<1> QED
  BY <1>1, InvHolds, PTL

(* Words are delivered in the order they came up, and what is reserved     *)
(* goes behind everything that waits, through skips, discards and refills  *)
(* (database.ts nextReserved, and fillUpcoming's queue_position).          *)
THEOREM WordsComeInOrder == Spec => UpcomingInOrder
<1> DEFINE InOrder == \A y \in reserved' :
             /\ \A x \in reserved : x.word \in Words(deliveries') => x.id < y.id
             /\ y \notin reserved => \A x \in reserved \intersect reserved' : x.position < y.position
<1>1. ASSUME Inv, [Next]_allVars PROVE InOrder
  <2>1. RowsOK(Rows) /\ QueueOK(Rows)
    BY <1>1 DEF Inv, DeliveryInv
  <2>2. CASE UNCHANGED <<reserved, deliveries>>
    <3>1. \A x \in reserved : x.word \notin Words(deliveries)
      BY <2>1 DEF RowsOK, Rows, Words
    <3> QED
      BY <2>2, <3>1 DEF Words
  <2>3. CASE ReadRest
    <3>1. PICK r : r = request.rows
      OBVIOUS
    <3>2. RowsOK(r) /\ QueueOK(r) /\ Follows(r) /\ deliveries' = r.deliveries /\ reserved' = r.reserved
      BY <1>1, <2>3, <3>1, InProgress DEF Inv, ReadRest, Rest
    <3>3. \A x \in reserved : x.word \in Words(deliveries') => \A y \in reserved' : x.id < y.id
      BY <3>2 DEF Follows
    <3>4. ASSUME NEW y \in reserved', y \notin reserved, NEW x \in reserved \intersect reserved'
          PROVE  x.position < y.position
      <4>1. x.id \in Nat /\ y.id \in Nat /\ drawn \in Nat
        BY <2>1, <3>2, <3>4 DEF RowsOK, ProfileRows, Reservations, Rows
      <4>2. drawn < y.id /\ x.id <= drawn
        BY <2>1, <3>2, <3>4 DEF Follows, QueueOK, Rows
      <4>3. x.id < y.id
        BY <4>1, <4>2
      <4> QED
        BY <3>2, <3>4, <4>3 DEF QueueOK
    <3> QED
      BY <3>3, <3>4
  <2>4. CASE DeliveryNext /\ ~ReadRest
    <3>1. UNCHANGED profile
      BY <2>4 DEF DeliveryNext, StartRequest, Discard, Deliver, Fill, SkipWord, AcceptPractice, Step, Refuse,
                  ReadLessons, Rollback, NextDay
    <3> QED
      BY <2>2, <3>1 DEF profile
  <2>5. CASE (PublicationNext /\ UNCHANGED deliveryVars) \/ UNCHANGED allVars
    BY <2>2, <2>5 DEF allVars, deliveryVars, profile
  <2> QED
    BY <1>1, <2>3, <2>4, <2>5 DEF Next
<1>2. Inv /\ [Next]_allVars => [InOrder]_allVars
  BY <1>1
<1> QED
  BY <1>2, InvHolds, PTL DEF Spec, UpcomingInOrder
==============================================================================
