-------------------------- MODULE EvaluationRunProofs --------------------------
(***************************************************************************)
(* Proofs about AuthoringStore and EvaluationRun, for any finite set of    *)
(* cases, any words, groups, tabs, lives, runners, answers and trials: the *)
(* edits of the store are atomic and its held-out cases unseen, and the    *)
(* summary of an evaluation is the evidence that is saved.                 *)
(***************************************************************************)
EXTENDS EvaluationRun, FiniteSetTheorems, SequenceTheorems, WellFoundedInduction, TLAPS

-----------------------------------------------------------------------------
(* Numbers, finite sets and sums.                                          *)

(* A set of numbers has a least element.                                   *)
LEMMA LeastNumber ==
  ASSUME NEW V, V \subseteq Nat, V # {}
  PROVE  \E i \in V : \A j \in V : i <= j
<1> DEFINE less == OpToRel(<, Nat)
<1>1. \A x, y \in Nat : <<x, y>> \in less <=> x < y
  BY DEF OpToRel
<1>2. IsWellFoundedOn(less, Nat)
  BY NatLessThanWellFounded
<1> HIDE DEF less
<1>3. PICK i \in V : \A j \in V : ~ (<<j, i>> \in less)
  BY <1>2, WFMin
<1>4. \A j \in V : ~(j < i)
  BY <1>1, <1>3
<1> QED
  BY <1>4

(* What holds of 0 and of a number if of the one before, holds up to n.    *)
LEMMA CountingUp ==
  ASSUME NEW n \in Nat, NEW V, 0 \in V, \A i \in 1 .. n : i - 1 \in V => i \in V
  PROVE  0 .. n \subseteq V
<1> DEFINE bad == (0 .. n) \ V
<1>1. ASSUME bad # {} PROVE FALSE
  <2>0. bad \subseteq Nat
    OBVIOUS
  <2>1. PICK i \in bad : \A j \in bad : i <= j
    <3> HIDE DEF bad
    <3> QED
      BY <1>1, <2>0, LeastNumber
  <2>2. i \in 1 .. n /\ i - 1 \in 0 .. n /\ i - 1 \notin bad
    BY <2>1
  <2> QED
    BY <2>1, <2>2
<1> QED
  BY <1>1

(* The images of a finite set are finite.                                  *)
LEMMA ImagesFinite ==
  ASSUME NEW S, IsFiniteSet(S), NEW f, DOMAIN f = S
  PROVE  IsFiniteSet({f[x] : x \in S})
<1> DEFINE T == {f[x] : x \in S}
<1>1. PICK h : h = [x \in S |-> f[x]]
  OBVIOUS
<1>2. h \in Surjection(S, T)
  BY <1>1 DEF Surjection
<1> QED
  BY <1>2, FS_Surjection

-----------------------------------------------------------------------------
(* What connects cases: Connected(links, seed) is the least set that holds *)
(* the seed and every link it meets.                                       *)

Widened(links, reached) == reached \cup UNION {l \in links : l \cap reached # {}}
Growing(g, links, seed, n) ==
  g = [k \in 0 .. n |-> IF k = 0 THEN seed ELSE Widened(links, g[k - 1])]
Closed(links, reached) == \A l \in links : l \cap reached # {} => l \subseteq reached

LEMMA GrowthExists ==
  ASSUME NEW links, NEW seed, NEW n \in Nat
  PROVE  \E g : Growing(g, links, seed, n)
<1> DEFINE V == {k \in Nat : \E g : Growing(g, links, seed, k)}
<1>1. 0 \in V
  <2>1. PICK g : g = [k \in 0 .. 0 |-> seed]
    OBVIOUS
  <2>2. Growing(g, links, seed, 0)
    <3>1. g = [k \in 0 .. 0 |-> IF k = 0 THEN seed ELSE Widened(links, g[k - 1])]
      BY <2>1
    <3> QED
      BY <3>1 DEF Growing
  <2> QED
    BY <2>2
<1>2. ASSUME NEW i \in 1 .. n, i - 1 \in V PROVE i \in V
  <2>1. PICK h : Growing(h, links, seed, i - 1)
    BY <1>2
  <2>2. PICK g : g = [k \in 0 .. i |-> IF k = 0 THEN seed ELSE Widened(links, h[k - 1])]
    OBVIOUS
  <2>3. \A k \in 0 .. i - 1 : g[k] = h[k]
    BY <2>1, <2>2 DEF Growing
  <2>4. g = [k \in 0 .. i |-> IF k = 0 THEN seed ELSE Widened(links, g[k - 1])]
    <3>1. \A k \in 0 .. i : k # 0 => g[k - 1] = h[k - 1]
      BY <2>3
    <3> QED
      BY <2>2, <3>1
  <2> QED
    BY <2>4 DEF Growing
<1> HIDE DEF V
<1>3. 0 .. n \subseteq V
  BY <1>1, <1>2, CountingUp
<1> QED
  BY <1>3 DEF V

LEMMA ConnectedGrows ==
  ASSUME NEW links, IsFiniteSet(links), NEW seed
  PROVE  \E g : /\ Growing(g, links, seed, Cardinality(links))
                /\ Connected(links, seed) = g[Cardinality(links)]
<1> DEFINE n == Cardinality(links)
           h == CHOOSE g : g = [k \in 0 .. n |->
                  IF k = 0 THEN seed
                  ELSE g[k - 1] \cup UNION {l \in links : l \cap g[k - 1] # {}}]
<1>1. n \in Nat
  BY FS_CardinalityType
<1>2. \E g : g = [k \in 0 .. n |->
                  IF k = 0 THEN seed
                  ELSE g[k - 1] \cup UNION {l \in links : l \cap g[k - 1] # {}}]
  <2>1. PICK g : Growing(g, links, seed, n)
    BY <1>1, GrowthExists
  <2>2. g = [k \in 0 .. n |->
               IF k = 0 THEN seed
               ELSE g[k - 1] \cup UNION {l \in links : l \cap g[k - 1] # {}}]
    BY <2>1 DEF Growing, Widened
  <2> QED
    BY <2>2
<1>3. h = [k \in 0 .. n |->
                  IF k = 0 THEN seed
                  ELSE h[k - 1] \cup UNION {l \in links : l \cap h[k - 1] # {}}]
  BY <1>2
<1>4. Connected(links, seed) = h[n]
  BY DEF Connected
<1> HIDE DEF h
<1> QED
  BY <1>3, <1>4 DEF Growing, Widened

LEMMA SeedIsConnected ==
  ASSUME NEW links, IsFiniteSet(links), NEW seed
  PROVE  seed \subseteq Connected(links, seed)
<1>1. PICK g : /\ Growing(g, links, seed, Cardinality(links))
               /\ Connected(links, seed) = g[Cardinality(links)]
  BY ConnectedGrows
<1>2. Cardinality(links) \in Nat
  BY FS_CardinalityType
<1> DEFINE n == Cardinality(links)
           V == {k \in Nat : k <= n => seed \subseteq g[k]}
<1>3. 0 \in V
  BY <1>1, <1>2 DEF Growing
<1>4. \A i \in 1 .. n : i - 1 \in V => i \in V
  <2> TAKE i \in 1 .. n
  <2> HAVE i - 1 \in V
  <2>1. seed \subseteq g[i - 1]
    BY <1>2
  <2>2. g[i] = Widened(links, g[i - 1])
    BY <1>1, <1>2 DEF Growing
  <2>3. g[i - 1] \subseteq Widened(links, g[i - 1])
    BY DEF Widened
  <2> QED
    BY <1>2, <2>1, <2>2, <2>3
<1> HIDE DEF V
<1>5. 0 .. n \subseteq V
  BY <1>2, <1>3, <1>4, CountingUp
<1> QED
  BY <1>1, <1>2, <1>5 DEF V

LEMMA ConnectedIsLeast ==
  ASSUME NEW links, IsFiniteSet(links), NEW seed, NEW X, seed \subseteq X, Closed(links, X)
  PROVE  Connected(links, seed) \subseteq X
<1>1. PICK g : /\ Growing(g, links, seed, Cardinality(links))
               /\ Connected(links, seed) = g[Cardinality(links)]
  BY ConnectedGrows
<1>2. Cardinality(links) \in Nat
  BY FS_CardinalityType
<1> DEFINE n == Cardinality(links)
           V == {k \in Nat : k <= n => g[k] \subseteq X}
<1>3. 0 \in V
  BY <1>1, <1>2 DEF Growing
<1>4. \A i \in 1 .. n : i - 1 \in V => i \in V
  <2> TAKE i \in 1 .. n
  <2> HAVE i - 1 \in V
  <2>1. g[i - 1] \subseteq X
    BY <1>2
  <2>2. g[i] = Widened(links, g[i - 1])
    BY <1>1, <1>2 DEF Growing
  <2>3. Widened(links, g[i - 1]) \subseteq X
    BY <2>1 DEF Widened, Closed
  <2> QED
    BY <1>2, <2>2, <2>3
<1> HIDE DEF V
<1>5. 0 .. n \subseteq V
  BY <1>2, <1>3, <1>4, CountingUp
<1> QED
  BY <1>1, <1>2, <1>5 DEF V

(* As long as the growing set is not closed, each step absorbs another     *)
(* link, and there are only so many.                                       *)
LEMMA ConnectedIsClosed ==
  ASSUME NEW links, IsFiniteSet(links), NEW seed
  PROVE  Closed(links, Connected(links, seed))
<1>1. PICK g : /\ Growing(g, links, seed, Cardinality(links))
               /\ Connected(links, seed) = g[Cardinality(links)]
  BY ConnectedGrows
<1>2. Cardinality(links) \in Nat
  BY FS_CardinalityType
<1> DEFINE n == Cardinality(links)
           Absorbed(k) == {l \in links : l \subseteq g[k]}
           V == {k \in Nat : k <= n => Closed(links, g[k]) \/ k <= Cardinality(Absorbed(k))}
<1>3. \A k : IsFiniteSet(Absorbed(k)) /\ Cardinality(Absorbed(k)) \in Nat
  BY FS_Subset, FS_CardinalityType
<1>4. 0 \in V
  BY <1>3
<1>5. ASSUME NEW i \in 1 .. n, i - 1 \in V PROVE i \in V
  <2>1. g[i] = Widened(links, g[i - 1])
    BY <1>1, <1>2 DEF Growing
  <2>2. CASE Closed(links, g[i - 1])
    <3>1. g[i] = g[i - 1]
      BY <2>1, <2>2 DEF Widened, Closed
    <3> QED
      BY <1>2, <2>2, <3>1
  <2>3. CASE ~Closed(links, g[i - 1])
    <3>1. PICK l \in links : l \cap g[i - 1] # {} /\ ~(l \subseteq g[i - 1])
      BY <2>3 DEF Closed
    <3>2. Absorbed(i - 1) \cup {l} \subseteq Absorbed(i)
      BY <2>1, <3>1 DEF Widened
    <3>3. Cardinality(Absorbed(i - 1) \cup {l}) = Cardinality(Absorbed(i - 1)) + 1
      <4>1. l \notin Absorbed(i - 1) /\ IsFiniteSet(Absorbed(i - 1))
        BY <1>3, <3>1
      <4> HIDE DEF Absorbed
      <4> QED
        BY <4>1, FS_AddElement
    <3>4. Cardinality(Absorbed(i - 1) \cup {l}) <= Cardinality(Absorbed(i))
      <4>1. IsFiniteSet(Absorbed(i))
        BY <1>3
      <4> HIDE DEF Absorbed
      <4> QED
        BY <3>2, <4>1, FS_Subset
    <3>5. i - 1 <= Cardinality(Absorbed(i - 1))
      BY <1>2, <1>5, <2>3
    <3>6. Cardinality(Absorbed(i - 1)) \in Nat /\ Cardinality(Absorbed(i)) \in Nat
      BY <1>3
    <3> HIDE DEF Absorbed
    <3> QED
      BY <1>2, <3>3, <3>4, <3>5, <3>6
  <2> QED
    BY <2>2, <2>3
<1> HIDE DEF V
<1>6. 0 .. n \subseteq V
  BY <1>2, <1>4, <1>5, CountingUp
<1>7. Closed(links, g[n]) \/ n <= Cardinality(Absorbed(n))
  BY <1>2, <1>6 DEF V
<1>8. ASSUME n <= Cardinality(Absorbed(n)) PROVE Closed(links, g[n])
  <2>1. Absorbed(n) \in SUBSET links
    OBVIOUS
  <2>2. Cardinality(Absorbed(n)) \in Nat
    BY <1>3
  <2> HIDE DEF Absorbed
  <2>3. Absorbed(n) = links
    BY <1>2, <1>8, <2>1, <2>2, FS_Subset
  <2> QED
    BY <2>3 DEF Absorbed, Closed
<1> QED
  BY <1>1, <1>7, <1>8

-----------------------------------------------------------------------------
(* What the sum of a function with a finite domain is, and bounds.          *)

(* The element at which a sum takes a set apart, and its partial sums.     *)
AnElement(s) == CHOOSE x \in s : TRUE
Summing(g, f, D) ==
  g = [s \in SUBSET D |-> IF s = {} THEN 0 ELSE f[AnElement(s)] + g[s \ {AnElement(s)}]]

(* The partial sums of the subsets of up to n elements.                    *)
Small(D, n) == {s \in SUBSET D : Cardinality(s) <= n}
SummingTo(g, f, D, n) ==
  g = [s \in Small(D, n) |-> IF s = {} THEN 0 ELSE f[AnElement(s)] + g[s \ {AnElement(s)}]]

LEMMA RestIsSmaller ==
  ASSUME NEW D, IsFiniteSet(D), NEW s \in SUBSET D, s # {}
  PROVE  /\ AnElement(s) \in s /\ s \ {AnElement(s)} \in SUBSET D
         /\ Cardinality(s) \in Nat /\ Cardinality(s \ {AnElement(s)}) = Cardinality(s) - 1
         /\ Cardinality(s) - 1 \in Nat
<1>1. AnElement(s) \in s
  BY DEF AnElement
<1>2. IsFiniteSet(s) /\ Cardinality(s) \in Nat
  BY FS_Subset, FS_CardinalityType
<1>3. Cardinality(s \ {AnElement(s)}) = Cardinality(s) - 1
  BY <1>1, <1>2, FS_RemoveElement
<1>4. IsFiniteSet(s \ {AnElement(s)})
  BY <1>2, FS_Subset
<1>5. Cardinality(s \ {AnElement(s)}) \in Nat
  BY <1>4, FS_CardinalityType
<1> QED
  BY <1>1, <1>2, <1>3, <1>5

LEMMA SumsExist ==
  ASSUME NEW D, IsFiniteSet(D), NEW f
  PROVE  \E g : Summing(g, f, D)
<1> DEFINE bad == {n \in Nat : ~ \E g : SummingTo(g, f, D, n)}
<1>1. ASSUME bad # {} PROVE FALSE
  <2>1. PICK n \in bad : \A m \in bad : n <= m
    BY <1>1, LeastNumber
  <2>2. n # 0
    <3> DEFINE g == [s \in Small(D, 0) |-> 0]
    <3>1. \A s \in Small(D, 0) : s = {}
      <4> TAKE s \in Small(D, 0)
      <4>1. s \in SUBSET D /\ Cardinality(s) <= 0
        BY DEF Small
      <4>2. ASSUME s # {} PROVE FALSE
        <5>1. Cardinality(s) \in Nat /\ Cardinality(s) - 1 \in Nat
          BY <4>1, <4>2, RestIsSmaller
        <5> QED
          BY <4>1, <5>1
      <4> QED
        BY <4>2
    <3>2. SummingTo(g, f, D, 0)
      BY <3>1 DEF SummingTo
    <3> QED
      BY <3>2
  <2>3. PICK h : SummingTo(h, f, D, n - 1)
    <3>1. n - 1 \in Nat /\ n - 1 \notin bad
      BY <2>1, <2>2
    <3> QED
      BY <3>1
  <2> DEFINE g == [s \in Small(D, n) |-> IF s = {} THEN 0 ELSE f[AnElement(s)] + h[s \ {AnElement(s)}]]
  <2>4. ASSUME NEW s \in Small(D, n), s # {} PROVE s \ {AnElement(s)} \in Small(D, n - 1)
    <3>1. s \in SUBSET D /\ Cardinality(s) <= n
      BY DEF Small
    <3>2. /\ s \ {AnElement(s)} \in SUBSET D /\ Cardinality(s) \in Nat
          /\ Cardinality(s \ {AnElement(s)}) = Cardinality(s) - 1
      BY <2>4, <3>1, RestIsSmaller
    <3> QED
      BY <3>1, <3>2 DEF Small
  <2>5. ASSUME NEW s \in Small(D, n - 1) PROVE s \in Small(D, n) /\ g[s] = h[s]
    <3>1. s \in SUBSET D /\ Cardinality(s) <= n - 1
      BY DEF Small
    <3>2. IsFiniteSet(s) /\ Cardinality(s) \in Nat
      BY <3>1, FS_Subset, FS_CardinalityType
    <3>3. s \in Small(D, n)
      BY <3>1, <3>2 DEF Small
    <3> QED
      BY <2>3, <3>3 DEF SummingTo
  <2>6. SummingTo(g, f, D, n)
    <3>1. ASSUME NEW s \in Small(D, n)
          PROVE  g[s] = IF s = {} THEN 0 ELSE f[AnElement(s)] + g[s \ {AnElement(s)}]
      <4>1. CASE s = {}
        BY <4>1
      <4>2. CASE s # {}
        <5>1. g[s \ {AnElement(s)}] = h[s \ {AnElement(s)}]
          BY <2>4, <2>5, <4>2
        <5>2. g[s] = f[AnElement(s)] + h[s \ {AnElement(s)}]
          BY <4>2
        <5> HIDE DEF g
        <5> QED
          BY <4>2, <5>1, <5>2
      <4> QED
        BY <4>1, <4>2
    <3>2. g = [s \in Small(D, n) |-> g[s]]
      OBVIOUS
    <3> HIDE DEF g
    <3> QED
      BY <3>1, <3>2 DEF SummingTo
  <2> QED
    BY <2>1, <2>6
<1>2. Cardinality(D) \in Nat
  BY FS_CardinalityType
<1>3. PICK g : SummingTo(g, f, D, Cardinality(D))
  BY <1>1, <1>2
<1>4. Small(D, Cardinality(D)) = SUBSET D
  BY FS_Subset DEF Small
<1> QED
  BY <1>3, <1>4 DEF SummingTo, Summing

(* The sum of a function, taken apart.                                     *)
LEMMA SumIsPartialSum ==
  ASSUME NEW f, IsFiniteSet(DOMAIN f)
  PROVE  \E g : Summing(g, f, DOMAIN f) /\ SumOf(f) = g[DOMAIN f]
<1> DEFINE h == CHOOSE g : g = [s \in SUBSET (DOMAIN f) |->
                  IF s = {} THEN 0 ELSE f[CHOOSE x \in s : TRUE] + g[s \ {CHOOSE x \in s : TRUE}]]
<1>1. \E g : g = [s \in SUBSET (DOMAIN f) |->
                  IF s = {} THEN 0 ELSE f[CHOOSE x \in s : TRUE] + g[s \ {CHOOSE x \in s : TRUE}]]
  <2>1. PICK g : Summing(g, f, DOMAIN f)
    BY SumsExist
  <2>2. g = [s \in SUBSET (DOMAIN f) |->
                  IF s = {} THEN 0 ELSE f[CHOOSE x \in s : TRUE] + g[s \ {CHOOSE x \in s : TRUE}]]
    BY <2>1 DEF Summing, AnElement
  <2> QED
    BY <2>2
<1>2. h = [s \in SUBSET (DOMAIN f) |->
                  IF s = {} THEN 0 ELSE f[CHOOSE x \in s : TRUE] + h[s \ {CHOOSE x \in s : TRUE}]]
  BY <1>1
<1>3. SumOf(f) = h[DOMAIN f]
  BY DEF SumOf, FoldFunction, FoldFunctionOnSet, MapThenFoldSet
<1> HIDE DEF h
<1> QED
  BY <1>2, <1>3 DEF Summing, AnElement

(* What holds of the empty set, and of a set if of the rest of it, holds   *)
(* of every subset.                                                        *)
LEMMA SubsetsHave ==
  ASSUME NEW D, IsFiniteSet(D), NEW P, {} \in P,
         \A s \in SUBSET D : s # {} /\ s \ {AnElement(s)} \in P => s \in P
  PROVE  SUBSET D \subseteq P
<1> DEFINE bad == {Cardinality(s) : s \in (SUBSET D) \ P}
<1>1. ASSUME bad # {} PROVE FALSE
  <2>1. bad \subseteq Nat
    BY FS_Subset, FS_CardinalityType
  <2>2. PICK n \in bad : \A m \in bad : n <= m
    BY <1>1, <2>1, LeastNumber
  <2>3. PICK s \in (SUBSET D) \ P : n = Cardinality(s)
    OBVIOUS
  <2>4. s # {}
    BY <2>3
  <2>5. /\ s \ {AnElement(s)} \in SUBSET D /\ Cardinality(s) \in Nat
        /\ Cardinality(s \ {AnElement(s)}) = Cardinality(s) - 1
    BY <2>3, <2>4, RestIsSmaller
  <2>6. s \ {AnElement(s)} \in P
    <3>1. Cardinality(s \ {AnElement(s)}) \notin bad
      BY <2>2, <2>3, <2>5
    <3> QED
      BY <2>5, <3>1
  <2> QED
    BY <2>3, <2>4, <2>6
<1> QED
  BY <1>1

LEMMA EmptySum ==
  ASSUME NEW D, NEW f, NEW g, Summing(g, f, D)
  PROVE  g[{}] = 0
<1>1. {} \in SUBSET D
  OBVIOUS
<1> QED
  BY <1>1 DEF Summing

LEMMA PartialSum ==
  ASSUME NEW D, IsFiniteSet(D), NEW f, NEW g, Summing(g, f, D), NEW s \in SUBSET D
  PROVE  s # {} => AnElement(s) \in s /\ g[s] = f[AnElement(s)] + g[s \ {AnElement(s)}]
  BY RestIsSmaller DEF Summing

(* A sum of numbers is one, and no summand exceeds it.                     *)
LEMMA SumBounds ==
  ASSUME NEW D, IsFiniteSet(D), NEW f \in [D -> Nat]
  PROVE  SumOf(f) \in Nat /\ \A x \in D : f[x] <= SumOf(f)
<1>1. PICK g : Summing(g, f, D) /\ SumOf(f) = g[D]
  BY SumIsPartialSum
<1> DEFINE P == {s \in SUBSET D : g[s] \in Nat /\ \A x \in s : f[x] <= g[s]}
<1>2. {} \in P
  BY <1>1, EmptySum
<1>3. ASSUME NEW s \in SUBSET D, s # {}, s \ {AnElement(s)} \in P PROVE s \in P
  <2>1. AnElement(s) \in s /\ g[s] = f[AnElement(s)] + g[s \ {AnElement(s)}]
    <3>1. s # {}
      BY <1>3
    <3> HIDE DEF P
    <3> QED
      BY <1>1, <3>1, PartialSum
  <2>2. f[AnElement(s)] \in Nat /\ g[s \ {AnElement(s)}] \in Nat
    BY <1>3, <2>1
  <2>3. ASSUME NEW x \in s PROVE f[x] <= g[s]
    <3>1. CASE x = AnElement(s)
      BY <2>1, <2>2, <3>1
    <3>2. CASE x # AnElement(s)
      <4>1. f[x] \in Nat /\ f[x] <= g[s \ {AnElement(s)}]
        BY <1>3, <3>2
      <4> QED
        BY <2>1, <2>2, <4>1
    <3> QED
      BY <3>1, <3>2
  <2> QED
    BY <2>1, <2>2, <2>3
<1> HIDE DEF P
<1>4. D \in P
  BY <1>2, <1>3, SubsetsHave
<1> QED
  BY <1>1, <1>4 DEF P

-----------------------------------------------------------------------------
(* Workspaces. *)

RowTables == UNION {[D -> Rows] : D \in SUBSET Cases}
Workspaces == [revision : 0 .. MaxRevision, rows : RowTables, history : SUBSET History]
Remembered(w) == UNION {ItemKeys(h) : h \in w.history}

(* A workspace in a store: its history is finite. *)
Good(w) == w \in Workspaces /\ IsFiniteSet(w.history)

LEMMA TableTypes ==
  ASSUME NEW rows \in RowTables
  PROVE  /\ DOMAIN rows \subseteq Cases /\ IsFiniteSet(DOMAIN rows)
         /\ \A c \in DOMAIN rows : rows[c] \in Rows
<1>1. PICK D \in SUBSET Cases : rows \in [D -> Rows]
  BY DEF RowTables
<1>2. IsFiniteSet(D)
  BY AuthoringAssumption, FS_Subset
<1> QED
  BY <1>1, <1>2

LEMMA IsTable ==
  ASSUME NEW rows, NEW D \in SUBSET Cases, rows \in [D -> Rows]
  PROVE  rows \in RowTables
BY DEF RowTables

LEMMA NoWorkspaceGood == Good(NoWorkspace) /\ DOMAIN NoWorkspace.rows = {}
<1>1. DOMAIN <<>> = {} /\ <<>> \in [{} -> Rows]
  OBVIOUS
<1>2. <<>> \in RowTables
  BY <1>1, IsTable
<1>3. NoWorkspace \in Workspaces
  BY <1>2, AuthoringAssumption DEF NoWorkspace, Workspaces
<1> QED
  BY <1>1, <1>3, FS_EmptySet DEF Good, NoWorkspace

LEMMA LinksFinite ==
  ASSUME NEW w, Good(w)
  PROVE  IsFiniteSet(Links(w))
<1>1. w.rows \in RowTables /\ IsFiniteSet(w.history)
  BY DEF Good, Workspaces
<1>2. IsFiniteSet(DOMAIN w.rows)
  BY <1>1, TableTypes
<1>3. IsFiniteSet({RowKeys(w, c) : c \in DOMAIN w.rows})
  <2>1. PICK f : f = [c \in DOMAIN w.rows |-> RowKeys(w, c)]
    OBVIOUS
  <2>2. IsFiniteSet({f[c] : c \in DOMAIN w.rows})
    BY <1>2, <2>1, ImagesFinite
  <2>3. {f[c] : c \in DOMAIN w.rows} = {RowKeys(w, c) : c \in DOMAIN w.rows}
    BY <2>1
  <2> QED
    BY <2>2, <2>3
<1>4. IsFiniteSet({ItemKeys(h) : h \in w.history})
  <2>1. PICK f : f = [h \in w.history |-> ItemKeys(h)]
    OBVIOUS
  <2>2. IsFiniteSet({f[h] : h \in w.history})
    BY <1>1, <2>1, ImagesFinite
  <2>3. {f[h] : h \in w.history} = {ItemKeys(h) : h \in w.history}
    BY <2>1
  <2> QED
    BY <2>2, <2>3
<1> QED
  BY <1>3, <1>4, FS_Union DEF Links

(* What a workspace remembers or flags as inspected is inspected, with     *)
(* whatever is linked to it.                                               *)
LEMMA InspectedHolds ==
  ASSUME NEW w, Good(w)
  PROVE  /\ Flagged(w) \subseteq Inspected(w)
         /\ Remembered(w) \subseteq Inspected(w)
         /\ Closed(Links(w), Inspected(w))
<1>1. PICK seed : seed = Flagged(w) \cup Remembered(w)
  OBVIOUS
<1>2. IsFiniteSet(Links(w))
  BY LinksFinite
<1>3. Inspected(w) = Connected(Links(w), seed)
  BY <1>1 DEF Inspected, Remembered
<1>4. seed \subseteq Connected(Links(w), seed)
  BY <1>2, SeedIsConnected
<1>5. Closed(Links(w), Connected(Links(w), seed))
  BY <1>2, ConnectedIsClosed
<1> QED
  BY <1>1, <1>3, <1>4, <1>5

LEMMA RememberEffect ==
  ASSUME NEW w, Good(w)
  PROVE  LET r == rememberInspection(w)
         IN  /\ Good(r) /\ r.revision = w.revision /\ r.rows = w.rows
             /\ r.history = w.history \cup {Triple(w, c) : c \in inspectionRestricted(w)}
<1> DEFINE r == rememberInspection(w)
           new == {Triple(w, c) : c \in inspectionRestricted(w)}
<1>1. w \in Workspaces /\ w.rows \in RowTables /\ w.history \in SUBSET History
      /\ w.revision \in 0 .. MaxRevision
  BY DEF Good, Workspaces
<1>2. r.revision = w.revision /\ r.rows = w.rows /\ r.history = w.history \cup new
      /\ r = [revision |-> w.revision, rows |-> w.rows, history |-> w.history \cup new]
  BY <1>1 DEF rememberInspection, Workspaces
<1>3. inspectionRestricted(w) \subseteq DOMAIN w.rows
  BY DEF inspectionRestricted
<1>4. new \subseteq History
  BY <1>1, <1>3, TableTypes DEF Triple, History, Rows
<1>5. IsFiniteSet(new)
  <2>1. IsFiniteSet(inspectionRestricted(w))
    BY <1>1, <1>3, TableTypes, FS_Subset
  <2>2. PICK f : f = [c \in inspectionRestricted(w) |-> Triple(w, c)]
    OBVIOUS
  <2>3. IsFiniteSet({f[c] : c \in inspectionRestricted(w)})
    BY <2>1, <2>2, ImagesFinite
  <2>4. {f[c] : c \in inspectionRestricted(w)} = new
    BY <2>2
  <2> QED
    BY <2>3, <2>4
<1>6. IsFiniteSet(w.history \cup new)
  <2> HIDE DEF new
  <2> QED
    BY <1>5, FS_Union DEF Good
<1>7. r \in Workspaces
  <2> HIDE DEF r, new
  <2> QED
    BY <1>1, <1>2, <1>4 DEF Workspaces
<1> HIDE DEF r
<1>8. Good(r)
  BY <1>2, <1>6, <1>7 DEF Good
<1> QED
  BY <1>2, <1>8 DEF r

(* Whatever is inspected is remembered as such: the history of the next    *)
(* workspace holds every key that this one connects to an inspection.      *)
LEMMA InspectionIsRemembered ==
  ASSUME NEW w, Good(w)
  PROVE  Inspected(w) \subseteq Remembered(rememberInspection(w))
<1>1. PICK X : X = Remembered(rememberInspection(w))
  OBVIOUS
<1>2. rememberInspection(w).history = w.history \cup {Triple(w, c) : c \in inspectionRestricted(w)}
  BY RememberEffect
<1>3. \A c : ItemKeys(Triple(w, c)) = RowKeys(w, c)
  BY DEF ItemKeys, Triple, RowKeys
<1>4. X = Remembered(w) \cup UNION {RowKeys(w, c) : c \in inspectionRestricted(w)}
  BY <1>1, <1>2, <1>3 DEF Remembered
<1>5. ASSUME NEW c \in inspectionRestricted(w) PROVE RowKeys(w, c) \subseteq Inspected(w)
  <2>1. c \in DOMAIN w.rows /\ RowKeys(w, c) \cap Inspected(w) # {}
    BY DEF inspectionRestricted
  <2> QED
    BY <2>1, InspectedHolds DEF Closed, Links
<1>6. X \subseteq Inspected(w)
  BY <1>4, <1>5, InspectedHolds
<1>7. Flagged(w) \subseteq X
  <2>1. ASSUME NEW c \in DOMAIN w.rows, w.rows[c].inspected PROVE c \in inspectionRestricted(w)
    <3>1. <<"case", c>> \in RowKeys(w, c)
      BY DEF RowKeys, Keys
    <3>2. <<"case", c>> \in Flagged(w)
      BY <2>1, <3>1 DEF Flagged
    <3> QED
      BY <3>1, <3>2, InspectedHolds DEF inspectionRestricted
  <2> QED
    BY <1>4, <2>1 DEF Flagged
<1>8. Closed(Links(w), X)
  <2>1. ASSUME NEW c \in DOMAIN w.rows, RowKeys(w, c) \cap X # {} PROVE RowKeys(w, c) \subseteq X
    <3>1. c \in inspectionRestricted(w)
      BY <1>6, <2>1 DEF inspectionRestricted
    <3> QED
      BY <1>4, <3>1
  <2>2. ASSUME NEW h \in w.history PROVE ItemKeys(h) \subseteq X
    BY <1>4 DEF Remembered
  <2> QED
    BY <2>1, <2>2 DEF Closed, Links
<1>9. PICK seed : seed = Flagged(w) \cup Remembered(w)
  OBVIOUS
<1>10. Inspected(w) = Connected(Links(w), seed)
  BY <1>9 DEF Inspected, Remembered
<1>11. seed \subseteq X
  BY <1>4, <1>7, <1>9
<1>12. Connected(Links(w), seed) \subseteq X
  BY <1>8, <1>11, LinksFinite, ConnectedIsLeast
<1> QED
  BY <1>1, <1>10, <1>12

LEMMA RevisedEffect ==
  ASSUME NEW w, Good(w), w.revision < MaxRevision
  PROVE  /\ Good(Revised(w)) /\ Revised(w).revision = w.revision + 1
         /\ Revised(w).rows = w.rows /\ w.history \subseteq Revised(w).history
         /\ Inspected(w) \subseteq Inspected(Revised(w))
<1>1. PICK r : r = rememberInspection(w)
  OBVIOUS
<1>2. /\ Good(r) /\ r.revision = w.revision /\ r.rows = w.rows
      /\ w.history \subseteq r.history
  BY <1>1, RememberEffect
<1>3. PICK next : next = Revised(w)
  OBVIOUS
<1>4. r \in Workspaces /\ w.revision \in 0 .. MaxRevision
  BY <1>2 DEF Good, Workspaces
<1>5. next = [r EXCEPT !.revision = @ + 1]
  BY <1>1, <1>3 DEF Revised
<1>6. next = [revision |-> w.revision + 1, rows |-> w.rows, history |-> r.history]
  BY <1>2, <1>4, <1>5 DEF Workspaces
<1>7. next \in Workspaces
  BY <1>2, <1>4, <1>6, AuthoringAssumption DEF Workspaces
<1>8. Good(next)
  BY <1>2, <1>6, <1>7 DEF Good
<1>9. Inspected(w) \subseteq Remembered(r)
  BY <1>1, InspectionIsRemembered
<1>10. Remembered(r) = Remembered(next)
  BY <1>6 DEF Remembered
<1>11. Remembered(next) \subseteq Inspected(next)
  BY <1>8, InspectedHolds
<1> QED
  BY <1>2, <1>3, <1>6, <1>8, <1>9, <1>10, <1>11

(* What a command makes of a workspace is its next revision and knows of   *)
(* every key that was inspected.                                           *)
Succeeds(w, next) == /\ Good(next)
                     /\ next.revision = w.revision + 1
                     /\ Inspected(w) \subseteq Inspected(next)

LEMMA SavedSucceeds ==
  ASSUME NEW w, Good(w), w.revision < MaxRevision, NEW next \in Saved(w)
  PROVE  Succeeds(w, next)
<1>1. PICK before : before = rememberInspection(w)
  OBVIOUS
<1>2. Good(before) /\ before.revision = w.revision /\ before.rows = w.rows
  BY <1>1, RememberEffect
<1>3. PICK c \in Cases, row \in Rows :
        next = Revised([before EXCEPT !.rows = [d \in DOMAIN @ \cup {c} |-> IF d = c THEN row ELSE @[d]]])
  <2> DEFINE formRows == {r \in Rows : /\ ~r.firm => r.split = "none"
                                       /\ r.inspected => r.split # "held-out"}
             result(c, row) == Revised([rememberInspection(w) EXCEPT !.rows =
                                 [d \in DOMAIN @ \cup {c} |-> IF d = c THEN row ELSE @[d]]])
  <2>1. Saved(w) = {result(c, row) : c \in Cases, row \in formRows}
    BY DEF Saved
  <2> HIDE DEF result
  <2>2. PICK c \in Cases, row \in formRows : next = result(c, row)
    BY <2>1
  <2> QED
    BY <1>1, <2>2 DEF result
<1>4. PICK table : table = [d \in DOMAIN before.rows \cup {c} |-> IF d = c THEN row ELSE before.rows[d]]
  OBVIOUS
<1>5. PICK x : x = [revision |-> before.revision, rows |-> table, history |-> before.history]
  OBVIOUS
<1>6. before \in Workspaces /\ before.rows \in RowTables
  BY <1>2 DEF Good, Workspaces
<1>7. next = Revised(x)
  <2>1. x = [before EXCEPT !.rows = [d \in DOMAIN @ \cup {c} |-> IF d = c THEN row ELSE @[d]]]
    BY <1>4, <1>5, <1>6 DEF Workspaces
  <2> QED
    BY <1>3, <2>1
<1>8. table \in [DOMAIN before.rows \cup {c} -> Rows]
  BY <1>4, <1>6, TableTypes
<1>9. table \in RowTables
  BY <1>6, <1>8, TableTypes, IsTable
<1>10. Good(x) /\ x.revision = w.revision /\ Remembered(x) = Remembered(before)
  BY <1>2, <1>5, <1>6, <1>9 DEF Good, Workspaces, Remembered
<1>11. Good(next) /\ next.revision = w.revision + 1 /\ Inspected(x) \subseteq Inspected(next)
  BY <1>7, <1>10, RevisedEffect
<1>12. Inspected(w) \subseteq Remembered(x)
  BY <1>1, <1>10, InspectionIsRemembered
<1>13. Remembered(x) \subseteq Inspected(x)
  BY <1>10, InspectedHolds
<1> QED
  BY <1>11, <1>12, <1>13 DEF Succeeds

LEMMA MovedSucceeds ==
  ASSUME NEW w, Good(w), w.revision < MaxRevision, NEW next \in Moved(w)
  PROVE  Succeeds(w, next)
<1>1. w \in Workspaces /\ w.rows \in RowTables
  BY DEF Good, Workspaces
<1>2. PICK D \in SUBSET DOMAIN w.rows : \E move \in [D -> {"development", "held-out"}] :
        next = Revised([w EXCEPT !.rows = [c \in DOMAIN @ |->
                 IF c \in DOMAIN move THEN [@[c] EXCEPT !.split = move[c]] ELSE @[c]]])
  BY DEF Moved
<1>14. PICK move \in [D -> {"development", "held-out"}] :
        next = Revised([w EXCEPT !.rows = [c \in DOMAIN @ |->
                 IF c \in DOMAIN move THEN [@[c] EXCEPT !.split = move[c]] ELSE @[c]]])
  BY <1>2
<1>3. PICK table : table = [c \in DOMAIN w.rows |->
        IF c \in DOMAIN move THEN [w.rows[c] EXCEPT !.split = move[c]] ELSE w.rows[c]]
  OBVIOUS
<1>4. PICK x : x = [revision |-> w.revision, rows |-> table, history |-> w.history]
  OBVIOUS
<1>5. next = Revised(x)
  <2>1. x = [w EXCEPT !.rows = [c \in DOMAIN @ |->
               IF c \in DOMAIN move THEN [@[c] EXCEPT !.split = move[c]] ELSE @[c]]]
    BY <1>1, <1>3, <1>4 DEF Workspaces
  <2> QED
    BY <1>14, <2>1
<1>6. ASSUME NEW c \in DOMAIN w.rows
      PROVE  /\ table[c] \in Rows /\ table[c].word = w.rows[c].word
             /\ table[c].group = w.rows[c].group /\ table[c].inspected = w.rows[c].inspected
  <2>1. w.rows[c] \in Rows
    BY <1>1, TableTypes
  <2>2. CASE c \in D
    <3>1. table[c] = [w.rows[c] EXCEPT !.split = move[c]] /\ move[c] \in Splits
      BY <1>14, <1>3, <2>2 DEF Splits
    <3> QED
      BY <2>1, <3>1 DEF Rows
  <2>3. CASE c \notin D
    BY <1>14, <1>3, <2>1, <2>3
  <2> QED
    BY <2>2, <2>3
<1>7. DOMAIN table = DOMAIN w.rows
  BY <1>3
<1>8. table \in RowTables
  <2>1. table \in [DOMAIN w.rows -> Rows]
    BY <1>3, <1>6
  <2> QED
    BY <1>1, <2>1, TableTypes, IsTable
<1>9. Good(x) /\ x.revision = w.revision /\ x.rows = table /\ x.history = w.history
  BY <1>1, <1>4, <1>8 DEF Good, Workspaces
<1>10. \A c \in DOMAIN w.rows : RowKeys(x, c) = RowKeys(w, c)
  BY <1>6, <1>9 DEF RowKeys
<1>11. Links(x) = Links(w)
  BY <1>7, <1>9, <1>10 DEF Links
<1>12. Flagged(x) = Flagged(w)
  BY <1>6, <1>7, <1>9, <1>10 DEF Flagged
<1>13. Inspected(x) = Inspected(w)
  BY <1>9, <1>11, <1>12 DEF Inspected
<1> QED
  BY <1>5, <1>9, <1>13, RevisedEffect DEF Succeeds

-----------------------------------------------------------------------------
(* The commands and the lock files.                                        *)

Places == {"idle", "guarded", "created", "working", "staged", "leaving",
           "comparing", "recovering", "inspecting", "removing"}
TabRecords == [at : Places, lock : Locks, next : Workspaces, version : Versions \cup {0}]

(* The places under a lock's guard, and those inside the write lock; a     *)
(* freeze is there until it returns from the freeze lock.                  *)
Guarding == {"guarded", "created", "comparing", "inspecting", "removing"}
Inside(k) == \/ k.lock = ".write-lock" /\ k.at \in {"working", "staged"}
             \/ /\ k.lock = ".freeze-lock"
                /\ k.at \in {"guarded", "created", "working", "staged", "leaving", "comparing"}

(* What the files are while t's command is at k: it alone is under the     *)
(* guard, the file it created is still empty, the one it removes names no  *)
(* running process, and inside the write lock the file names t.            *)
TabLockOK(t, k, files, guards, lives) ==
  /\ k.at \in Guarding => guards[k.lock]
  /\ k.at = "created" => files[k.lock] = Empty
  /\ k.at = "removing" => /\ files[k.lock] \in Owners
                          /\ lives[files[k.lock][2]] # files[k.lock][3]
  /\ Inside(k) => files[".write-lock"] = <<"owner", t, lives[t]>>

LockInv ==
  /\ LockTypeOK
  /\ tab \in [Tabs -> TabRecords]
  /\ \A t \in Tabs : TabLockOK(t, tab[t], lock, guard, life)
  /\ \A t, u \in Tabs : /\ t # u /\ tab[t].at \in Guarding /\ tab[u].at \in Guarding
                        => tab[t].lock # tab[u].lock
  /\ \A n \in Locks : lock[n] \in Owners => lock[n][3] <= life[lock[n][2]]

(* What a command holds: a change that succeeds the workspace it is about  *)
(* to replace, or the workspace it freezes under a version that is free.   *)
TabDataOK(k, shown, w, versions) ==
  /\ k.at = "staged" /\ k.lock = ".write-lock" =>
       Succeeds(w, k.next) /\ validateWorkspace(k.next) /\ shown = w.revision
  /\ k.at \in {"guarded", "created", "working", "staged"} /\ k.lock = ".freeze-lock" => k.next = w
  /\ k.at = "staged" /\ k.lock = ".freeze-lock" => k.version \in Versions \ versions
  /\ shown \in 0 .. w.revision

FrozenOK == /\ DOMAIN frozen \subseteq Versions
            /\ \A v \in DOMAIN frozen : DOMAIN frozen[v].rows \subseteq Cases

StoreInv ==
  /\ LockInv
  /\ Good(workspace) /\ validateWorkspace(workspace)
  /\ form \in [Tabs -> Nat]
  /\ \A t \in Tabs : TabDataOK(tab[t], form[t], workspace, DOMAIN frozen)
  /\ FrozenOK
  /\ exposed \subseteq Inspected(workspace)

LEMMA OwnerFacts ==
  /\ Absent \notin Owners /\ Empty \notin Owners /\ Absent # Empty
  /\ \A e \in Owners : e = <<"owner", e[2], e[3]>> /\ e[2] \in Tabs /\ e[3] \in 1 .. MaxLives
  /\ \A t : Owner(t)[2] = t /\ Owner(t)[3] = life[t] /\ Owner(t) # Absent /\ Owner(t) # Empty
BY DEF Absent, Empty, Owners, Owner

LEMMA OwnerType ==
  ASSUME LockTypeOK, NEW t \in Tabs
  PROVE  Owner(t) \in Owners
BY DEF LockTypeOK, Owner, Owners

(* What the operations under a guard do to the files.                      *)
UnderGuard(n, t) == \/ Create(n) \/ CreateRefused(n) \/ Sign(n, t) \/ SignFailed(n)
                    \/ Remove(n, t) \/ RemoveStopped(n)
                    \/ LeaveGuard(n) /\ UNCHANGED <<lock, life>>

LEMMA UnderGuardEffect ==
  ASSUME LockTypeOK, NEW n \in Locks, NEW t \in Tabs, UnderGuard(n, t)
  PROVE  /\ LockTypeOK' /\ life' = life
         /\ \A m \in Locks : m # n => lock'[m] = lock[m] /\ (guard[m] => guard'[m])
         /\ lock'[n] = lock[n] \/ lock'[n] \in {Absent, Empty, Owner(t)}
<1>1. Owner(t) \in Owners
  BY OwnerType
<1>2. CASE Create(n)
  BY <1>2 DEF Create, LockTypeOK
<1>3. CASE CreateRefused(n) \/ (LeaveGuard(n) /\ UNCHANGED <<lock, life>>)
  BY <1>3 DEF CreateRefused, LeaveGuard, LockTypeOK
<1>4. CASE Sign(n, t)
  BY <1>1, <1>4 DEF Sign, LeaveGuard, LockTypeOK
<1>5. CASE SignFailed(n) \/ RemoveStopped(n)
  BY <1>5 DEF SignFailed, RemoveStopped, LeaveGuard, LockTypeOK
<1>6. CASE Remove(n, t)
  BY <1>6 DEF Remove, LeaveGuard, LockTypeOK
<1> QED
  BY <1>2, <1>3, <1>4, <1>5, <1>6 DEF UnderGuard

LEMMA EnterGuardEffect ==
  ASSUME LockTypeOK, NEW n \in Locks, EnterGuard(n)
  PROVE  /\ LockTypeOK' /\ life' = life /\ lock' = lock /\ ~guard[n] /\ guard'[n]
         /\ \A m \in Locks : guard[m] => guard'[m]
BY DEF EnterGuard, LockTypeOK

(* A step of t that changes files only under a guard it has, or enters a   *)
(* guard nobody has, leaves what the others know of the files.             *)
FilesOK(t, k) ==
  /\ LockTypeOK' /\ life' = life
  /\ \A m \in Locks : \/ tab[t].at \in Guarding /\ tab[t].lock = m
                      \/ lock'[m] = lock[m] /\ (guard[m] => guard'[m])
  /\ \A m \in Locks : \/ lock'[m] = lock[m]
                      \/ /\ lock'[m] \in {Absent, Empty, Owner(t)}
                         /\ \A u \in Tabs : u # t => lock[m] # Owner(u)
  /\ k.at \in Guarding => \/ tab[t].at \in Guarding /\ tab[t].lock = k.lock
                          \/ ~guard[k.lock]
  /\ TabLockOK(t, k, lock', guard', life)

LEMMA LockFrame ==
  ASSUME LockInv, NEW t \in Tabs, NEW k \in TabRecords, tab' = [tab EXCEPT ![t] = k], FilesOK(t, k)
  PROVE  LockInv'
<1>1. /\ LockTypeOK /\ tab \in [Tabs -> TabRecords] /\ LockTypeOK' /\ life' = life
      /\ tab' \in [Tabs -> TabRecords]
      /\ tab'[t] = k /\ \A u \in Tabs : u # t => tab'[u] = tab[u]
  BY DEF LockInv, FilesOK
<1>2. ASSUME NEW u \in Tabs PROVE TabLockOK(u, tab'[u], lock', guard', life')
  <2>1. CASE u = t
    BY <1>1, <2>1 DEF FilesOK
  <2>2. CASE u # t
    <3>1. tab[u].lock \in Locks /\ ".write-lock" \in Locks
      BY <1>1, AuthoringAssumption DEF TabRecords
    <3>2. tab[u].at \in Guarding =>
            lock'[tab[u].lock] = lock[tab[u].lock] /\ guard'[tab[u].lock]
      BY <2>2, <3>1 DEF LockInv, FilesOK, TabLockOK
    <3>3. Inside(tab[u]) => lock'[".write-lock"] = lock[".write-lock"]
      BY <2>2, <3>1 DEF LockInv, FilesOK, TabLockOK, Owner
    <3>4. "created" \in Guarding /\ "removing" \in Guarding
      BY DEF Guarding
    <3> QED
      BY <1>1, <2>2, <3>2, <3>3, <3>4 DEF LockInv, TabLockOK
  <2> QED
    BY <2>1, <2>2
<1>3. ASSUME NEW u \in Tabs, u # t, k.at \in Guarding, tab[u].at \in Guarding PROVE k.lock # tab[u].lock
  BY <1>3 DEF LockInv, FilesOK, TabLockOK
<1>4. ASSUME NEW n \in Locks, lock'[n] \in Owners PROVE lock'[n][3] <= life[lock'[n][2]]
  <2>1. CASE lock'[n] = lock[n]
    BY <1>4, <2>1 DEF LockInv
  <2>2. CASE lock'[n] # lock[n]
    <3>1. lock'[n] = Owner(t)
      BY <1>4, <2>2, OwnerFacts DEF FilesOK
    <3>2. life[t] \in 1 .. MaxLives
      BY <1>1 DEF LockTypeOK
    <3> QED
      BY <3>1, <3>2, OwnerFacts, LockAssumption
  <2> QED
    BY <2>1, <2>2
<1>5. \A u, v \in Tabs : /\ u # v /\ tab'[u].at \in Guarding /\ tab'[v].at \in Guarding
                         => tab'[u].lock # tab'[v].lock
  BY <1>1, <1>3 DEF LockInv
<1> QED
  BY <1>1, <1>2, <1>4, <1>5 DEF LockInv

(* Such a step that leaves the workspace and the versions alone keeps what *)
(* the others hold.                                                        *)
Shown(t) == form' = form \/ form' = [form EXCEPT ![t] = workspace.revision]

LEMMA StoreFrame ==
  ASSUME StoreInv, NEW t \in Tabs, NEW k \in TabRecords, tab' = [tab EXCEPT ![t] = k], FilesOK(t, k),
         UNCHANGED <<workspace, frozen, exposed>>, Shown(t),
         TabDataOK(k, form'[t], workspace, DOMAIN frozen)
  PROVE  StoreInv'
<1>1. LockInv'
  BY LockFrame DEF StoreInv
<1>2. tab \in [Tabs -> TabRecords] /\ form \in [Tabs -> Nat] /\ workspace.revision \in Nat
  BY DEF StoreInv, LockInv, Good, Workspaces
<1>3. form' \in [Tabs -> Nat]
  BY <1>2 DEF Shown
<1>4. ASSUME NEW u \in Tabs PROVE TabDataOK(tab'[u], form'[u], workspace, DOMAIN frozen)
  <2>1. CASE u = t
    BY <1>2, <2>1
  <2>2. CASE u # t
    <3>1. tab'[u] = tab[u] /\ form'[u] = form[u]
      BY <1>2, <2>2 DEF Shown
    <3> QED
      BY <3>1 DEF StoreInv
  <2> QED
    BY <2>1, <2>2
<1> QED
  BY <1>1, <1>3, <1>4 DEF StoreInv, FrozenOK

LEMMA StoreFacts ==
  ASSUME StoreInv, NEW t \in Tabs
  PROVE  /\ LockInv /\ LockTypeOK /\ tab \in [Tabs -> TabRecords] /\ tab[t] \in TabRecords
         /\ TabLockOK(t, tab[t], lock, guard, life)
         /\ TabDataOK(tab[t], form[t], workspace, DOMAIN frozen)
         /\ Good(workspace) /\ workspace \in Workspaces /\ workspace.revision \in Nat
         /\ form \in [Tabs -> Nat] /\ tab[t].lock \in Locks
BY DEF StoreInv, LockInv, Good, Workspaces, TabRecords

LEMMA IdleRecord ==
  /\ Idle \in TabRecords /\ Idle.at = "idle" /\ Idle.lock = ".write-lock"
  /\ NoWorkspace \in Workspaces
<1>1. NoWorkspace \in Workspaces
  BY NoWorkspaceGood DEF Good
<1> QED
  BY <1>1, AuthoringAssumption DEF Idle, TabRecords, Places

(* A step under t's guard, or without one, after which t has no guard and  *)
(* is outside the write lock.                                              *)
QuietFiles(t) ==
  \/ UNCHANGED lockVars
  \/ /\ tab[t].at \in Guarding /\ UnderGuard(tab[t].lock, t)
     /\ \/ lock'[tab[t].lock] = lock[tab[t].lock]
        \/ \A u \in Tabs : u # t => lock[tab[t].lock] # Owner(u)

LEMMA QuietStep ==
  ASSUME StoreInv, NEW t \in Tabs, NEW k \in TabRecords, tab' = [tab EXCEPT ![t] = k],
         k.at \notin Guarding, ~Inside(k), QuietFiles(t), Shown(t),
         UNCHANGED <<workspace, frozen, exposed>>
  PROVE  StoreInv'
<1>1. LockTypeOK /\ tab[t].lock \in Locks /\ form \in [Tabs -> Nat] /\ workspace.revision \in Nat
      /\ TabDataOK(tab[t], form[t], workspace, DOMAIN frozen)
  BY StoreFacts
<1>2. TabLockOK(t, k, lock', guard', life)
  BY DEF TabLockOK, Guarding
<1>3. FilesOK(t, k)
  <2>1. CASE UNCHANGED lockVars
    BY <1>1, <1>2, <2>1 DEF lockVars, FilesOK, LockTypeOK
  <2>2. CASE ~UNCHANGED lockVars
    <3>1. /\ tab[t].at \in Guarding /\ UnderGuard(tab[t].lock, t)
          /\ \/ lock'[tab[t].lock] = lock[tab[t].lock]
             \/ \A u \in Tabs : u # t => lock[tab[t].lock] # Owner(u)
      BY <2>2 DEF QuietFiles
    <3>2. /\ LockTypeOK' /\ life' = life
          /\ \A m \in Locks : m # tab[t].lock => lock'[m] = lock[m] /\ (guard[m] => guard'[m])
          /\ lock'[tab[t].lock] = lock[tab[t].lock] \/ lock'[tab[t].lock] \in {Absent, Empty, Owner(t)}
      BY <1>1, <3>1, UnderGuardEffect
    <3> QED
      BY <1>2, <3>1, <3>2 DEF FilesOK
  <2> QED
    BY <2>1, <2>2
<1>4. form'[t] \in 0 .. workspace.revision
  BY <1>1 DEF Shown, TabDataOK
<1>5. TabDataOK(k, form'[t], workspace, DOMAIN frozen)
  BY <1>4, AuthoringAssumption DEF TabDataOK, Guarding, Inside, TabRecords
<1> QED
  BY <1>3, <1>5, StoreFrame

(* Where a command goes when it is over, or goes on to the next lock.      *)
Ending(t) == Respond(t) \/ Return(t) \/ NextRecovery(t)

LEMMA EndStep ==
  ASSUME StoreInv, NEW t \in Tabs, Ending(t), QuietFiles(t), UNCHANGED <<workspace, frozen, exposed>>
  PROVE  StoreInv'
<1>1. tab[t] \in TabRecords /\ tab \in [Tabs -> TabRecords]
  BY StoreFacts
<1>2. CASE Respond(t)
  <2>1. tab' = [tab EXCEPT ![t] = Idle] /\ Shown(t)
    BY <1>2 DEF Respond, Shown
  <2>2. Idle.at \notin Guarding /\ ~Inside(Idle)
    BY IdleRecord DEF Guarding, Inside
  <2> QED
    BY <2>1, <2>2, IdleRecord, QuietStep
<1>3. CASE Return(t) /\ ~Respond(t)
  <2>1. PICK k : k = [Idle EXCEPT !.at = "leaving"]
    OBVIOUS
  <2>2. k \in TabRecords /\ k.at = "leaving" /\ k.lock = ".write-lock"
    BY <2>1, IdleRecord DEF TabRecords, Places
  <2>3. tab' = [tab EXCEPT ![t] = k] /\ Shown(t)
    BY <1>3, <2>1 DEF Return, Shown
  <2>4. k.at \notin Guarding /\ ~Inside(k)
    BY <2>2 DEF Guarding, Inside
  <2> QED
    BY <2>2, <2>3, <2>4, QuietStep
<1>4. CASE NextRecovery(t) /\ ~Respond(t)
  <2>1. PICK k : k = [at |-> "recovering", lock |-> ".freeze-lock", next |-> tab[t].next,
                      version |-> tab[t].version]
    OBVIOUS
  <2>2. k \in TabRecords /\ k.at = "recovering"
    BY <1>1, <2>1, AuthoringAssumption DEF TabRecords, Places
  <2>3. tab' = [tab EXCEPT ![t] = k]
    <3>1. tab' = [tab EXCEPT ![t].at = "recovering", ![t].lock = ".freeze-lock"]
      BY <1>4 DEF NextRecovery
    <3>2. PICK mid : mid = [tab EXCEPT ![t].at = "recovering"]
      OBVIOUS
    <3>3. tab' = [mid EXCEPT ![t].lock = ".freeze-lock"]
      BY <3>1, <3>2
    <3>4. mid[t] = [tab[t] EXCEPT !.at = "recovering"] /\ mid = [tab EXCEPT ![t] = mid[t]]
          /\ mid \in [Tabs -> TabRecords]
      BY <1>1, <3>2 DEF TabRecords, Places
    <3>5. k = [mid[t] EXCEPT !.lock = ".freeze-lock"]
      <4>1. mid[t] = [at |-> "recovering", lock |-> tab[t].lock, next |-> tab[t].next,
                      version |-> tab[t].version]
        BY <1>1, <3>4 DEF TabRecords
      <4> QED
        BY <2>1, <4>1
    <3> QED
      BY <1>1, <3>3, <3>4, <3>5
  <2>4. Shown(t) /\ k.at \notin Guarding /\ ~Inside(k)
    BY <1>4, <2>1 DEF NextRecovery, Shown, Guarding, Inside
  <2> QED
    BY <2>2, <2>3, <2>4, QuietStep
<1> QED
  BY <1>2, <1>3, <1>4 DEF Ending

LEMMA GoesEffect ==
  ASSUME StoreInv, NEW t \in Tabs, NEW at \in Places, Goes(t, at)
  PROVE  \E k \in TabRecords : /\ tab' = [tab EXCEPT ![t] = k]
                               /\ k.at = at /\ k.lock = tab[t].lock /\ k.next = tab[t].next
                               /\ k.version = tab[t].version
<1>1. tab[t] \in TabRecords /\ tab \in [Tabs -> TabRecords]
  BY StoreFacts
<1>2. PICK k : k = [tab[t] EXCEPT !.at = at]
  OBVIOUS
<1>3. k \in TabRecords /\ k.at = at /\ k.lock = tab[t].lock /\ k.next = tab[t].next
      /\ k.version = tab[t].version
  BY <1>1, <1>2 DEF TabRecords
<1>4. tab' = [tab EXCEPT ![t] = k]
  BY <1>1, <1>2 DEF Goes
<1> QED
  BY <1>3, <1>4

LEMMA LeavesEffect ==
  ASSUME StoreInv, NEW t \in Tabs, Leaves(t)
  PROVE  \E k \in TabRecords : /\ tab' = [tab EXCEPT ![t] = k]
                               /\ k.at = "leaving" /\ k.lock = tab[t].lock
<1>1. tab[t].lock \in Locks
  BY StoreFacts
<1>2. PICK k : k = [Idle EXCEPT !.at = "leaving", !.lock = tab[t].lock]
  OBVIOUS
<1>3. k \in TabRecords /\ k.at = "leaving" /\ k.lock = tab[t].lock
  BY <1>1, <1>2, IdleRecord, AuthoringAssumption DEF Idle, TabRecords, Places
<1>4. tab' = [tab EXCEPT ![t] = k]
  BY <1>2 DEF Leaves
<1> QED
  BY <1>3, <1>4

(* A command enters a guard. *)
LEMMA EnterStep ==
  ASSUME StoreInv, NEW t \in Tabs, NEW k \in TabRecords, tab' = [tab EXCEPT ![t] = k],
         EnterGuard(k.lock), k.at \in {"guarded", "comparing", "inspecting"},
         Inside(k) => Inside(tab[t]),
         k.at = "guarded" /\ k.lock = ".freeze-lock" => k.next = workspace,
         UNCHANGED <<workspace, frozen, form, exposed>>
  PROVE  StoreInv'
<1>1. /\ LockTypeOK /\ k.lock \in Locks
      /\ TabLockOK(t, tab[t], lock, guard, life)
      /\ TabDataOK(tab[t], form[t], workspace, DOMAIN frozen)
  BY StoreFacts DEF TabRecords
<1>2. /\ LockTypeOK' /\ life' = life /\ lock' = lock /\ ~guard[k.lock] /\ guard'[k.lock]
      /\ \A m \in Locks : guard[m] => guard'[m]
  BY <1>1, EnterGuardEffect
<1>3. TabLockOK(t, k, lock', guard', life)
  BY <1>1, <1>2 DEF TabLockOK
<1>4. FilesOK(t, k)
  BY <1>2, <1>3 DEF FilesOK
<1>5. TabDataOK(k, form'[t], workspace, DOMAIN frozen)
  BY <1>1 DEF TabDataOK
<1> QED
  BY <1>4, <1>5, StoreFrame DEF Shown

(* A command goes on where it holds what it held, on the same lock.        *)
LEMMA StayStep ==
  ASSUME StoreInv, NEW t \in Tabs, NEW k \in TabRecords, tab' = [tab EXCEPT ![t] = k],
         UNCHANGED lockVars, k.at \notin Guarding, Inside(k) => Inside(tab[t]),
         TabDataOK(k, form[t], workspace, DOMAIN frozen),
         UNCHANGED <<workspace, frozen, form, exposed>>
  PROVE  StoreInv'
<1>1. LockTypeOK /\ TabLockOK(t, tab[t], lock, guard, life)
  BY StoreFacts
<1>2. TabLockOK(t, k, lock', guard', life)
  BY <1>1 DEF TabLockOK, lockVars, Guarding
<1>3. FilesOK(t, k)
  BY <1>1, <1>2 DEF FilesOK, lockVars, LockTypeOK
<1> QED
  BY <1>3, StoreFrame DEF Shown

-----------------------------------------------------------------------------
(* Each action of the store keeps StoreInv.                                *)

LEMMA AskStore ==
  ASSUME StoreInv, NEW t \in Tabs, Ask(t)
  PROVE  StoreInv'
<1>1. PICK k \in TabRecords : tab' = [tab EXCEPT ![t] = k] /\ k.at = "guarded" /\ k.lock = tab[t].lock
  BY GoesEffect DEF Ask, Places
<1>2. k.lock = ".write-lock"
  BY <1>1, IdleRecord DEF Ask
<1> QED
  BY <1>1, <1>2, EnterStep DEF Ask, Inside

LEMMA AcquireStore ==
  ASSUME StoreInv, NEW t \in Tabs, Acquire(t)
  PROVE  StoreInv'
<1> DEFINE n == tab[t].lock
<1>1. /\ LockTypeOK /\ n \in Locks /\ tab[t].at = "guarded" /\ "guarded" \in Guarding
      /\ TabLockOK(t, tab[t], lock, guard, life)
      /\ TabDataOK(tab[t], form[t], workspace, DOMAIN frozen)
  BY StoreFacts DEF Acquire, Guarding
<1>2. CASE CreateRefused(n) /\ Return(t)
  <2>1. QuietFiles(t)
    BY <1>1, <1>2 DEF QuietFiles, UnderGuard, CreateRefused
  <2> QED
    BY <1>2, <2>1, EndStep DEF Acquire, Ending
<1>3. CASE Create(n) /\ Goes(t, "created") /\ UNCHANGED form
  <2>1. PICK k \in TabRecords : /\ tab' = [tab EXCEPT ![t] = k] /\ k.at = "created" /\ k.lock = n
                                /\ k.next = tab[t].next
    BY <1>3, GoesEffect DEF Places
  <2>2. /\ LockTypeOK' /\ life' = life
        /\ \A m \in Locks : m # n => lock'[m] = lock[m] /\ (guard[m] => guard'[m])
    BY <1>1, <1>3, UnderGuardEffect DEF UnderGuard
  <2>3. lock[n] = Absent /\ lock'[n] = Empty /\ guard' = guard
    BY <1>1, <1>3 DEF Create, LockTypeOK
  <2>4. Inside(k) => n = ".freeze-lock" /\ Inside(tab[t])
    BY <1>1, <2>1 DEF Inside
  <2>5. TabLockOK(t, k, lock', guard', life)
    BY <1>1, <2>1, <2>2, <2>3, <2>4, AuthoringAssumption DEF TabLockOK
  <2>6. FilesOK(t, k)
    BY <1>1, <2>1, <2>2, <2>3, <2>5, OwnerFacts DEF FilesOK
  <2>7. TabDataOK(k, form'[t], workspace, DOMAIN frozen)
    BY <1>1, <1>3, <2>1 DEF TabDataOK
  <2> QED
    BY <1>3, <2>1, <2>6, <2>7, StoreFrame DEF Acquire, Shown
<1> QED
  BY <1>2, <1>3 DEF Acquire

LEMMA WriteOwnershipStore ==
  ASSUME StoreInv, NEW t \in Tabs, WriteOwnership(t)
  PROVE  StoreInv'
<1> DEFINE n == tab[t].lock
<1>1. /\ LockTypeOK /\ n \in Locks /\ tab[t].at = "created" /\ "created" \in Guarding
      /\ TabLockOK(t, tab[t], lock, guard, life)
      /\ TabDataOK(tab[t], form[t], workspace, DOMAIN frozen)
  BY StoreFacts DEF WriteOwnership, Guarding
<1>2. lock[n] = Empty
  BY <1>1 DEF TabLockOK
<1>3. CASE SignFailed(n) /\ Return(t)
  <2>1. QuietFiles(t)
    BY <1>1, <1>2, <1>3, OwnerFacts DEF QuietFiles, UnderGuard
  <2> QED
    BY <1>3, <2>1, EndStep DEF WriteOwnership, Ending
<1>4. CASE Sign(n, t) /\ Goes(t, "working") /\ UNCHANGED form
  <2>1. PICK k \in TabRecords : /\ tab' = [tab EXCEPT ![t] = k] /\ k.at = "working" /\ k.lock = n
                                /\ k.next = tab[t].next
    BY <1>4, GoesEffect DEF Places
  <2>2. /\ LockTypeOK' /\ life' = life
        /\ \A m \in Locks : m # n => lock'[m] = lock[m] /\ (guard[m] => guard'[m])
    BY <1>1, <1>4, UnderGuardEffect DEF UnderGuard
  <2>3. lock'[n] = Owner(t)
    BY <1>1, <1>4 DEF Sign, LockTypeOK
  <2>4. lock'[".write-lock"] = <<"owner", t, life[t]>>
    <3>1. CASE n = ".write-lock"
      BY <2>3, <3>1 DEF Owner
    <3>2. CASE n = ".freeze-lock"
      BY <1>1, <2>2, <3>2, AuthoringAssumption DEF TabLockOK, Inside
    <3> QED
      BY <1>1, <3>1, <3>2, AuthoringAssumption
  <2>5. TabLockOK(t, k, lock', guard', life)
    BY <2>1, <2>4 DEF TabLockOK, Guarding
  <2>6. FilesOK(t, k)
    BY <1>1, <1>2, <2>1, <2>2, <2>3, <2>5, OwnerFacts DEF FilesOK, Guarding
  <2>7. TabDataOK(k, form'[t], workspace, DOMAIN frozen)
    BY <1>1, <1>4, <2>1 DEF TabDataOK
  <2> QED
    BY <1>4, <2>1, <2>6, <2>7, StoreFrame DEF WriteOwnership, Shown
<1> QED
  BY <1>3, <1>4 DEF WriteOwnership

LEMMA RefuseStore ==
  ASSUME StoreInv, NEW t \in Tabs, Refuse(t)
  PROVE  StoreInv'
<1>1. PICK k \in TabRecords : tab' = [tab EXCEPT ![t] = k] /\ k.at = "leaving" /\ k.lock = tab[t].lock
  BY LeavesEffect DEF Refuse
<1>2. tab[t].at \in {"working", "staged"}
  BY DEF Refuse
<1>3. Inside(k) => Inside(tab[t])
  BY <1>1, <1>2 DEF Inside
<1>4. TabDataOK(k, form[t], workspace, DOMAIN frozen)
  BY <1>1, StoreFacts DEF TabDataOK
<1> QED
  BY <1>1, <1>3, <1>4, StayStep DEF Refuse, Guarding

LEMMA EditsSucceed ==
  ASSUME NEW w, Good(w), w.revision < MaxRevision, NEW next \in Edited(w)
  PROVE  Succeeds(w, next) /\ validateWorkspace(next) /\ next \in Workspaces
<1>1. next \in Saved(w) \/ next \in Moved(w)
  BY DEF Edited
<1>2. Succeeds(w, next)
  BY <1>1, SavedSucceeds, MovedSucceeds
<1> QED
  BY <1>2 DEF Edited, Succeeds, Good

(* Fields of a command's record are set: what the steps below do to tab.   *)
LEMMA LockRecord ==
  ASSUME StoreInv, NEW t \in Tabs, NEW k,
         k = [at |-> "guarded", lock |-> ".freeze-lock", next |-> workspace, version |-> tab[t].version],
         tab' = [tab EXCEPT ![t].at = "guarded", ![t].lock = ".freeze-lock", ![t].next = workspace]
  PROVE  k \in TabRecords /\ tab' = [tab EXCEPT ![t] = k]
<1>1. tab[t] \in TabRecords /\ tab \in [Tabs -> TabRecords] /\ workspace \in Workspaces
  BY StoreFacts
<1>2. k \in TabRecords
  BY <1>1, AuthoringAssumption DEF TabRecords, Places
<1>3. PICK one : one = [tab[t] EXCEPT !.at = "guarded"]
  OBVIOUS
<1>4. one = [at |-> "guarded", lock |-> tab[t].lock, next |-> tab[t].next, version |-> tab[t].version]
  BY <1>1, <1>3 DEF TabRecords
<1>5. PICK both : both = [one EXCEPT !.lock = ".freeze-lock"]
  OBVIOUS
<1>6. both = [at |-> "guarded", lock |-> ".freeze-lock", next |-> tab[t].next, version |-> tab[t].version]
  BY <1>4, <1>5
<1>7. k = [both EXCEPT !.next = workspace]
  BY <1>6
<1>8. tab' = [tab EXCEPT ![t] = k]
  BY <1>1, <1>3, <1>5, <1>7
<1> QED
  BY <1>2, <1>8

LEMMA VersionRecord ==
  ASSUME StoreInv, NEW t \in Tabs, NEW v \in Versions, NEW k,
         k = [at |-> "staged", lock |-> ".freeze-lock", next |-> tab[t].next, version |-> v],
         tab[t].lock = ".freeze-lock",
         tab' = [tab EXCEPT ![t].at = "staged", ![t].version = v]
  PROVE  k \in TabRecords /\ tab' = [tab EXCEPT ![t] = k]
<1>1. tab[t] \in TabRecords /\ tab \in [Tabs -> TabRecords]
  BY StoreFacts
<1>2. k \in TabRecords
  BY <1>1, AuthoringAssumption DEF TabRecords, Places
<1>3. PICK one : one = [tab[t] EXCEPT !.at = "staged"]
  OBVIOUS
<1>4. one = [at |-> "staged", lock |-> tab[t].lock, next |-> tab[t].next, version |-> tab[t].version]
  BY <1>1, <1>3 DEF TabRecords
<1>5. k = [one EXCEPT !.version = v]
  BY <1>4
<1>6. tab' = [tab EXCEPT ![t] = k]
  BY <1>1, <1>3, <1>5
<1> QED
  BY <1>2, <1>6

LEMMA StageStore ==
  ASSUME StoreInv, NEW t \in Tabs, Stage(t)
  PROVE  StoreInv'
<1>1. PICK next \in Edited(workspace) : tab' = [tab EXCEPT ![t].at = "staged", ![t].next = next]
  BY DEF Stage
<1>2. Succeeds(workspace, next) /\ validateWorkspace(next) /\ next \in Workspaces
  BY StoreFacts, EditsSucceed DEF Stage
<1>3. tab[t] \in TabRecords /\ tab[t].at = "working" /\ tab[t].lock = ".write-lock"
      /\ TabDataOK(tab[t], form[t], workspace, DOMAIN frozen)
  BY StoreFacts DEF Stage
<1>4. PICK k : k = [at |-> "staged", lock |-> ".write-lock", next |-> next, version |-> tab[t].version]
  OBVIOUS
<1>5. k \in TabRecords /\ tab' = [tab EXCEPT ![t] = k]
  <2>1. k \in TabRecords /\ tab \in [Tabs -> TabRecords]
    BY <1>2, <1>3, <1>4, StoreFacts, AuthoringAssumption DEF TabRecords, Places
  <2>2. PICK one : one = [tab[t] EXCEPT !.at = "staged"]
    OBVIOUS
  <2>3. one = [at |-> "staged", lock |-> tab[t].lock, next |-> tab[t].next, version |-> tab[t].version]
    BY <1>3, <2>2 DEF TabRecords
  <2>4. k = [one EXCEPT !.next = next]
    BY <1>3, <1>4, <2>3
  <2>5. tab' = [tab EXCEPT ![t] = k]
    BY <1>1, <2>1, <2>2, <2>4
  <2> QED
    BY <2>1, <2>5
<1>6. Inside(tab[t]) /\ k.at \notin Guarding
  BY <1>3, <1>4 DEF Inside, Guarding
<1>7. TabDataOK(k, form[t], workspace, DOMAIN frozen)
  BY <1>2, <1>3, <1>4 DEF TabDataOK, Stage, Current
<1> QED
  BY <1>5, <1>6, <1>7, StayStep DEF Stage

(* While one tab is inside the write lock, no other is, so what the others *)
(* hold does not depend on the workspace or the versions.                  *)
LEMMA OneInside ==
  ASSUME LockInv, NEW t \in Tabs, NEW u \in Tabs, Inside(tab[t]), Inside(tab[u])
  PROVE  t = u
BY DEF LockInv, TabLockOK

LEMMA OthersHold ==
  ASSUME StoreInv, NEW t \in Tabs, Inside(tab[t]), NEW u \in Tabs, u # t,
         NEW w, NEW versions, w.revision \in Nat, workspace.revision <= w.revision
  PROVE  TabDataOK(tab[u], form[u], w, versions)
<1>1. ~Inside(tab[u])
  BY OneInside DEF StoreInv
<1>2. form[u] \in 0 .. workspace.revision /\ workspace.revision \in Nat
  BY StoreFacts DEF TabDataOK
<1> QED
  BY <1>1, <1>2 DEF TabDataOK, Inside

(* What was exposed stays within what is inspected: the next workspace     *)
(* knows of everything this one does.                                      *)
LEMMA ExposedStays ==
  ASSUME NEW w, NEW next, Succeeds(w, next), NEW seen, seen \subseteq Inspected(w)
  PROVE  Connected(Links(next), seen \cup Flagged(next)) \subseteq Inspected(next)
<1>1. Good(next) /\ seen \subseteq Inspected(next)
  BY DEF Succeeds
<1>2. Flagged(next) \subseteq Inspected(next) /\ Closed(Links(next), Inspected(next))
  BY <1>1, InspectedHolds
<1>3. PICK seed : seed = seen \cup Flagged(next)
  OBVIOUS
<1>4. seed \subseteq Inspected(next)
  BY <1>1, <1>2, <1>3
<1>5. Connected(Links(next), seed) \subseteq Inspected(next)
  BY <1>1, <1>2, <1>4, LinksFinite, ConnectedIsLeast
<1> QED
  BY <1>3, <1>5

LEMMA ReplaceStore ==
  ASSUME StoreInv, NEW t \in Tabs, Replace(t)
  PROVE  StoreInv'
<1>1. /\ LockInv /\ LockTypeOK /\ tab \in [Tabs -> TabRecords] /\ form \in [Tabs -> Nat]
      /\ TabLockOK(t, tab[t], lock, guard, life)
      /\ TabDataOK(tab[t], form[t], workspace, DOMAIN frozen) /\ workspace.revision \in Nat
  BY StoreFacts
<1>2. /\ tab[t].at = "staged" /\ tab[t].lock = ".write-lock" /\ workspace' = tab[t].next
      /\ exposed' = Connected(Links(workspace'), exposed \cup Flagged(workspace'))
      /\ UNCHANGED <<lockVars, frozen, form>>
  BY DEF Replace
<1>3. /\ Succeeds(workspace, workspace') /\ validateWorkspace(workspace')
      /\ form[t] = workspace.revision
  BY <1>1, <1>2 DEF TabDataOK
<1>4. Good(workspace') /\ workspace'.revision = workspace.revision + 1
  BY <1>3 DEF Succeeds
<1>5. PICK k \in TabRecords : tab' = [tab EXCEPT ![t] = k] /\ k.at = "leaving" /\ k.lock = ".write-lock"
  BY <1>2, LeavesEffect DEF Replace
<1>6. FilesOK(t, k)
  <2>1. TabLockOK(t, k, lock', guard', life)
    BY <1>5 DEF TabLockOK, Guarding, Inside
  <2> QED
    BY <1>1, <1>2, <1>5, <2>1 DEF FilesOK, lockVars, LockTypeOK, Guarding
<1>7. LockInv'
  BY <1>1, <1>5, <1>6, LockFrame
<1>8. exposed' \subseteq Inspected(workspace')
  <2>1. exposed \subseteq Inspected(workspace)
    BY DEF StoreInv
  <2>2. Connected(Links(workspace'), exposed \cup Flagged(workspace')) \subseteq Inspected(workspace')
    BY <1>3, <2>1, ExposedStays
  <2> QED
    BY <1>2, <2>2
<1>9. ASSUME NEW u \in Tabs PROVE TabDataOK(tab'[u], form'[u], workspace', DOMAIN frozen)
  <2>1. CASE u = t
    <3>1. form[t] \in 0 .. workspace'.revision
      BY <1>1, <1>3, <1>4
    <3> QED
      BY <1>1, <1>2, <1>5, <2>1, <3>1 DEF TabDataOK
  <2>2. CASE u # t
    <3>1. Inside(tab[t]) /\ workspace.revision <= workspace'.revision /\ workspace'.revision \in Nat
      BY <1>1, <1>2, <1>4 DEF Inside
    <3>2. TabDataOK(tab[u], form[u], workspace', DOMAIN frozen)
      BY <2>2, <3>1, OthersHold
    <3>3. tab'[u] = tab[u] /\ form' = form
      BY <1>1, <1>2, <1>5, <2>2
    <3> QED
      BY <3>2, <3>3
  <2> QED
    BY <2>1, <2>2
<1>10. FrozenOK' /\ form' \in [Tabs -> Nat] /\ frozen' = frozen
  BY <1>1, <1>2 DEF StoreInv, FrozenOK
<1> QED
  BY <1>3, <1>4, <1>7, <1>8, <1>9, <1>10 DEF StoreInv

LEMMA AskFreezeStore ==
  ASSUME StoreInv, NEW t \in Tabs, AskFreeze(t)
  PROVE  StoreInv'
<1>1. tab[t] \in TabRecords /\ tab[t].at = "working" /\ tab[t].lock = ".write-lock"
      /\ workspace \in Workspaces
  BY StoreFacts DEF AskFreeze
<1>2. PICK k : k = [at |-> "guarded", lock |-> ".freeze-lock", next |-> workspace,
                    version |-> tab[t].version]
  OBVIOUS
<1>3. tab' = [tab EXCEPT ![t].at = "guarded", ![t].lock = ".freeze-lock", ![t].next = workspace]
  BY DEF AskFreeze
<1>4. k \in TabRecords /\ tab' = [tab EXCEPT ![t] = k]
  BY <1>1, <1>2, <1>3, LockRecord
<1>5. Inside(tab[t])
  BY <1>1 DEF Inside
<1> QED
  BY <1>2, <1>4, <1>5, EnterStep DEF AskFreeze

LEMMA StageFreezeStore ==
  ASSUME StoreInv, NEW t \in Tabs, StageFreeze(t)
  PROVE  StoreInv'
<1>1. /\ tab[t] \in TabRecords /\ tab[t].at = "working" /\ tab[t].lock = ".freeze-lock"
      /\ TabDataOK(tab[t], form[t], workspace, DOMAIN frozen)
  BY StoreFacts DEF StageFreeze
<1>2. PICK v \in Versions \ DOMAIN frozen : tab' = [tab EXCEPT ![t].at = "staged", ![t].version = v]
  BY DEF StageFreeze
<1>3. PICK k : k = [at |-> "staged", lock |-> ".freeze-lock", next |-> tab[t].next, version |-> v]
  OBVIOUS
<1>4. k \in TabRecords /\ tab' = [tab EXCEPT ![t] = k]
  BY <1>1, <1>2, <1>3, VersionRecord
<1>5. Inside(tab[t]) /\ k.at \notin Guarding
  BY <1>1, <1>3 DEF Inside, Guarding
<1>6. TabDataOK(k, form[t], workspace, DOMAIN frozen)
  BY <1>1, <1>2, <1>3 DEF TabDataOK
<1> QED
  BY <1>4, <1>5, <1>6, StayStep DEF StageFreeze

LEMMA FreezeStore ==
  ASSUME StoreInv, NEW t \in Tabs, Freeze(t)
  PROVE  StoreInv'
<1> DEFINE v == tab[t].version
<1>1. /\ LockInv /\ LockTypeOK /\ tab \in [Tabs -> TabRecords] /\ form \in [Tabs -> Nat]
      /\ TabLockOK(t, tab[t], lock, guard, life)
      /\ TabDataOK(tab[t], form[t], workspace, DOMAIN frozen) /\ workspace.revision \in Nat
      /\ Good(workspace)
  BY StoreFacts
<1>2. /\ tab[t].at = "staged" /\ tab[t].lock = ".freeze-lock"
      /\ frozen' = [x \in DOMAIN frozen \cup {v} |->
                      IF x = v THEN Frozen(tab[t].next) ELSE frozen[x]]
      /\ UNCHANGED <<lockVars, workspace, form, exposed>>
  BY DEF Freeze
<1>3. v \in Versions \ DOMAIN frozen /\ tab[t].next = workspace
  BY <1>1, <1>2 DEF TabDataOK
<1>4. PICK k \in TabRecords : tab' = [tab EXCEPT ![t] = k] /\ k.at = "leaving" /\ k.lock = ".freeze-lock"
  BY <1>2, LeavesEffect DEF Freeze
<1>5. Inside(tab[t])
  BY <1>2 DEF Inside
<1>6. FilesOK(t, k)
  <2>1. TabLockOK(t, k, lock', guard', life)
    BY <1>1, <1>2, <1>4, <1>5 DEF TabLockOK, Guarding, lockVars
  <2> QED
    BY <1>1, <1>2, <1>4, <2>1 DEF FilesOK, lockVars, LockTypeOK, Guarding
<1>7. LockInv'
  BY <1>1, <1>4, <1>6, LockFrame
<1>8. ASSUME NEW u \in Tabs PROVE TabDataOK(tab'[u], form'[u], workspace, DOMAIN frozen')
  <2>1. CASE u = t
    BY <1>1, <1>2, <1>4, <2>1 DEF TabDataOK
  <2>2. CASE u # t
    <3>1. TabDataOK(tab[u], form[u], workspace, DOMAIN frozen')
      BY <1>1, <1>5, <2>2, OthersHold
    <3>2. tab'[u] = tab[u] /\ form' = form
      BY <1>1, <1>2, <1>4, <2>2
    <3> QED
      BY <3>1, <3>2
  <2> QED
    BY <2>1, <2>2
<1>9. FrozenOK'
  <2>1. workspace.rows \in RowTables
    BY <1>1 DEF Good, Workspaces
  <2>2. DOMAIN workspace.rows \subseteq Cases
    BY <2>1, TableTypes
  <2>3. DOMAIN Frozen(workspace).rows \subseteq Cases
    BY <2>2 DEF Frozen, Restrict
  <2> QED
    BY <1>2, <1>3, <2>3 DEF StoreInv, FrozenOK
<1> QED
  BY <1>1, <1>2, <1>7, <1>8, <1>9 DEF StoreInv

LEMMA LeaveStore ==
  ASSUME StoreInv, NEW t \in Tabs, Leave(t)
  PROVE  StoreInv'
<1>1. CASE EnterGuard(tab[t].lock) /\ Goes(t, "comparing") /\ UNCHANGED form
  <2>1. PICK k \in TabRecords : /\ tab' = [tab EXCEPT ![t] = k] /\ k.at = "comparing"
                                /\ k.lock = tab[t].lock
    BY <1>1, GoesEffect DEF Places
  <2>2. Inside(k) => Inside(tab[t])
    BY <2>1 DEF Leave, Inside
  <2> QED
    BY <1>1, <2>1, <2>2, EnterStep DEF Leave
<1>2. CASE Return(t) /\ UNCHANGED lockVars
  BY <1>2, EndStep DEF Leave, Ending, QuietFiles
<1> QED
  BY <1>1, <1>2 DEF Leave

LEMMA UnlockStore ==
  ASSUME StoreInv, NEW t \in Tabs, Unlock(t)
  PROVE  StoreInv'
<1> DEFINE n == tab[t].lock
<1>1. n \in Locks /\ lock \in [Locks -> Owners \cup {Absent, Empty}]
  BY StoreFacts DEF LockTypeOK
<1>2. lock'[n] = lock[n] \/ lock[n] = Owner(t)
  BY <1>1 DEF Unlock, Remove
<1>3. \A u : Owner(u) = Owner(t) => u = t
  BY OwnerFacts
<1>4. QuietFiles(t)
  BY <1>2, <1>3 DEF QuietFiles, UnderGuard, Unlock, Guarding
<1> QED
  BY <1>4, EndStep DEF Unlock, Ending

LEMMA RecoveryStore ==
  ASSUME StoreInv, NEW t \in Tabs, Recovery(t)
  PROVE  StoreInv'
<1> DEFINE n == tab[t].lock
<1>1. /\ n \in Locks /\ lock \in [Locks -> Owners \cup {Absent, Empty}]
      /\ TabLockOK(t, tab[t], lock, guard, life)
      /\ TabDataOK(tab[t], form[t], workspace, DOMAIN frozen) /\ LockTypeOK
      /\ tab[t] \in TabRecords
  BY StoreFacts DEF LockTypeOK
<1>2. CASE Recover(t)
  <2>1. Goes(t, "recovering")
    BY <1>2 DEF Recover, Goes
  <2>2. PICK k \in TabRecords : tab' = [tab EXCEPT ![t] = k] /\ k.at = "recovering"
    BY <2>1, GoesEffect DEF Places
  <2>3. k.at \notin Guarding /\ ~Inside(k)
    BY <2>2 DEF Guarding, Inside
  <2>4. QuietFiles(t) /\ Shown(t) /\ UNCHANGED <<workspace, frozen, exposed>>
    BY <1>2 DEF Recover, QuietFiles, Shown
  <2> QED
    BY <2>2, <2>3, <2>4, QuietStep
<1>3. CASE EnterRecovery(t)
  <2>1. CASE EnterGuard(n) /\ Goes(t, "inspecting") /\ UNCHANGED form
    <3>1. PICK k \in TabRecords : tab' = [tab EXCEPT ![t] = k] /\ k.at = "inspecting" /\ k.lock = n
      BY <2>1, GoesEffect DEF Places
    <3>2. ~Inside(k)
      BY <3>1 DEF Inside
    <3> QED
      BY <1>3, <2>1, <3>1, <3>2, EnterStep DEF EnterRecovery
  <2>2. CASE Respond(t) /\ UNCHANGED lockVars
    BY <1>3, <2>2, EndStep DEF EnterRecovery, Ending, QuietFiles
  <2> QED
    BY <1>3, <2>1, <2>2 DEF EnterRecovery
<1>4. CASE Inspect(t)
  <2>1. CASE Recoverable(n) /\ Goes(t, "removing") /\ UNCHANGED <<lockVars, form>>
    <3>1. PICK k \in TabRecords : tab' = [tab EXCEPT ![t] = k] /\ k.at = "removing" /\ k.lock = n
      BY <2>1, GoesEffect DEF Places
    <3>2. tab[t].at = "inspecting" /\ guard[n]
      BY <1>1, <1>4 DEF Inspect, TabLockOK, Guarding
    <3>3. TabLockOK(t, k, lock', guard', life)
      BY <1>1, <2>1, <3>1, <3>2 DEF TabLockOK, Inside, Recoverable, Running, lockVars
    <3>4. FilesOK(t, k)
      BY <1>1, <2>1, <3>1, <3>2, <3>3 DEF FilesOK, lockVars, LockTypeOK, Guarding
    <3>5. TabDataOK(k, form'[t], workspace, DOMAIN frozen)
      BY <1>1, <2>1, <3>1 DEF TabDataOK
    <3> QED
      BY <1>4, <2>1, <3>1, <3>4, <3>5, StoreFrame DEF Inspect, Shown
  <2>2. CASE (NextRecovery(t) \/ Respond(t)) /\ LeaveGuard(n) /\ UNCHANGED <<lock, life>>
    <3>1. QuietFiles(t)
      BY <1>4, <2>2 DEF Inspect, QuietFiles, UnderGuard, Guarding
    <3> QED
      BY <1>4, <2>2, <3>1, EndStep DEF Inspect, Ending
  <2> QED
    BY <1>4, <2>1, <2>2 DEF Inspect
<1>5. CASE RemoveLock(t)
  <2>1. lock[n] \in Owners /\ life[lock[n][2]] # lock[n][3]
    BY <1>1, <1>5 DEF RemoveLock, TabLockOK
  <2>2. \A u \in Tabs : lock[n] # Owner(u)
    BY <2>1, OwnerFacts
  <2>3. QuietFiles(t)
    BY <1>5, <2>2 DEF RemoveLock, QuietFiles, UnderGuard, Guarding
  <2> QED
    BY <1>5, <2>3, EndStep DEF RemoveLock, Ending
<1> QED
  BY <1>2, <1>3, <1>4, <1>5 DEF Recovery

LEMMA ShowStore ==
  ASSUME StoreInv, NEW t \in Tabs, Show(t)
  PROVE  StoreInv'
<1>1. form \in [Tabs -> Nat] /\ workspace.revision \in Nat
  BY StoreFacts
<1>2. UNCHANGED <<lock, guard, life, workspace, frozen, tab, exposed>>
  BY DEF Show, lockVars
<1>3. form' \in [Tabs -> Nat] /\ form'[t] = workspace.revision
      /\ \A u \in Tabs : u # t => form'[u] = form[u]
  BY <1>1 DEF Show
<1>4. TabDataOK(tab[t], form'[t], workspace, DOMAIN frozen)
  BY <1>1, <1>3, IdleRecord DEF Show, TabDataOK
<1>5. \A u \in Tabs : TabDataOK(tab[u], form'[u], workspace, DOMAIN frozen)
  BY <1>3, <1>4 DEF StoreInv
<1>6. LockInv'
  BY <1>2 DEF StoreInv, LockInv, LockTypeOK
<1> QED
  BY <1>2, <1>3, <1>5, <1>6 DEF StoreInv, FrozenOK

(* A process that dies leaves its files: the one it signed names a life    *)
(* that is over, which nothing can bring back.                             *)
LEMMA CrashStore ==
  ASSUME StoreInv, NEW t \in Tabs, Crash(t)
  PROVE  StoreInv'
<1>1. /\ LockInv /\ LockTypeOK /\ tab \in [Tabs -> TabRecords] /\ form \in [Tabs -> Nat]
      /\ workspace.revision \in Nat
      /\ tab' = [tab EXCEPT ![t] = Idle] /\ form' = [form EXCEPT ![t] = workspace.revision]
      /\ life[t] < MaxLives /\ life' = [life EXCEPT ![t] = @ + 1] /\ lock' = lock /\ guard' = guard
      /\ UNCHANGED <<workspace, frozen, exposed>>
  BY StoreFacts DEF Crash, Restart, Respond
<1>2. /\ tab' \in [Tabs -> TabRecords] /\ tab'[t] = Idle
      /\ \A u \in Tabs : u # t => tab'[u] = tab[u] /\ form'[u] = form[u] /\ life'[u] = life[u]
      /\ form' \in [Tabs -> Nat] /\ form'[t] = workspace.revision
  BY <1>1, IdleRecord DEF LockTypeOK
<1>3. LockTypeOK' /\ \A u \in Tabs : life[u] \in Nat /\ life'[u] \in Nat /\ life[u] <= life'[u]
  BY <1>1, LockAssumption DEF LockTypeOK
<1>4. ~Inside(Idle) /\ Idle.at \notin Guarding /\ Idle.at \notin {"created", "removing", "staged"}
      /\ Idle.lock = ".write-lock"
  BY IdleRecord DEF Inside, Guarding
<1>5. \A n \in Locks : lock[n] \in Owners =>
        /\ lock[n][2] \in Tabs /\ lock[n][3] \in Nat /\ lock[n][3] <= life[lock[n][2]]
  BY <1>1, OwnerFacts, LockAssumption DEF LockInv
<1>6. ASSUME NEW n \in Locks, lock[n] \in Owners PROVE lock[n][3] <= life'[lock[n][2]]
  BY <1>3, <1>5, <1>6
<1>7. ASSUME NEW u \in Tabs PROVE TabLockOK(u, tab'[u], lock', guard', life')
  <2>1. CASE u = t
    BY <1>2, <1>4, <2>1 DEF TabLockOK
  <2>2. CASE u # t
    <3>1. TabLockOK(u, tab[u], lock, guard, life) /\ tab'[u] = tab[u] /\ life'[u] = life[u]
          /\ tab[u].lock \in Locks
      BY <1>1, <1>2, <2>2 DEF LockInv, TabRecords
    <3>2. ASSUME tab[u].at = "removing" PROVE life'[lock[tab[u].lock][2]] # lock[tab[u].lock][3]
      <4>1. PICK o : o = lock[tab[u].lock]
        OBVIOUS
      <4>2. o \in Owners /\ life[o[2]] # o[3]
        BY <3>1, <3>2, <4>1 DEF TabLockOK
      <4>3. o[2] \in Tabs /\ o[3] \in Nat /\ o[3] <= life[o[2]]
        BY <1>5, <3>1, <4>1, <4>2
      <4>4. life[o[2]] \in Nat /\ life'[o[2]] \in Nat /\ life[o[2]] <= life'[o[2]]
        BY <1>3, <4>3
      <4> QED
        BY <4>1, <4>2, <4>3, <4>4
    <3> QED
      BY <1>1, <3>1, <3>2 DEF TabLockOK
  <2> QED
    BY <2>1, <2>2
<1>8. \A u, v \in Tabs : /\ u # v /\ tab'[u].at \in Guarding /\ tab'[v].at \in Guarding
                         => tab'[u].lock # tab'[v].lock
  BY <1>1, <1>2, <1>4 DEF LockInv
<1>9. LockInv'
  BY <1>1, <1>2, <1>3, <1>6, <1>7, <1>8 DEF LockInv
<1>10. ASSUME NEW u \in Tabs PROVE TabDataOK(tab'[u], form'[u], workspace, DOMAIN frozen)
  <2>1. CASE u = t
    BY <1>1, <1>2, <1>4, <2>1, IdleRecord DEF TabDataOK
  <2>2. CASE u # t
    BY <1>2, <2>2 DEF StoreInv
  <2> QED
    BY <2>1, <2>2
<1> QED
  BY <1>1, <1>2, <1>9, <1>10 DEF StoreInv, FrozenOK

LEMMA ClearGuardStore ==
  ASSUME StoreInv, NEW n \in Locks, ClearGuard(n)
  PROVE  StoreInv'
<1>1. /\ LockInv /\ LockTypeOK
      /\ UNCHANGED <<lock, life, workspace, frozen, tab, form, exposed>>
      /\ guard' = [guard EXCEPT ![n] = FALSE] /\ \A t \in Tabs : tab[t] = Idle
  BY DEF StoreInv, LockInv, ClearGuard, RemoveGuard, LeaveGuard, authoringVars
<1>2. ~Inside(Idle) /\ Idle.at \notin Guarding /\ Idle.at \notin {"created", "removing"}
  BY IdleRecord DEF Inside, Guarding
<1>3. LockTypeOK'
  BY <1>1 DEF LockTypeOK
<1>4. \A t \in Tabs : TabLockOK(t, tab[t], lock, guard', life)
  BY <1>1, <1>2 DEF TabLockOK
<1>5. LockInv'
  BY <1>1, <1>3, <1>4 DEF LockInv
<1> QED
  BY <1>1, <1>5 DEF StoreInv, FrozenOK

LEMMA InitStore ==
  ASSUME StoreInit
  PROVE  StoreInv
<1>1. /\ lock = [n \in Locks |-> Absent] /\ guard = [n \in Locks |-> FALSE]
      /\ life = [t \in Tabs |-> 1] /\ workspace = NoWorkspace /\ frozen = <<>>
      /\ tab = [t \in Tabs |-> Idle] /\ form = [t \in Tabs |-> 0] /\ exposed = {}
  BY DEF StoreInit, LockInit
<1>2. LockTypeOK
  BY <1>1, LockAssumption DEF LockTypeOK
<1>3. ~Inside(Idle) /\ Idle.at \notin Guarding /\ Idle.at = "idle"
      /\ Idle.lock = ".write-lock" /\ Idle \in TabRecords
  BY IdleRecord DEF Inside, Guarding
<1>4. \A t \in Tabs : TabLockOK(t, tab[t], lock, guard, life)
  BY <1>1, <1>3 DEF TabLockOK
<1>5. LockInv
  BY <1>1, <1>2, <1>3, <1>4, OwnerFacts DEF LockInv
<1>6. Good(workspace) /\ DOMAIN workspace.rows = {} /\ workspace.revision = 0
  BY <1>1, NoWorkspaceGood DEF NoWorkspace
<1>7. validateWorkspace(workspace)
  BY <1>6 DEF validateWorkspace, inspectionRestricted
<1>8. \A t \in Tabs : TabDataOK(tab[t], form[t], workspace, DOMAIN frozen)
  BY <1>1, <1>3, <1>6 DEF TabDataOK
<1>9. FrozenOK
  <2>1. DOMAIN frozen = {}
    BY <1>1
  <2> QED
    BY <2>1 DEF FrozenOK
<1> QED
  BY <1>1, <1>5, <1>6, <1>7, <1>8, <1>9 DEF StoreInv

LEMMA CommandStore ==
  ASSUME StoreInv, NEW t \in Tabs, Command(t)
  PROVE  StoreInv'
BY ShowStore, AskStore, AcquireStore, WriteOwnershipStore, RefuseStore, StageStore, ReplaceStore,
   AskFreezeStore, StageFreezeStore, FreezeStore, LeaveStore, UnlockStore DEF Command

LEMMA NextStore ==
  ASSUME StoreInv, StoreNext
  PROVE  StoreInv'
BY CommandStore, RecoveryStore, CrashStore, ClearGuardStore DEF StoreNext

LEMMA SameStore ==
  ASSUME StoreInv, UNCHANGED storeVars
  PROVE  StoreInv'
BY DEF StoreInv, LockInv, LockTypeOK, FrozenOK, storeVars, lockVars, authoringVars

(* The store's part of the specification, whatever the runners do. *)
LEMMA StoreAlways == Spec => []StoreInv
<1>1. Init => StoreInv
  BY InitStore DEF Init
<1>2. StoreInv /\ [Next]_vars => StoreInv'
  BY NextStore, SameStore DEF Next, StoreStep, Evaluate, vars
<1> QED
  BY <1>1, <1>2, PTL DEF Spec

LEMMA StoreIsTyped ==
  ASSUME StoreInv
  PROVE  StoreTypeOK
<1>1. /\ LockTypeOK /\ tab \in [Tabs -> TabRecords] /\ Good(workspace) /\ validateWorkspace(workspace)
      /\ DOMAIN frozen \subseteq Versions /\ \A t \in Tabs : form[t] \in 0 .. workspace.revision
  BY DEF StoreInv, LockInv, FrozenOK, TabDataOK
<1>2. workspace.revision \in 0 .. MaxRevision /\ workspace.rows \in RowTables
      /\ workspace.history \subseteq History
  BY <1>1 DEF Good, Workspaces
<1>3. IsWorkspace(workspace)
  BY <1>2, TableTypes DEF IsWorkspace
<1>4. \A t \in Tabs : tab[t].at \in Places /\ tab[t].lock \in Locks
  BY <1>1 DEF TabRecords
<1> QED
  BY <1>1, <1>3, <1>4 DEF StoreTypeOK, Places

(* No key of a held-out case was ever connected to an inspected case: what *)
(* was exposed is inspected in the saved workspace, which validates.       *)
THEOREM HeldOutUnseen == Spec => []UnseenHeldOut
<1>1. StoreInv => UnseenHeldOut
  <2> SUFFICES ASSUME StoreInv, NEW c \in DOMAIN workspace.rows,
                      workspace.rows[c].split = "held-out"
               PROVE  RowKeys(workspace, c) \cap exposed = {}
    BY DEF UnseenHeldOut
  <2>1. c \notin inspectionRestricted(workspace)
    BY DEF StoreInv, validateWorkspace
  <2>2. RowKeys(workspace, c) \cap Inspected(workspace) = {}
    BY <2>1 DEF inspectionRestricted
  <2> QED
    BY <2>2 DEF StoreInv
<1> QED
  BY <1>1, StoreAlways, PTL

(* What AtomicEdits says of a step.                                        *)
Edit == /\ workspace' # workspace =>
             /\ workspace'.revision = workspace.revision + 1
             /\ \E t \in Tabs : /\ tab[t].at = "staged" /\ tab[t].next = workspace'
                                /\ form[t] = workspace.revision
        /\ \A v \in DOMAIN frozen : v \in DOMAIN frozen' /\ frozen'[v] = frozen[v]
        /\ \A v \in DOMAIN frozen' \ DOMAIN frozen : frozen'[v] = Frozen(workspace)

LEMMA EditsAreAtomic ==
  ASSUME StoreInv, StoreNext
  PROVE  Edit
<1>1. CASE UNCHANGED <<workspace, frozen>>
  BY <1>1 DEF Edit
<1>2. ASSUME NEW t \in Tabs, Replace(t) PROVE Edit
  <2>1. /\ tab[t].at = "staged" /\ tab[t].lock = ".write-lock" /\ workspace' = tab[t].next
        /\ frozen' = frozen
    BY <1>2 DEF Replace
  <2>2. workspace'.revision = workspace.revision + 1 /\ form[t] = workspace.revision
    BY <2>1, StoreFacts DEF TabDataOK, Succeeds
  <2> QED
    BY <2>1, <2>2 DEF Edit
<1>3. ASSUME NEW t \in Tabs, Freeze(t) PROVE Edit
  <2>1. PICK v : v = tab[t].version
    OBVIOUS
  <2>2. /\ tab[t].at = "staged" /\ tab[t].lock = ".freeze-lock" /\ workspace' = workspace
        /\ frozen' = [x \in DOMAIN frozen \cup {v} |->
                        IF x = v THEN Frozen(tab[t].next) ELSE frozen[x]]
    BY <1>3, <2>1 DEF Freeze
  <2>3. v \notin DOMAIN frozen /\ tab[t].next = workspace
    BY <2>1, <2>2, StoreFacts DEF TabDataOK
  <2> QED
    BY <2>2, <2>3 DEF Edit
<1>4. ASSUME NEW t \in Tabs, Command(t), ~Replace(t), ~Freeze(t) PROVE UNCHANGED <<workspace, frozen>>
  BY <1>4 DEF Command, Show, Ask, Acquire, WriteOwnership, Refuse, Stage, AskFreeze, StageFreeze,
              Leave, Unlock
<1>5. ASSUME NEW t \in Tabs, Recovery(t) \/ Crash(t) PROVE UNCHANGED <<workspace, frozen>>
  BY <1>5 DEF Recovery, Recover, EnterRecovery, Inspect, RemoveLock, Crash
<1>6. ASSUME NEW n \in Locks, ClearGuard(n) PROVE UNCHANGED <<workspace, frozen>>
  BY <1>6 DEF ClearGuard, authoringVars
<1> QED
  BY <1>1, <1>2, <1>3, <1>4, <1>5, <1>6 DEF StoreNext

(* No edit is lost: the workspace is replaced by its next revision, made   *)
(* from a page that showed the one replaced, and what is frozen is what is *)
(* saved.                                                                  *)
THEOREM EditsNeverLost == Spec => AtomicEdits
<1>1. StoreInv /\ [Next]_vars => [Edit]_storeVars
  BY EditsAreAtomic DEF Next, StoreStep, Evaluate, vars
<1> QED
  BY <1>1, StoreAlways, PTL DEF Spec, AtomicEdits, Edit

-----------------------------------------------------------------------------
(* What a summary counts.                                                  *)

Outcome == Answers \cup Failures \cup {Unstarted, Pending}

(* The same scores, for any trials and cases. *)
UpTo(tr, c, k) == /\ k \in 0 .. Trials
                  /\ \A i \in 1 .. k : Decided(tr[<<c, i>>])
                  /\ k < Trials => ~Decided(tr[<<c, k + 1>>])
OutcomesOf(tr, c) ==
  LET n == CHOOSE k \in 0 .. Trials :
             /\ \A i \in 1 .. k : Decided(tr[<<c, i>>])
             /\ k < Trials => ~Decided(tr[<<c, k + 1>>])
  IN  [i \in 1 .. n |-> tr[<<c, i>>]]
CountsOf(cs, tr) ==
  LET scored == {s \in cs \X (1 .. Trials) : s[2] \in DOMAIN OutcomesOf(tr, s[1])}
      passed == {c \in cs : Len(OutcomesOf(tr, c)) = Trials /\ Passes(c, OutcomesOf(tr, c))}
  IN  [cases |-> Cardinality(cs),
       valid |-> Cardinality({s \in scored : tr[s] \in Answers}),
       invalid |-> Cardinality({s \in scored : tr[s] = Invalid}),
       unresolvedTrials |-> Cardinality({s \in scored : tr[s] = Unverified}),
       missing |-> Cardinality(cs) * Trials - Cardinality(scored),
       passed |-> Cardinality(passed),
       goldenRequirementsPass |-> cs # {} /\ passed = cs]

LEMMA CountsAreOf == Counts = CountsOf(CaseSet, trials)
<1>1. \A c : Outcomes(c) = OutcomesOf(trials, c)
  BY DEF Outcomes, OutcomesOf
<1> QED
  BY <1>1 DEF Counts, CountsOf

LEMMA FirstMissing ==
  ASSUME NEW tr, NEW c
  PROVE  \E k : UpTo(tr, c, k)
<1>1. Trials \in Nat \ {0}
  BY EvaluationAssumption
<1> DEFINE V == {k \in 0 .. Trials : k = Trials \/ ~Decided(tr[<<c, k + 1>>])}
<1>2. Trials \in V /\ V \subseteq Nat
  BY <1>1
<1>3. PICK k \in V : \A j \in V : k <= j
  <2> HIDE DEF V
  <2> QED
    BY <1>2, LeastNumber
<1>4. k \in 0 .. Trials /\ (k < Trials => ~Decided(tr[<<c, k + 1>>]))
  BY <1>1, <1>3
<1>5. ASSUME NEW i \in 1 .. k PROVE Decided(tr[<<c, i>>])
  <2>1. i - 1 \in 0 .. Trials /\ i - 1 < k /\ i - 1 # Trials
    BY <1>1, <1>4
  <2>2. i - 1 \notin V
    BY <1>3, <1>4, <2>1
  <2>3. Decided(tr[<<c, (i - 1) + 1>>])
    BY <2>1, <2>2
  <2>4. (i - 1) + 1 = i
    BY <1>4
  <2> QED
    BY <2>3, <2>4
<1> QED
  BY <1>4, <1>5 DEF UpTo

LEMMA OutcomesAre ==
  ASSUME NEW tr, NEW c, NEW k, UpTo(tr, c, k)
  PROVE  OutcomesOf(tr, c) = [i \in 1 .. k |-> tr[<<c, i>>]]
<1>1. Trials \in Nat
  BY EvaluationAssumption
<1>2. ASSUME NEW j, UpTo(tr, c, j) PROVE j = k
  <2>1. j \in 0 .. Trials /\ k \in 0 .. Trials
    BY <1>2 DEF UpTo
  <2>2. ASSUME j < k PROVE FALSE
    <3>1. j + 1 \in 1 .. k /\ j < Trials
      BY <1>1, <2>1, <2>2
    <3> QED
      BY <1>2, <3>1 DEF UpTo
  <2>3. ASSUME k < j PROVE FALSE
    <3>1. k + 1 \in 1 .. j /\ k < Trials
      BY <1>1, <2>1, <2>3
    <3> QED
      BY <1>2, <3>1 DEF UpTo
  <2> QED
    BY <1>1, <2>1, <2>2, <2>3
<1> DEFINE n == CHOOSE j \in 0 .. Trials :
                  /\ \A i \in 1 .. j : Decided(tr[<<c, i>>])
                  /\ j < Trials => ~Decided(tr[<<c, j + 1>>])
<1>3. UpTo(tr, c, n)
  BY DEF UpTo
<1>4. n = k
  <2> HIDE DEF n
  <2> QED
    BY <1>2, <1>3
<1>5. OutcomesOf(tr, c) = [i \in 1 .. n |-> tr[<<c, i>>]]
  BY DEF OutcomesOf
<1> HIDE DEF n
<1> QED
  BY <1>4, <1>5

(* Counts look only at decided trials. *)
LEMMA SameCounts ==
  ASSUME NEW cs \in SUBSET Cases, NEW tr \in [Slots -> Outcome], NEW tr2 \in [Slots -> Outcome],
         \A s \in Slots : Decided(tr[s]) \/ Decided(tr2[s]) => tr2[s] = tr[s]
  PROVE  CountsOf(cs, tr2) = CountsOf(cs, tr)
<1>1. ASSUME NEW c \in cs
      PROVE  \E k \in 0 .. Trials :
               /\ OutcomesOf(tr, c) = [i \in 1 .. k |-> tr[<<c, i>>]]
               /\ OutcomesOf(tr2, c) = [i \in 1 .. k |-> tr[<<c, i>>]]
               /\ \A i \in 1 .. k : Decided(tr[<<c, i>>]) /\ tr2[<<c, i>>] = tr[<<c, i>>]
  <2>0. \A i \in 1 .. Trials : <<c, i>> \in Slots
    BY DEF Slots
  <2>1. PICK k : UpTo(tr, c, k)
    BY FirstMissing
  <2>2. Trials \in Nat /\ k \in 0 .. Trials
    BY <2>1, EvaluationAssumption DEF UpTo
  <2>3. \A i \in 1 .. k : Decided(tr[<<c, i>>]) /\ tr2[<<c, i>>] = tr[<<c, i>>]
    BY <2>0, <2>1, <2>2 DEF UpTo
  <2>4. k < Trials => ~Decided(tr2[<<c, k + 1>>])
    <3>1. ASSUME k < Trials PROVE <<c, k + 1>> \in Slots
      BY <2>0, <2>2, <3>1
    <3> QED
      BY <2>1, <3>1 DEF UpTo
  <2>5. UpTo(tr2, c, k)
    BY <2>2, <2>3, <2>4 DEF UpTo
  <2>6. OutcomesOf(tr, c) = [i \in 1 .. k |-> tr[<<c, i>>]]
    BY <2>1, OutcomesAre
  <2>7. OutcomesOf(tr2, c) = [i \in 1 .. k |-> tr2[<<c, i>>]]
    BY <2>5, OutcomesAre
  <2> QED
    BY <2>2, <2>3, <2>6, <2>7
<1>2. \A c \in cs : OutcomesOf(tr2, c) = OutcomesOf(tr, c)
  BY <1>1
<1> DEFINE scored == {s \in cs \X (1 .. Trials) : s[2] \in DOMAIN OutcomesOf(tr, s[1])}
           scored2 == {s \in cs \X (1 .. Trials) : s[2] \in DOMAIN OutcomesOf(tr2, s[1])}
           passed == {c \in cs : Len(OutcomesOf(tr, c)) = Trials /\ Passes(c, OutcomesOf(tr, c))}
           passed2 == {c \in cs : Len(OutcomesOf(tr2, c)) = Trials /\ Passes(c, OutcomesOf(tr2, c))}
<1>3. scored2 = scored
  BY <1>2
<1>4. ASSUME NEW s \in scored PROVE tr2[s] = tr[s]
  <2>1. PICK c \in cs, i \in 1 .. Trials : s = <<c, i>>
    OBVIOUS
  <2>2. i \in DOMAIN OutcomesOf(tr, c)
    BY <2>1
  <2> QED
    BY <1>1, <2>1, <2>2
<1>5. passed2 = passed
  BY <1>2
<1>6. /\ {s \in scored2 : tr2[s] \in Answers} = {s \in scored : tr[s] \in Answers}
      /\ {s \in scored2 : tr2[s] = Invalid} = {s \in scored : tr[s] = Invalid}
      /\ {s \in scored2 : tr2[s] = Unverified} = {s \in scored : tr[s] = Unverified}
  <2> HIDE DEF scored, scored2
  <2> QED
    BY <1>3, <1>4
<1>7. /\ CountsOf(cs, tr) =
           [cases |-> Cardinality(cs),
            valid |-> Cardinality({s \in scored : tr[s] \in Answers}),
            invalid |-> Cardinality({s \in scored : tr[s] = Invalid}),
            unresolvedTrials |-> Cardinality({s \in scored : tr[s] = Unverified}),
            missing |-> Cardinality(cs) * Trials - Cardinality(scored),
            passed |-> Cardinality(passed),
            goldenRequirementsPass |-> cs # {} /\ passed = cs]
      /\ CountsOf(cs, tr2) =
           [cases |-> Cardinality(cs),
            valid |-> Cardinality({s \in scored2 : tr2[s] \in Answers}),
            invalid |-> Cardinality({s \in scored2 : tr2[s] = Invalid}),
            unresolvedTrials |-> Cardinality({s \in scored2 : tr2[s] = Unverified}),
            missing |-> Cardinality(cs) * Trials - Cardinality(scored2),
            passed |-> Cardinality(passed2),
            goldenRequirementsPass |-> cs # {} /\ passed2 = cs]
  BY DEF CountsOf
<1> HIDE DEF scored, scored2, passed, passed2
<1> QED
  BY <1>3, <1>5, <1>6, <1>7

-----------------------------------------------------------------------------
(* The experiment and its runners.                                         *)

CasesOf(e) == {e.cases[i] : i \in DOMAIN e.cases}
IsExperiment(e) ==
  /\ e = [kind |-> e.kind, cases |-> e.cases, summary |-> e.summary]
  /\ e.cases \in Seq(Cases)
  /\ e = NoExperiment \/ (e.kind \in Kinds /\ Len(e.cases) > 0)

RunPlaces == {"next", "checking", "sending", "awaiting", "deciding", "decided", "advance"}
Undecided == {"checking", "sending", "awaiting", "deciding"}
IsRunner(r) ==
  /\ r = [at |-> r.at, op |-> r.op, case |-> r.case, index |-> r.index, saved |-> r.saved,
          seen |-> r.seen, summary |-> r.summary, failed |-> r.failed]
  /\ r.at \in RunPlaces \cup {"idle", "summing", "freezing", "writing"}
  /\ r.case \in Nat \ {0} /\ r.index \in 1 .. Trials /\ r.saved \in BOOLEAN
  /\ r.failed \subseteq Slots

SlotOf(e, r) == <<e.cases[r.case], r.index>>

(* What process q does, when the lock is o's, the experiment e and its     *)
(* trials tr: a trial that q is about to decide under its own lock is      *)
(* still pending, a failure ends its run, and while it holds the lock      *)
(* nobody else freezes a summary or decides a trial it counts.             *)
RunnerOK(q, r, o, e, tr) ==
  /\ r.at # "idle" => e.kind \in Kinds
  /\ q \in o => r.at # "idle"
  /\ r.at \in RunPlaces => r.case \in 1 .. Len(e.cases)
  /\ r.failed # {} => r.at = "decided" /\ tr[SlotOf(e, r)] = Invalid /\ r.saved = FALSE
  /\ r.at \in Undecided => /\ r.saved = FALSE
                           /\ q \in o => tr[SlotOf(e, r)] = Pending
  /\ q \in o /\ r.at \in RunPlaces => e.summary = {}
  /\ r.at \in {"summing", "freezing", "writing"} => e.kind = "appropriateness"
  /\ q \in o /\ r.at \in {"summing", "freezing"} => r.seen = e.summary
  /\ q \in o /\ r.at = "freezing" => /\ r.summary # {}
                                     /\ e.summary # {} => r.summary = e.summary
                                     /\ \A s \in r.summary : s.counts = CountsOf(CasesOf(e), tr)
  /\ r.at = "writing" => r.summary = e.summary /\ e.summary # {}

(* The summary is the evidence, in the database and in the file.           *)
EvidenceOK(e, tr, f) ==
  /\ e.kind # "appropriateness" => e.summary = {}
  /\ \A s \in e.summary : s.counts = CountsOf(CasesOf(e), tr)
  /\ f # {} => f = e.summary

EvalInv ==
  /\ IsExperiment(experiment)
  /\ trials \in [Slots -> Outcome] /\ sent \in [Slots -> 0 .. MaxSent] /\ unresolved \subseteq Slots
  /\ owner \subseteq Runners /\ \A p, q \in owner : p = q
  /\ runner = [q \in Runners |-> runner[q]]
  /\ \A q \in Runners : IsRunner(runner[q])
  /\ \A q \in Runners : RunnerOK(q, runner[q], owner, experiment, trials)
  /\ EvidenceOK(experiment, trials, file)

LEMMA OutcomesDiffer ==
  /\ \A o : Decided(o) => o # Unstarted /\ o # Pending
  /\ Invalid # Pending /\ Unverified # Pending /\ Invalid # Unverified
  /\ \A o \in Answers : o # Invalid /\ o # Unverified
  /\ \A o \in Outcome : Decided(o) \/ o = Unstarted \/ o = Pending
  /\ Invalid \in Failures /\ Unverified \in Failures /\ Failures = {Invalid, Unverified}
  /\ Unstarted \in Outcome /\ Pending \in Outcome /\ Failures \subseteq Outcome /\ Answers \subseteq Outcome
BY EvaluationAssumption DEF Decided, Failures, Unstarted, Pending, Invalid, Unverified, Outcome

LEMMA EvalFacts ==
  ASSUME EvalInv, NEW q \in Runners
  PROVE  /\ IsRunner(runner[q]) /\ RunnerOK(q, runner[q], owner, experiment, trials)
         /\ runner[q].at # "idle" => experiment.kind \in Kinds /\ experiment # NoExperiment
         /\ runner[q].at \in RunPlaces => /\ Slot(q) \in Slots /\ Slot(q) = SlotOf(experiment, runner[q])
                                          /\ trials[Slot(q)] \in Outcome
<1>1. IsRunner(runner[q]) /\ RunnerOK(q, runner[q], owner, experiment, trials)
  BY DEF EvalInv
<1>2. runner[q].at # "idle" => experiment.kind \in Kinds
  BY <1>1 DEF RunnerOK
<1>3. NoExperiment.kind \notin Kinds
  BY DEF NoExperiment, Kinds
<1>4. Slot(q) = SlotOf(experiment, runner[q])
  BY DEF Slot, SlotOf
<1>5. ASSUME runner[q].at \in RunPlaces PROVE Slot(q) \in Slots
  <2>1. runner[q].case \in 1 .. Len(experiment.cases) /\ experiment.cases \in Seq(Cases)
        /\ runner[q].index \in 1 .. Trials
    BY <1>1, <1>5 DEF RunnerOK, EvalInv, IsExperiment, IsRunner
  <2>2. experiment.cases[runner[q].case] \in Cases
    BY <2>1
  <2> QED
    BY <2>1, <2>2 DEF Slot, Slots
<1> QED
  BY <1>1, <1>2, <1>3, <1>4, <1>5 DEF EvalInv

(* Another process keeps what it has: what is decided stays, and nobody    *)
(* but the owner decides or freezes.                                       *)
LEMMA RunnerFrame ==
  ASSUME NEW q, NEW r, IsRunner(r), NEW o, NEW e, NEW tr, NEW o2, NEW e2, NEW tr2,
         RunnerOK(q, r, o, e, tr), IsExperiment(e),
         q \in o2 => q \in o,
         e2.kind = e.kind, e2.cases = e.cases, e.summary # {} => e2.summary = e.summary,
         \A s \in Slots : Decided(tr[s]) => tr2[s] = tr[s],
         q \in o => /\ e2.summary = e.summary
                    /\ \A s \in Slots : tr[s] = Pending => tr2[s] = Pending
                    /\ CountsOf(CasesOf(e2), tr2) = CountsOf(CasesOf(e), tr)
  PROVE  RunnerOK(q, r, o2, e2, tr2)
<1>1. SlotOf(e2, r) = SlotOf(e, r)
  BY DEF SlotOf
<1>2. ASSUME r.at \in RunPlaces PROVE SlotOf(e, r) \in Slots
  <2>1. r.case \in 1 .. Len(e.cases) /\ e.cases \in Seq(Cases) /\ r.index \in 1 .. Trials
    BY <1>2 DEF RunnerOK, IsExperiment, IsRunner
  <2>2. e.cases[r.case] \in Cases
    BY <2>1
  <2> QED
    BY <2>1, <2>2 DEF SlotOf, Slots
<1>3. r.failed # {} => r.at = "decided" /\ tr2[SlotOf(e2, r)] = Invalid /\ r.saved = FALSE
  <2>1. Decided(Invalid) /\ "decided" \in RunPlaces
    BY OutcomesDiffer DEF Decided, RunPlaces
  <2> QED
    BY <1>1, <1>2, <2>1 DEF RunnerOK
<1>4. r.at \in Undecided => /\ r.saved = FALSE
                            /\ q \in o2 => tr2[SlotOf(e2, r)] = Pending
  <2>1. Undecided \subseteq RunPlaces
    BY DEF Undecided, RunPlaces
  <2> QED
    BY <1>1, <1>2, <2>1 DEF RunnerOK
<1>5. q \in o2 => \A s \in r.summary : s.counts = CountsOf(CasesOf(e), tr) =>
                    s.counts = CountsOf(CasesOf(e2), tr2)
  OBVIOUS
<1> QED
  BY <1>3, <1>4, <1>5 DEF RunnerOK

(* One process's step.                                                     *)
LEMMA RunnerChanges ==
  ASSUME EvalInv, NEW q \in Runners, NEW k, IsRunner(k), runner' = [runner EXCEPT ![q] = k],
         RunnerOK(q, k, owner', experiment', trials'),
         owner' \subseteq owner \/ (owner = {} /\ owner' = {q}),
         IsExperiment(experiment'),
         experiment'.kind = experiment.kind, experiment'.cases = experiment.cases,
         experiment.summary # {} => experiment'.summary = experiment.summary,
         trials' \in [Slots -> Outcome],
         \A s \in Slots : Decided(trials[s]) => trials'[s] = trials[s],
         q \notin owner => /\ experiment'.summary = experiment.summary
                           /\ \A s \in Slots : trials[s] = Pending => trials'[s] = Pending
                           /\ CountsOf(CasesOf(experiment'), trials') = CountsOf(CasesOf(experiment), trials),
         sent' \in [Slots -> 0 .. MaxSent], unresolved' \subseteq Slots,
         EvidenceOK(experiment', trials', file')
  PROVE  EvalInv'
<1>1. runner' = [u \in Runners |-> runner'[u]] /\ runner'[q] = k
      /\ \A u \in Runners : u # q => runner'[u] = runner[u]
  BY DEF EvalInv
<1>2. owner' \subseteq Runners /\ \A u, v \in owner' : u = v
  BY DEF EvalInv
<1>3. ASSUME NEW u \in Runners
      PROVE  IsRunner(runner'[u]) /\ RunnerOK(u, runner'[u], owner', experiment', trials')
  <2>1. CASE u = q
    BY <1>1, <2>1
  <2>2. CASE u # q
    <3>1. IsRunner(runner[u]) /\ RunnerOK(u, runner[u], owner, experiment, trials) /\ IsExperiment(experiment)
          /\ runner'[u] = runner[u]
      BY <1>1, <2>2 DEF EvalInv
    <3>2. (u \in owner' => u \in owner) /\ (u \in owner => q \notin owner)
      BY <2>2 DEF EvalInv
    <3>3. RunnerOK(u, runner[u], owner', experiment', trials')
      BY <3>1, <3>2, RunnerFrame
    <3> QED
      BY <3>1, <3>3
  <2> QED
    BY <2>1, <2>2
<1> QED
  BY <1>1, <1>2, <1>3 DEF EvalInv

(* A step that decides nothing.                                            *)
LEMMA RunnerMoves ==
  ASSUME EvalInv, NEW q \in Runners, NEW k, IsRunner(k), runner' = [runner EXCEPT ![q] = k],
         RunnerOK(q, k, owner', experiment, trials),
         owner' \subseteq owner \/ (owner = {} /\ owner' = {q}),
         UNCHANGED <<experiment, trials, file>>,
         sent' \in [Slots -> 0 .. MaxSent], unresolved' \subseteq Slots
  PROVE  EvalInv'
<1>1. /\ IsExperiment(experiment') /\ trials' \in [Slots -> Outcome]
      /\ EvidenceOK(experiment', trials', file')
      /\ experiment' = experiment /\ trials' = trials
      /\ RunnerOK(q, k, owner', experiment', trials')
  BY DEF EvalInv
<1> QED
  BY <1>1, RunnerChanges

LEMMA StepEffect ==
  ASSUME EvalInv, NEW q \in Runners, NEW at \in RunPlaces \cup {"summing", "freezing", "writing"},
         Step(q, at)
  PROVE  \E k : /\ IsRunner(k) /\ runner' = [runner EXCEPT ![q] = k] /\ k.at = at
                /\ k.op = runner[q].op /\ k.case = runner[q].case /\ k.index = runner[q].index
                /\ k.saved = runner[q].saved /\ k.seen = runner[q].seen
                /\ k.summary = runner[q].summary /\ k.failed = runner[q].failed
<1>1. PICK r : r = runner[q]
  OBVIOUS
<1>2. IsRunner(r)
  BY <1>1, EvalFacts
<1>3. PICK k : k = [r EXCEPT !.at = at]
  OBVIOUS
<1>4. k = [at |-> at, op |-> r.op, case |-> r.case, index |-> r.index, saved |-> r.saved,
           seen |-> r.seen, summary |-> r.summary, failed |-> r.failed]
  BY <1>2, <1>3 DEF IsRunner
<1>5. IsRunner(k)
  BY <1>2, <1>4 DEF IsRunner
<1>6. runner' = [runner EXCEPT ![q] = k]
  BY <1>1, <1>3 DEF Step
<1>7. /\ k.at = at /\ k.op = r.op /\ k.case = r.case /\ k.index = r.index /\ k.saved = r.saved
      /\ k.seen = r.seen /\ k.summary = r.summary /\ k.failed = r.failed
  BY <1>4
<1> QED
  BY <1>1, <1>5, <1>6, <1>7, Zenon

LEMMA QuietRunner ==
  /\ IsRunner(Quiet) /\ Quiet.at = "idle" /\ Quiet.failed = {} /\ Quiet.case = 1 /\ Quiet.index = 1
  /\ Quiet.saved = FALSE /\ Quiet.summary = {}
BY EvaluationAssumption DEF Quiet, IsRunner

LEMMA QuietOK ==
  ASSUME NEW q, NEW o, q \notin o, NEW e, NEW tr
  PROVE  RunnerOK(q, Quiet, o, e, tr)
BY QuietRunner DEF RunnerOK, RunPlaces, Undecided

(* A process ends, wherever it is. *)
LEMMA EndEval ==
  ASSUME EvalInv, NEW q \in Runners, End(q), UNCHANGED <<experimentVars, file>>
  PROVE  EvalInv'
<1>1. runner' = [runner EXCEPT ![q] = Quiet] /\ owner' = owner \ {q}
  BY DEF End
<1>2. RunnerOK(q, Quiet, owner', experiment, trials)
  BY <1>1, QuietOK
<1>3. sent' \in [Slots -> 0 .. MaxSent] /\ unresolved' \subseteq Slots
  BY DEF EvalInv, experimentVars
<1> QED
  BY <1>1, <1>2, <1>3, QuietRunner, RunnerMoves DEF experimentVars

LEMMA LockEval ==
  ASSUME EvalInv, NEW q \in Runners, NEW op \in {"run", "recover", "finalize"}, Lock(q, op)
  PROVE  EvalInv'
<1>1. /\ runner[q] = Quiet /\ owner = {} /\ experiment # NoExperiment /\ owner' = {q}
      /\ op = "run" => experiment.summary = {}
      /\ op = "recover" => experiment.kind = "luna"
      /\ op = "finalize" => experiment.kind = "appropriateness"
      /\ UNCHANGED <<experiment, trials, sent, unresolved, file>>
  BY DEF Lock, experimentVars
<1>2. PICK at : at = IF op = "finalize" THEN "summing" ELSE "next"
  OBVIOUS
<1>3. runner' = [runner EXCEPT ![q].op = op, ![q].seen = experiment.summary, ![q].at = at]
  BY <1>2 DEF Lock
<1>4. PICK r, k : /\ r = runner[q]
                  /\ k = [at |-> at, op |-> op, case |-> r.case, index |-> r.index, saved |-> r.saved,
                          seen |-> experiment.summary, summary |-> r.summary, failed |-> r.failed]
  OBVIOUS
<1>5. runner' = [runner EXCEPT ![q] = k]
  <2>1. IsRunner(r)
    BY <1>4, EvalFacts
  <2>2. PICK one : one = [r EXCEPT !.op = op]
    OBVIOUS
  <2>3. one = [at |-> r.at, op |-> op, case |-> r.case, index |-> r.index, saved |-> r.saved,
               seen |-> r.seen, summary |-> r.summary, failed |-> r.failed]
    BY <2>1, <2>2 DEF IsRunner
  <2>4. PICK both : both = [one EXCEPT !.seen = experiment.summary]
    OBVIOUS
  <2>5. both = [at |-> r.at, op |-> op, case |-> r.case, index |-> r.index, saved |-> r.saved,
                seen |-> experiment.summary, summary |-> r.summary, failed |-> r.failed]
    BY <2>3, <2>4
  <2>6. k = [both EXCEPT !.at = at]
    BY <1>4, <2>5
  <2>7. runner = [u \in Runners |-> runner[u]]
    BY DEF EvalInv
  <2> QED
    BY <1>3, <1>4, <2>2, <2>4, <2>6, <2>7
<1>11. /\ k.at = at /\ k.case = 1 /\ k.index = 1 /\ k.saved = FALSE /\ k.seen = experiment.summary
       /\ k.summary = {} /\ k.failed = {}
  BY <1>1, <1>4, QuietRunner
<1>6. IsRunner(k)
  <2>1. k = [at |-> k.at, op |-> k.op, case |-> k.case, index |-> k.index, saved |-> k.saved,
             seen |-> k.seen, summary |-> k.summary, failed |-> k.failed]
    BY <1>4
  <2>2. k.at \in RunPlaces \cup {"idle", "summing", "freezing", "writing"}
    BY <1>2, <1>11 DEF RunPlaces
  <2>3. k.case \in Nat \ {0} /\ k.index \in 1 .. Trials /\ k.failed \subseteq Slots
    BY <1>11, EvaluationAssumption
  <2>4. k.saved \in BOOLEAN
    BY <1>11
  <2> QED
    BY <2>1, <2>2, <2>3, <2>4 DEF IsRunner
<1>7. experiment.kind \in Kinds /\ Len(experiment.cases) > 0 /\ Len(experiment.cases) \in Nat
  BY <1>1 DEF EvalInv, IsExperiment
<1>8. op # "finalize" => experiment.summary = {}
  BY <1>1 DEF EvalInv, EvidenceOK
<1>9. RunnerOK(q, k, owner', experiment, trials)
  BY <1>1, <1>2, <1>11, <1>7, <1>8 DEF RunnerOK, RunPlaces, Undecided
<1>10. sent' \in [Slots -> 0 .. MaxSent] /\ unresolved' \subseteq Slots
  BY <1>1 DEF EvalInv
<1> QED
  BY <1>1, <1>5, <1>6, <1>9, <1>10, RunnerMoves

(* A process goes on to a place where it needs no more than it has.        *)
LEMMA GoesOnEval ==
  ASSUME EvalInv, NEW q \in Runners, NEW at \in RunPlaces, Step(q, at), runner[q].at \in RunPlaces,
         at \in Undecided => runner[q].at \in Undecided,
         runner[q].failed = {},
         UNCHANGED <<experiment, trials, owner, file>>,
         sent' \in [Slots -> 0 .. MaxSent], unresolved' \subseteq Slots
  PROVE  EvalInv'
<1>1. PICK k : /\ IsRunner(k) /\ runner' = [runner EXCEPT ![q] = k] /\ k.at = at
               /\ k.case = runner[q].case /\ k.index = runner[q].index /\ k.saved = runner[q].saved
               /\ k.failed = runner[q].failed
  BY StepEffect
<1>2. RunnerOK(q, runner[q], owner, experiment, trials)
  BY EvalFacts
<1>3. SlotOf(experiment, k) = SlotOf(experiment, runner[q])
  BY <1>1 DEF SlotOf
<1>4. RunnerOK(q, k, owner, experiment, trials)
  BY <1>1, <1>2, <1>3 DEF RunnerOK, RunPlaces
<1> QED
  BY <1>1, <1>4, RunnerMoves

LEMMA SlotsFinite == IsFiniteSet(Slots)
<1>1. IsFiniteSet(1 .. Trials)
  BY EvaluationAssumption, FS_Interval
<1> QED
  BY <1>1, AuthoringAssumption, FS_Product DEF Slots

LEMMA SendEval ==
  ASSUME EvalInv, NEW q \in Runners, Send(q)
  PROVE  EvalInv'
<1>1. /\ runner[q].at = "sending" /\ SumOf(sent) < MaxSent
      /\ sent' = [sent EXCEPT ![Slot(q)] = @ + 1] /\ unresolved' = unresolved \cup {Slot(q)}
      /\ Step(q, "awaiting") /\ UNCHANGED <<experiment, trials, owner, file>>
  BY DEF Send
<1>2. runner[q].at \in RunPlaces /\ Slot(q) \in Slots /\ runner[q].failed = {}
  BY <1>1, EvalFacts DEF RunPlaces, RunnerOK
<1>3. sent \in [Slots -> 0 .. MaxSent] /\ sent \in [Slots -> Nat] /\ MaxSent \in Nat
  BY EvaluationAssumption DEF EvalInv
<1>4. SumOf(sent) \in Nat /\ sent[Slot(q)] <= SumOf(sent)
  BY <1>2, <1>3, SlotsFinite, SumBounds
<1>5. sent[Slot(q)] \in 0 .. MaxSent /\ sent[Slot(q)] + 1 \in 0 .. MaxSent
  BY <1>1, <1>2, <1>3, <1>4
<1>6. sent' \in [Slots -> 0 .. MaxSent]
  BY <1>1, <1>3, <1>5
<1>7. unresolved' \subseteq Slots
  BY <1>1, <1>2 DEF EvalInv
<1> QED
  BY <1>1, <1>2, <1>6, <1>7, GoesOnEval DEF RunPlaces, Undecided

LEMMA CheckEval ==
  ASSUME EvalInv, NEW q \in Runners, Check(q)
  PROVE  EvalInv'
<1>1. sent' \in [Slots -> 0 .. MaxSent] /\ unresolved' \subseteq Slots
  BY DEF Check, EvalInv, experimentVars
<1>2. runner[q].at = "checking" /\ runner[q].failed = {}
  BY EvalFacts DEF Check, RunnerOK
<1>3. CASE Step(q, "sending") /\ UNCHANGED owner
  BY <1>1, <1>2, <1>3, GoesOnEval DEF Check, RunPlaces, Undecided, experimentVars
<1>4. CASE End(q)
  BY <1>4, EndEval DEF Check
<1> QED
  BY <1>3, <1>4 DEF Check

LEMMA RecordChargeEval ==
  ASSUME EvalInv, NEW q \in Runners, RecordCharge(q)
  PROVE  EvalInv'
<1>1. sent' \in [Slots -> 0 .. MaxSent] /\ unresolved' \subseteq Slots
  BY DEF RecordCharge, EvalInv
<1>2. runner[q].at = "awaiting" /\ runner[q].failed = {}
  BY EvalFacts DEF RecordCharge, RunnerOK
<1> QED
  BY <1>1, <1>2, GoesOnEval DEF RecordCharge, RunPlaces, Undecided

LEMMA OpenTrialEval ==
  ASSUME EvalInv, NEW q \in Runners, OpenTrial(q)
  PROVE  EvalInv'
<1>1. /\ runner[q].at = "next" /\ UNCHANGED <<experiment, sent, unresolved, file>>
      /\ "next" \in RunPlaces
  BY DEF OpenTrial, RunPlaces
<1>2. /\ IsRunner(runner[q]) /\ RunnerOK(q, runner[q], owner, experiment, trials)
      /\ Slot(q) \in Slots /\ Slot(q) = SlotOf(experiment, runner[q]) /\ trials[Slot(q)] \in Outcome
      /\ trials \in [Slots -> Outcome] /\ IsExperiment(experiment)
  BY <1>1, EvalFacts DEF EvalInv
<1>3. runner[q].failed = {} /\ sent' \in [Slots -> 0 .. MaxSent] /\ unresolved' \subseteq Slots
  BY <1>1, <1>2 DEF RunnerOK, EvalInv
<1>4. CASE Step(q, "advance") /\ UNCHANGED <<trials, owner>>
  BY <1>1, <1>3, <1>4, GoesOnEval DEF RunPlaces, Undecided
<1>5. CASE End(q) /\ UNCHANGED trials
  BY <1>1, <1>5, EndEval DEF experimentVars
<1>6. ASSUME trials' = [trials EXCEPT ![Slot(q)] = IF @ = Unstarted THEN Pending ELSE @],
             runner' = [runner EXCEPT ![q].saved = Prior(trials[Slot(q)]),
                                      ![q].at = IF Decided(trials[Slot(q)]) THEN "decided" ELSE "checking"],
             UNCHANGED owner
      PROVE  EvalInv'
  <2>1. PICK r, o : r = runner[q] /\ o = trials[Slot(q)]
    OBVIOUS
  <2>2. PICK at, saved : at = (IF Decided(o) THEN "decided" ELSE "checking") /\ saved = Decided(o)
    OBVIOUS
  <2>3. PICK k : k = [at |-> at, op |-> r.op, case |-> r.case, index |-> r.index, saved |-> saved,
                      seen |-> r.seen, summary |-> r.summary, failed |-> r.failed]
    OBVIOUS
  <2>4. runner' = [runner EXCEPT ![q] = k]
    <3>1. PICK one : one = [r EXCEPT !.saved = saved]
      OBVIOUS
    <3>2. one = [at |-> r.at, op |-> r.op, case |-> r.case, index |-> r.index, saved |-> saved,
                 seen |-> r.seen, summary |-> r.summary, failed |-> r.failed]
      BY <1>2, <2>1, <3>1 DEF IsRunner
    <3>3. k = [one EXCEPT !.at = at]
      BY <2>3, <3>2
    <3>4. runner = [u \in Runners |-> runner[u]]
      BY DEF EvalInv
    <3>5. runner' = [runner EXCEPT ![q].saved = saved, ![q].at = at]
      BY <1>6, <2>1, <2>2 DEF Prior
    <3> QED
      BY <2>1, <3>1, <3>3, <3>4, <3>5
  <2>5. /\ k.at = at /\ k.case = r.case /\ k.index = r.index /\ k.saved = saved
        /\ k.failed = r.failed
    BY <2>3
  <2>6. IsRunner(k)
    <3>1. k = [at |-> k.at, op |-> k.op, case |-> k.case, index |-> k.index, saved |-> k.saved,
               seen |-> k.seen, summary |-> k.summary, failed |-> k.failed]
      BY <2>3
    <3>2. k.at \in RunPlaces
      BY <2>2, <2>5 DEF RunPlaces
    <3>3. k.saved \in BOOLEAN
      <4>1. saved \in BOOLEAN
        BY <2>2 DEF Decided
      <4> QED
        BY <2>5, <4>1
    <3>4. k.case \in Nat \ {0} /\ k.index \in 1 .. Trials /\ k.failed \subseteq Slots
      BY <1>2, <2>1, <2>5 DEF IsRunner
    <3> QED
      BY <3>1, <3>2, <3>3, <3>4 DEF IsRunner
  <2>7. /\ trials' \in [Slots -> Outcome]
        /\ \A s \in Slots : Decided(trials[s]) \/ Decided(trials'[s]) => trials'[s] = trials[s]
        /\ \A s \in Slots : trials[s] = Pending => trials'[s] = Pending
        /\ trials'[Slot(q)] = IF o = Unstarted THEN Pending ELSE o
    BY <1>2, <1>6, <2>1, OutcomesDiffer
  <2>8. CountsOf(CasesOf(experiment), trials') = CountsOf(CasesOf(experiment), trials)
    <3>1. CasesOf(experiment) \subseteq Cases
      BY <1>2 DEF CasesOf, IsExperiment
    <3> QED
      BY <1>2, <2>7, <3>1, SameCounts
  <2>9. k.at = "checking" => k.saved = FALSE /\ trials'[SlotOf(experiment, k)] = Pending
    <3>1. ASSUME k.at = "checking" PROVE ~Decided(o)
      BY <2>2, <2>5, <3>1
    <3>2. ASSUME ~Decided(o) PROVE saved = FALSE
      <4>1. (o \in Answers \cup Failures) = FALSE
        BY <3>2 DEF Decided
      <4> QED
        BY <2>2, <4>1 DEF Decided
    <3>3. ASSUME ~Decided(o) PROVE trials'[Slot(q)] = Pending
      BY <1>2, <2>1, <2>7, <3>3, OutcomesDiffer
    <3>4. SlotOf(experiment, k) = Slot(q)
      BY <1>2, <2>1, <2>5 DEF SlotOf
    <3> QED
      BY <2>5, <3>1, <3>2, <3>3, <3>4
  <2>10. RunnerOK(q, k, owner, experiment, trials')
    <3>1. k.at \in {"checking", "decided"} /\ k.failed = {} /\ k.case = runner[q].case
      BY <1>3, <2>1, <2>2, <2>5
    <3>2. /\ experiment.kind \in Kinds /\ runner[q].case \in 1 .. Len(experiment.cases)
          /\ q \in owner => experiment.summary = {}
      BY <1>1, <1>2 DEF RunnerOK
    <3> QED
      BY <2>9, <3>1, <3>2 DEF RunnerOK, Undecided
  <2>11. EvidenceOK(experiment, trials', file)
    BY <2>8 DEF EvalInv, EvidenceOK
  <2>12. /\ experiment' = experiment /\ file' = file /\ owner' = owner
         /\ RunnerOK(q, k, owner', experiment', trials') /\ EvidenceOK(experiment', trials', file')
    BY <1>1, <1>6, <2>10, <2>11
  <2> QED
    BY <1>2, <1>3, <2>4, <2>6, <2>7, <2>8, <2>12, RunnerChanges
<1> QED
  BY <1>4, <1>5, <1>6 DEF OpenTrial

LEMMA FinishEval ==
  ASSUME EvalInv, NEW q \in Runners, Finish(q)
  PROVE  EvalInv'
<1>1. /\ runner[q].at \in Undecided /\ runner[q].at \in RunPlaces
      /\ UNCHANGED <<experiment, sent, unresolved, file>>
  BY DEF Finish, RunPlaces, Undecided
<1>2. /\ IsRunner(runner[q]) /\ RunnerOK(q, runner[q], owner, experiment, trials)
      /\ Slot(q) \in Slots /\ Slot(q) = SlotOf(experiment, runner[q])
      /\ trials \in [Slots -> Outcome] /\ IsExperiment(experiment)
  BY <1>1, EvalFacts DEF EvalInv
<1>3. /\ runner[q].failed = {} /\ runner[q].saved = FALSE
      /\ sent' \in [Slots -> 0 .. MaxSent] /\ unresolved' \subseteq Slots
  BY <1>1, <1>2 DEF RunnerOK, EvalInv, Undecided
<1>4. CASE End(q) /\ UNCHANGED trials
  BY <1>1, <1>4, EndEval DEF experimentVars
<1>5. ASSUME Holds(q), UNCHANGED owner, NEW o \in Answers \cup Failures,
             trials' = [trials EXCEPT ![Slot(q)] = IF @ = Pending THEN o ELSE @],
             runner' = [runner EXCEPT ![q].at = "decided",
                          ![q].failed = IF o \in Answers \cup {Unverified} THEN @ ELSE @ \cup {Slot(q)}]
      PROVE  EvalInv'
  <2>1. /\ q \in owner /\ trials[Slot(q)] = Pending /\ experiment.summary = {}
        /\ experiment.kind \in Kinds /\ runner[q].case \in 1 .. Len(experiment.cases)
    BY <1>1, <1>2, <1>5 DEF Holds, RunnerOK
  <2>2. PICK r : r = runner[q]
    OBVIOUS
  <2>3. PICK failed : failed = IF o \in Answers \cup {Unverified} THEN r.failed ELSE r.failed \cup {Slot(q)}
    OBVIOUS
  <2>4. PICK k : k = [at |-> "decided", op |-> r.op, case |-> r.case, index |-> r.index, saved |-> r.saved,
                      seen |-> r.seen, summary |-> r.summary, failed |-> failed]
    OBVIOUS
  <2>5. runner' = [runner EXCEPT ![q] = k]
    <3>1. PICK one : one = [r EXCEPT !.at = "decided"]
      OBVIOUS
    <3>2. one = [at |-> "decided", op |-> r.op, case |-> r.case, index |-> r.index, saved |-> r.saved,
                 seen |-> r.seen, summary |-> r.summary, failed |-> r.failed]
      BY <1>2, <2>2, <3>1 DEF IsRunner
    <3>3. k = [one EXCEPT !.failed = failed]
      BY <2>4, <3>2
    <3>4. runner = [u \in Runners |-> runner[u]]
      BY DEF EvalInv
    <3>5. one.failed = r.failed
      BY <3>2
    <3>6. PICK mid : mid = [runner EXCEPT ![q].at = "decided"]
      OBVIOUS
    <3>7. mid = [runner EXCEPT ![q] = one] /\ mid[q] = one
      BY <2>2, <3>1, <3>4, <3>6
    <3>8. runner' = [mid EXCEPT ![q].failed =
                       IF o \in Answers \cup {Unverified} THEN @ ELSE @ \cup {Slot(q)}]
      BY <1>5, <3>6
    <3>9. runner' = [mid EXCEPT ![q] = [one EXCEPT !.failed = failed]]
      BY <2>3, <3>5, <3>7, <3>8
    <3> QED
      BY <3>3, <3>4, <3>7, <3>9
  <2>6. k.at = "decided" /\ k.case = r.case /\ k.index = r.index /\ k.saved = r.saved /\ k.failed = failed
    BY <2>4
  <2>7. failed = {} \/ (o = Invalid /\ failed = {Slot(q)})
    BY <1>3, <2>2, <2>3, OutcomesDiffer
  <2>8. IsRunner(k)
    <3>1. k = [at |-> k.at, op |-> k.op, case |-> k.case, index |-> k.index, saved |-> k.saved,
               seen |-> k.seen, summary |-> k.summary, failed |-> k.failed]
      BY <2>4
    <3>2. k.case \in Nat \ {0} /\ k.index \in 1 .. Trials /\ k.failed \subseteq Slots /\ k.saved \in BOOLEAN
      BY <1>2, <2>2, <2>6, <2>7 DEF IsRunner
    <3> QED
      BY <2>6, <3>1, <3>2 DEF IsRunner, RunPlaces
  <2>9. /\ trials' \in [Slots -> Outcome] /\ trials'[Slot(q)] = o
        /\ \A s \in Slots : Decided(trials[s]) => trials'[s] = trials[s]
    BY <1>2, <1>5, <2>1, OutcomesDiffer
  <2>10. SlotOf(experiment, k) = Slot(q)
    BY <1>2, <2>2, <2>6 DEF SlotOf
  <2>11. RunnerOK(q, k, owner, experiment, trials')
    <3>1. k.failed # {} => trials'[SlotOf(experiment, k)] = Invalid /\ k.saved = FALSE
      BY <1>3, <2>2, <2>6, <2>7, <2>9, <2>10
    <3> QED
      BY <2>1, <2>2, <2>6, <3>1 DEF RunnerOK, Undecided
  <2>12. EvidenceOK(experiment, trials', file)
    BY <2>1 DEF EvalInv, EvidenceOK
  <2>13. /\ experiment' = experiment /\ file' = file /\ owner' = owner
         /\ RunnerOK(q, k, owner', experiment', trials') /\ EvidenceOK(experiment', trials', file')
    BY <1>1, <1>5, <2>11, <2>12
  <2> QED
    BY <1>2, <1>3, <2>1, <2>5, <2>8, <2>9, <2>13, RunnerChanges
<1> QED
  BY <1>4, <1>5 DEF Finish

LEMMA ContinueEval ==
  ASSUME EvalInv, NEW q \in Runners, Continue(q)
  PROVE  EvalInv'
<1>1. /\ runner[q].at = "decided" /\ runner[q].at \in RunPlaces
      /\ UNCHANGED <<experiment, trials, sent, unresolved, file>>
  BY DEF Continue, RunPlaces, experimentVars
<1>2. /\ RunnerOK(q, runner[q], owner, experiment, trials) /\ Slot(q) = SlotOf(experiment, runner[q])
      /\ sent' \in [Slots -> 0 .. MaxSent] /\ unresolved' \subseteq Slots
  BY <1>1, EvalFacts DEF EvalInv
<1>3. CASE End(q)
  BY <1>3, EndEval DEF Continue
<1>4. CASE GoesOn(q) /\ Step(q, "advance") /\ UNCHANGED owner
  <2>1. runner[q].failed = {}
    <3>1. trials[Slot(q)] # Invalid \/ runner[q].saved
      BY <1>4, OutcomesDiffer DEF GoesOn
    <3> QED
      BY <1>2, <3>1 DEF RunnerOK
  <2> QED
    BY <1>1, <1>2, <1>4, <2>1, GoesOnEval DEF RunPlaces, Undecided
<1> QED
  BY <1>3, <1>4 DEF Continue

(* The next trial of the case, or the first of the next case. *)
LEMMA NextTrialEval ==
  ASSUME EvalInv, NEW q \in Runners, runner[q].at = "advance",
         NEW case \in 1 .. Len(experiment.cases), NEW index \in 1 .. Trials, NEW k,
         k = [at |-> "next", op |-> runner[q].op, case |-> case, index |-> index,
              saved |-> runner[q].saved, seen |-> runner[q].seen, summary |-> runner[q].summary,
              failed |-> runner[q].failed],
         runner' = [runner EXCEPT ![q] = k],
         UNCHANGED <<experimentVars, owner, file>>
  PROVE  EvalInv'
<1>1. /\ IsRunner(runner[q]) /\ RunnerOK(q, runner[q], owner, experiment, trials)
      /\ runner[q].at \in RunPlaces
  BY EvalFacts DEF RunPlaces
<1>2. k.at = "next" /\ k.case = case /\ k.index = index /\ k.saved = runner[q].saved
      /\ k.failed = runner[q].failed
  OBVIOUS
<1>3. IsRunner(k)
  <2>1. k = [at |-> k.at, op |-> k.op, case |-> k.case, index |-> k.index, saved |-> k.saved,
             seen |-> k.seen, summary |-> k.summary, failed |-> k.failed]
    OBVIOUS
  <2>2. k.saved \in BOOLEAN /\ k.failed \subseteq Slots
    BY <1>1, <1>2 DEF IsRunner
  <2>3. case \in Nat \ {0}
    BY DEF EvalInv, IsExperiment
  <2> QED
    BY <1>2, <2>1, <2>2, <2>3 DEF IsRunner, RunPlaces
<1>4. RunnerOK(q, k, owner, experiment, trials)
  BY <1>1, <1>2 DEF RunnerOK, RunPlaces, Undecided
<1>5. sent' \in [Slots -> 0 .. MaxSent] /\ unresolved' \subseteq Slots
  BY DEF EvalInv, experimentVars
<1> QED
  BY <1>3, <1>4, <1>5, RunnerMoves DEF experimentVars

LEMMA AdvanceEval ==
  ASSUME EvalInv, NEW q \in Runners, Advance(q)
  PROVE  EvalInv'
<1>1. /\ runner[q].at = "advance" /\ IsRunner(runner[q]) /\ RunnerOK(q, runner[q], owner, experiment, trials)
      /\ UNCHANGED <<experimentVars, file>> /\ runner = [u \in Runners |-> runner[u]]
  BY EvalFacts DEF Advance, EvalInv
<1>2. runner[q].case \in 1 .. Len(experiment.cases) /\ runner[q].index \in 1 .. Trials
      /\ Len(experiment.cases) \in Nat /\ Trials \in Nat \ {0}
  BY <1>1, EvaluationAssumption DEF RunnerOK, RunPlaces, IsRunner, EvalInv, IsExperiment
<1>3. CASE End(q)
  BY <1>1, <1>3, EndEval
<1>4. CASE /\ runner[q].index < Trials
           /\ runner' = [runner EXCEPT ![q].index = @ + 1, ![q].at = "next"]
           /\ UNCHANGED owner
  <2>1. PICK r, i : r = runner[q] /\ i = runner[q].index + 1
    OBVIOUS
  <2>2. PICK k : k = [at |-> "next", op |-> r.op, case |-> r.case, index |-> i, saved |-> r.saved,
                      seen |-> r.seen, summary |-> r.summary, failed |-> r.failed]
    OBVIOUS
  <2>3. PICK one : one = [r EXCEPT !.index = i]
    OBVIOUS
  <2>4. one = [at |-> r.at, op |-> r.op, case |-> r.case, index |-> i, saved |-> r.saved,
               seen |-> r.seen, summary |-> r.summary, failed |-> r.failed]
    BY <1>1, <2>1, <2>3 DEF IsRunner
  <2>5. k = [one EXCEPT !.at = "next"]
    BY <2>2, <2>4
  <2>6. runner' = [runner EXCEPT ![q] = k]
    BY <1>1, <1>4, <2>1, <2>3, <2>5
  <2>7. i \in 1 .. Trials
    BY <1>2, <1>4, <2>1
  <2> QED
    BY <1>1, <1>2, <1>4, <2>1, <2>2, <2>6, <2>7, NextTrialEval
<1>5. CASE /\ runner[q].index = Trials /\ runner[q].case < Len(experiment.cases)
           /\ runner' = [runner EXCEPT ![q].case = @ + 1, ![q].index = 1, ![q].at = "next"]
           /\ UNCHANGED owner
  <2>1. PICK r, c : r = runner[q] /\ c = runner[q].case + 1
    OBVIOUS
  <2>2. PICK k : k = [at |-> "next", op |-> r.op, case |-> c, index |-> 1, saved |-> r.saved,
                      seen |-> r.seen, summary |-> r.summary, failed |-> r.failed]
    OBVIOUS
  <2>3. PICK one : one = [r EXCEPT !.case = c]
    OBVIOUS
  <2>4. one = [at |-> r.at, op |-> r.op, case |-> c, index |-> r.index, saved |-> r.saved,
               seen |-> r.seen, summary |-> r.summary, failed |-> r.failed]
    BY <1>1, <2>1, <2>3 DEF IsRunner
  <2>5. PICK both : both = [one EXCEPT !.index = 1]
    OBVIOUS
  <2>6. both = [at |-> r.at, op |-> r.op, case |-> c, index |-> 1, saved |-> r.saved,
                seen |-> r.seen, summary |-> r.summary, failed |-> r.failed]
    BY <2>4, <2>5
  <2>7. k = [both EXCEPT !.at = "next"]
    BY <2>2, <2>6
  <2>8. runner' = [runner EXCEPT ![q] = k]
    BY <1>1, <1>5, <2>1, <2>3, <2>5, <2>7
  <2>9. c \in 1 .. Len(experiment.cases) /\ 1 \in 1 .. Trials
    BY <1>2, <1>5, <2>1
  <2> QED
    BY <1>1, <1>5, <2>1, <2>2, <2>8, <2>9, NextTrialEval
<1> QED
  BY <1>3, <1>4, <1>5 DEF Advance

LEMMA SumEval ==
  ASSUME EvalInv, NEW q \in Runners, Sum(q)
  PROVE  EvalInv'
<1>1. /\ runner[q].at = "summing" /\ UNCHANGED <<experiment, trials, sent, unresolved, owner, file>>
      /\ IsRunner(runner[q]) /\ RunnerOK(q, runner[q], owner, experiment, trials)
      /\ runner = [u \in Runners |-> runner[u]] /\ EvidenceOK(experiment, trials, file)
  BY EvalFacts DEF Sum, EvalInv, experimentVars
<1>2. PICK r, total : r = runner[q] /\ total = IF r.seen # {} THEN r.seen ELSE {Summary}
  OBVIOUS
<1>3. PICK k : k = [at |-> "freezing", op |-> r.op, case |-> r.case, index |-> r.index, saved |-> r.saved,
                    seen |-> r.seen, summary |-> total, failed |-> r.failed]
  OBVIOUS
<1>4. runner' = [runner EXCEPT ![q] = k]
  <2>1. PICK one : one = [r EXCEPT !.summary = total]
    OBVIOUS
  <2>2. one = [at |-> r.at, op |-> r.op, case |-> r.case, index |-> r.index, saved |-> r.saved,
               seen |-> r.seen, summary |-> total, failed |-> r.failed]
    BY <1>1, <1>2, <2>1 DEF IsRunner
  <2>3. k = [one EXCEPT !.at = "freezing"]
    BY <1>3, <2>2
  <2>4. runner' = [runner EXCEPT ![q].summary = total, ![q].at = "freezing"]
    BY <1>2 DEF Sum
  <2> QED
    BY <1>1, <1>2, <2>1, <2>3, <2>4
<1>5. k.at = "freezing" /\ k.case = r.case /\ k.index = r.index /\ k.saved = r.saved
      /\ k.seen = r.seen /\ k.summary = total /\ k.failed = r.failed
  BY <1>3
<1>6. IsRunner(k)
  <2>1. k = [at |-> k.at, op |-> k.op, case |-> k.case, index |-> k.index, saved |-> k.saved,
             seen |-> k.seen, summary |-> k.summary, failed |-> k.failed]
    BY <1>3
  <2>2. k.case \in Nat \ {0} /\ k.index \in 1 .. Trials /\ k.failed \subseteq Slots /\ k.saved \in BOOLEAN
    BY <1>1, <1>2, <1>5 DEF IsRunner
  <2> QED
    BY <1>5, <2>1, <2>2 DEF IsRunner
<1>7. \A s \in total : q \in owner => s.counts = CountsOf(CasesOf(experiment), trials)
  <2>1. Summary.counts = CountsOf(CasesOf(experiment), trials)
    <3>1. CaseSet = CasesOf(experiment)
      BY DEF CaseSet, CasesOf
    <3>2. Summary.counts = Counts
      BY DEF Summary
    <3> QED
      BY <3>1, <3>2, CountsAreOf
  <2>2. q \in owner => r.seen = experiment.summary
    BY <1>1, <1>2 DEF RunnerOK
  <2>3. \A s \in experiment.summary : s.counts = CountsOf(CasesOf(experiment), trials)
    BY <1>1 DEF EvidenceOK
  <2> QED
    BY <1>2, <2>1, <2>2, <2>3
<1>8. total # {} /\ (q \in owner => r.seen = experiment.summary)
      /\ (q \in owner /\ experiment.summary # {} => total = experiment.summary)
  BY <1>1, <1>2 DEF RunnerOK
<1>9. RunnerOK(q, k, owner, experiment, trials)
  <2>1. experiment.kind \in Kinds /\ experiment.kind = "appropriateness" /\ r.failed = {}
    BY <1>1, <1>2 DEF RunnerOK
  <2> QED
    BY <1>5, <1>7, <1>8, <2>1 DEF RunnerOK, RunPlaces, Undecided
<1>10. sent' \in [Slots -> 0 .. MaxSent] /\ unresolved' \subseteq Slots
  BY <1>1 DEF EvalInv
<1> QED
  BY <1>1, <1>4, <1>6, <1>9, <1>10, RunnerMoves

LEMMA FreezeSummaryEval ==
  ASSUME EvalInv, NEW q \in Runners, FreezeSummary(q)
  PROVE  EvalInv'
<1>1. /\ runner[q].at = "freezing" /\ UNCHANGED <<trials, sent, unresolved, file>>
      /\ IsRunner(runner[q]) /\ RunnerOK(q, runner[q], owner, experiment, trials)
      /\ IsExperiment(experiment) /\ EvidenceOK(experiment, trials, file)
      /\ experiment.kind \in Kinds /\ experiment.kind = "appropriateness"
      /\ trials' \in [Slots -> Outcome] /\ sent' \in [Slots -> 0 .. MaxSent] /\ unresolved' \subseteq Slots
  BY EvalFacts DEF FreezeSummary, EvalInv, RunnerOK
<1>2. CASE End(q) /\ UNCHANGED experiment
  BY <1>1, <1>2, EndEval DEF experimentVars
<1>3. CASE /\ Holds(q)
           /\ experiment' = [experiment EXCEPT !.summary = IF @ = {} THEN runner[q].summary ELSE @]
           /\ Step(q, "writing") /\ UNCHANGED owner
  <2>1. PICK k : /\ IsRunner(k) /\ runner' = [runner EXCEPT ![q] = k] /\ k.at = "writing"
                 /\ k.case = runner[q].case /\ k.index = runner[q].index /\ k.saved = runner[q].saved
                 /\ k.summary = runner[q].summary /\ k.failed = runner[q].failed
    BY <1>3, StepEffect
  <2>2. /\ q \in owner /\ runner[q].summary # {}
        /\ experiment.summary # {} => runner[q].summary = experiment.summary
        /\ \A s \in runner[q].summary : s.counts = CountsOf(CasesOf(experiment), trials)
        /\ runner[q].failed = {}
    BY <1>1, <1>3 DEF RunnerOK, Holds
  <2>3. experiment' = [kind |-> experiment.kind, cases |-> experiment.cases, summary |-> runner[q].summary]
    BY <1>1, <1>3, <2>2 DEF IsExperiment
  <2>4. /\ experiment'.kind = experiment.kind /\ experiment'.cases = experiment.cases
        /\ experiment'.summary = runner[q].summary
    BY <2>3
  <2>5. IsExperiment(experiment')
    <3>1. Len(experiment.cases) > 0 /\ experiment.cases \in Seq(Cases)
      <4>1. NoExperiment.kind \notin Kinds
        BY DEF NoExperiment, Kinds
      <4> QED
        BY <1>1, <4>1 DEF IsExperiment
    <3> QED
      BY <1>1, <2>3, <2>4, <3>1 DEF IsExperiment
  <2>6. CasesOf(experiment') = CasesOf(experiment)
    BY <2>4 DEF CasesOf
  <2>7. EvidenceOK(experiment', trials', file')
    <3>1. file # {} => file = runner[q].summary
      BY <1>1, <2>2 DEF EvidenceOK
    <3> QED
      BY <1>1, <2>2, <2>4, <2>6, <3>1 DEF EvidenceOK
  <2>8. RunnerOK(q, k, owner', experiment', trials')
    BY <1>1, <2>1, <2>2, <2>4 DEF RunnerOK, RunPlaces, Undecided
  <2>9. owner' \subseteq owner /\ q \in owner
    BY <1>3, <2>2
  <2>10. \A s \in Slots : Decided(trials[s]) => trials'[s] = trials[s]
    BY <1>1
  <2>11. experiment.summary # {} => experiment'.summary = experiment.summary
    BY <2>2, <2>4
  <2> QED
    BY <1>1, <2>1, <2>4, <2>5, <2>7, <2>8, <2>9, <2>10, <2>11, RunnerChanges
<1> QED
  BY <1>2, <1>3 DEF FreezeSummary

LEMMA WriteSummaryEval ==
  ASSUME EvalInv, NEW q \in Runners, WriteSummary(q)
  PROVE  EvalInv'
<1>1. /\ runner[q].at = "writing" /\ file' \in {file, runner[q].summary} /\ End(q)
      /\ UNCHANGED <<experiment, trials, sent, unresolved>>
      /\ RunnerOK(q, runner[q], owner, experiment, trials) /\ EvidenceOK(experiment, trials, file)
  BY EvalFacts DEF WriteSummary, EvalInv, experimentVars
<1>2. runner' = [runner EXCEPT ![q] = Quiet] /\ owner' = owner \ {q}
  BY <1>1 DEF End
<1>3. file' = file \/ file' = experiment.summary
  BY <1>1 DEF RunnerOK
<1>4. EvidenceOK(experiment, trials, file')
  BY <1>1, <1>3 DEF EvidenceOK
<1>5. RunnerOK(q, Quiet, owner', experiment, trials)
  BY <1>2, QuietOK
<1>6. /\ experiment' = experiment /\ trials' = trials /\ EvidenceOK(experiment', trials', file')
      /\ RunnerOK(q, Quiet, owner', experiment', trials')
      /\ IsExperiment(experiment') /\ trials' \in [Slots -> Outcome]
      /\ sent' \in [Slots -> 0 .. MaxSent] /\ unresolved' \subseteq Slots
  BY <1>1, <1>4, <1>5 DEF EvalInv
<1> QED
  BY <1>2, <1>6, QuietRunner, RunnerChanges

LEMMA LoseLockEval ==
  ASSUME EvalInv, NEW q \in Runners, LoseLock(q)
  PROVE  EvalInv'
<1>1. /\ owner' = {} /\ runner' = runner
      /\ UNCHANGED <<experiment, trials, sent, unresolved, file>>
  BY DEF LoseLock, experimentVars
<1>2. ASSUME NEW u \in Runners PROVE RunnerOK(u, runner[u], owner', experiment, trials)
  <2>1. RunnerOK(u, runner[u], owner, experiment, trials) /\ u \notin owner'
    BY <1>1 DEF EvalInv
  <2> QED
    BY <2>1 DEF RunnerOK
<1> QED
  BY <1>1, <1>2 DEF EvalInv

(* The cases of an experiment are a version's, each once.                  *)
LEMMA CreateEval ==
  ASSUME EvalInv, StoreInv, CreateExperiment
  PROVE  EvalInv'
<1>1. experiment = NoExperiment /\ UNCHANGED <<trials, sent, unresolved, runner, owner, file>>
  BY DEF CreateExperiment
<1>2. PICK v \in DOMAIN frozen, kind \in Kinds, split \in {"all", "development", "held-out"} :
        LET chosen == {c \in DOMAIN frozen[v].rows : split \in {"all", frozen[v].rows[c].split}}
        IN  /\ chosen # {}
            /\ \E order \in [1 .. Cardinality(chosen) -> chosen] :
                 experiment' = [kind |-> kind, cases |-> order, summary |-> {}]
  BY DEF CreateExperiment
<1>3. PICK chosen : /\ chosen \subseteq DOMAIN frozen[v].rows /\ chosen # {}
                    /\ \E order \in [1 .. Cardinality(chosen) -> chosen] :
                         experiment' = [kind |-> kind, cases |-> order, summary |-> {}]
  BY <1>2
<1>4. PICK order \in [1 .. Cardinality(chosen) -> chosen] :
        experiment' = [kind |-> kind, cases |-> order, summary |-> {}]
  BY <1>3
<1>5. chosen \subseteq Cases
  BY <1>3 DEF StoreInv, FrozenOK
<1>6. Cardinality(chosen) \in Nat /\ Cardinality(chosen) # 0
  <2>1. IsFiniteSet(chosen)
    BY <1>5, AuthoringAssumption, FS_Subset
  <2> QED
    BY <1>3, <2>1, FS_CardinalityType, FS_EmptySet
<1>7. order \in Seq(Cases) /\ Len(order) > 0
  BY <1>4, <1>5, <1>6
<1>8. IsExperiment(experiment') /\ experiment'.kind \in Kinds /\ experiment'.summary = {}
  BY <1>4, <1>7 DEF IsExperiment
<1>9. file = {}
  BY <1>1 DEF EvalInv, EvidenceOK, NoExperiment
<1>10. EvidenceOK(experiment', trials', file')
  BY <1>1, <1>8, <1>9 DEF EvidenceOK
<1>11. ASSUME NEW q \in Runners PROVE RunnerOK(q, runner[q], owner, experiment', trials)
  <2>1. RunnerOK(q, runner[q], owner, experiment, trials) /\ experiment.kind \notin Kinds
    BY <1>1 DEF EvalInv, NoExperiment, Kinds
  <2>2. runner[q].at = "idle" /\ q \notin owner
    BY <2>1 DEF RunnerOK
  <2>3. runner[q].failed = {}
    BY <2>1, <2>2 DEF RunnerOK
  <2> QED
    BY <2>2, <2>3 DEF RunnerOK, RunPlaces, Undecided
<1> QED
  BY <1>1, <1>8, <1>10, <1>11 DEF EvalInv

LEMMA InitEval ==
  ASSUME EvaluationInit
  PROVE  EvalInv
<1>1. /\ experiment = NoExperiment /\ trials = [s \in Slots |-> Unstarted] /\ sent = [s \in Slots |-> 0]
      /\ unresolved = {} /\ runner = [q \in Runners |-> Quiet] /\ owner = {} /\ file = {}
  BY DEF EvaluationInit
<1>2. IsExperiment(experiment)
  BY <1>1 DEF IsExperiment, NoExperiment
<1>3. trials \in [Slots -> Outcome] /\ sent \in [Slots -> 0 .. MaxSent]
  BY <1>1, OutcomesDiffer, EvaluationAssumption
<1>4. \A q \in Runners : IsRunner(runner[q]) /\ RunnerOK(q, runner[q], owner, experiment, trials)
  BY <1>1, QuietRunner, QuietOK
<1>5. EvidenceOK(experiment, trials, file)
  BY <1>1 DEF EvidenceOK, NoExperiment
<1> QED
  BY <1>1, <1>2, <1>3, <1>4, <1>5 DEF EvalInv

(* The inductive invariant of the store and its evaluations.               *)
AuthoringInv == StoreInv /\ EvalInv

LEMMA InitAuthoring == Init => AuthoringInv
BY InitStore, InitEval DEF Init, AuthoringInv

LEMMA NextAuthoring ==
  ASSUME AuthoringInv, [Next]_vars
  PROVE  AuthoringInv'
<1>1. StoreInv'
  BY NextStore, SameStore DEF AuthoringInv, Next, StoreStep, Evaluate, vars
<1>2. EvalInv'
  <2>1. CASE UNCHANGED evaluationVars
    BY <2>1 DEF AuthoringInv, EvalInv, evaluationVars, experimentVars
  <2>2. CASE CreateExperiment
    BY <2>2, CreateEval DEF AuthoringInv
  <2>3. ASSUME NEW q \in Runners, RunnerStep(q) PROVE EvalInv'
    <3>1. EvalInv
      BY DEF AuthoringInv
    <3>2. CASE \E op \in {"run", "recover", "finalize"} : Lock(q, op)
      BY <3>1, <3>2, LockEval
    <3>3. CASE OpenTrial(q) \/ Check(q) \/ Send(q) \/ RecordCharge(q) \/ Finish(q)
      BY <3>1, <3>3, OpenTrialEval, CheckEval, SendEval, RecordChargeEval, FinishEval
    <3>4. CASE Continue(q) \/ Advance(q) \/ Sum(q) \/ FreezeSummary(q) \/ WriteSummary(q)
      BY <3>1, <3>4, ContinueEval, AdvanceEval, SumEval, FreezeSummaryEval, WriteSummaryEval
    <3>5. CASE LoseLock(q) \/ Die(q)
      BY <3>1, <3>5, LoseLockEval, EndEval DEF Die
    <3> QED
      BY <2>3, <3>2, <3>3, <3>4, <3>5 DEF RunnerStep
  <2> QED
    BY <2>1, <2>2, <2>3 DEF Next, StoreStep, Evaluate, vars
<1> QED
  BY <1>1, <1>2 DEF AuthoringInv

LEMMA AuthoringAlways == Spec => []AuthoringInv
<1>1. AuthoringInv /\ [Next]_vars => AuthoringInv'
  BY NextAuthoring
<1> QED
  BY <1>1, InitAuthoring, PTL DEF Spec

(* The variables have their types, and a saved workspace validates: what   *)
(* load refuses is never saved.                                            *)
THEOREM EvaluationTypes == Spec => []TypeOK
<1>1. AuthoringInv => TypeOK
  <2> SUFFICES ASSUME AuthoringInv PROVE TypeOK
    OBVIOUS
  <2>1. StoreTypeOK
    BY StoreIsTyped DEF AuthoringInv
  <2>2. EvalInv
    BY DEF AuthoringInv
  <2>3. experiment # NoExperiment => experiment.kind \in Kinds /\ CaseSet \in (SUBSET Cases) \ {{}}
    <3>1. ASSUME experiment # NoExperiment
          PROVE  /\ experiment.kind \in Kinds /\ Len(experiment.cases) > 0
                 /\ experiment.cases \in Seq(Cases)
      BY <2>2, <3>1 DEF EvalInv, IsExperiment
    <3>2. ASSUME experiment # NoExperiment PROVE experiment.cases[1] \in CaseSet /\ CaseSet \subseteq Cases
      BY <3>1, <3>2 DEF CaseSet
    <3> QED
      BY <3>1, <3>2
  <2>4. \A s \in Slots : /\ Decided(trials[s]) \/ trials[s] \in {Unstarted, Pending}
                         /\ sent[s] \in 0 .. MaxSent
    BY <2>2, OutcomesDiffer DEF EvalInv
  <2>5. Cardinality(owner) <= 1
    <3>1. CASE owner = {}
      BY <3>1, FS_EmptySet
    <3>2. CASE owner # {}
      <4>1. PICK q \in owner : TRUE
        BY <3>2
      <4>2. owner = {q}
        BY <2>2 DEF EvalInv
      <4>3. Cardinality({q}) = 1
        BY FS_Singleton
      <4> QED
        BY <4>2, <4>3
    <3> QED
      BY <3>1, <3>2
  <2>6. \A q \in owner : runner[q] # Quiet
    BY <2>2, QuietRunner DEF EvalInv, RunnerOK
  <2> QED
    BY <2>1, <2>2, <2>3, <2>4, <2>5, <2>6 DEF TypeOK, EvalInv, IsRunner
<1> QED
  BY <1>1, AuthoringAlways, PTL

(* A finalized summary counts the trials as they are saved for good, and   *)
(* the file is that summary.                                               *)
THEOREM SummariesAreEvidence == Spec => []SummaryIsEvidence
<1>1. AuthoringInv => SummaryIsEvidence
  <2>1. CaseSet = CasesOf(experiment)
    BY DEF CaseSet, CasesOf
  <2> QED
    BY <2>1, CountsAreOf DEF AuthoringInv, EvalInv, EvidenceOK, SummaryIsEvidence
<1> QED
  BY <1>1, AuthoringAlways, PTL

(* After a trial has failed, its run dispatches nothing more.              *)
THEOREM FailuresStopRuns == Spec => StopsOnFailure
<1> DEFINE Stops == \A q \in Runners :
                      runner[q].at = "sending" /\ runner'[q].at = "awaiting" => runner[q].failed = {}
<1>1. AuthoringInv => \A q \in Runners : runner[q].at = "sending" => runner[q].failed = {}
  BY DEF AuthoringInv, EvalInv, RunnerOK
<1>2. AuthoringInv /\ [Next]_vars => [Stops]_vars
  BY <1>1
<1> QED
  BY <1>2, AuthoringAlways, PTL DEF Spec, StopsOnFailure
================================================================================
