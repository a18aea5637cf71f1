------------------------- MODULE LearnerSyncProofs -------------------------
(***************************************************************************)
(* What LearnerSync promises for any devices, profiles, changes, limits,   *)
(* faults and calls in progress: its types, that no change is forgotten,   *)
(* that a reconciliation shows the learner's changes, and that it          *)
(* implements LearnerLog.                                                  *)
(***************************************************************************)
EXTENDS LearnerSync, FiniteSetTheorems, SequenceTheorems, WellFoundedInduction, TLAPS

(* Induction over the natural numbers, as the least of a set of them.      *)
LEMMA LeastNumber ==
  ASSUME NEW V, V \subseteq Nat, V # {}
  PROVE  \E i \in V : \A j \in V : i <= j
<1> DEFINE less == OpToRel(<, Nat)
<1>1. \A x, y \in Nat : <<x, y>> \in less <=> x < y
  BY DEF OpToRel
<1>2. IsWellFoundedOn(less, Nat)
  BY NatLessThanWellFounded
<1> HIDE DEF less
<1>3. PICK i \in V : \A j \in V : ~ (<<j, i>> \in less)
  BY <1>2, WFMin
<1>4. \A j \in V : ~(j < i)
  BY <1>1, <1>3
<1> QED
  BY <1>4

(* What one element adds to the kept ones.                                 *)
Keep(kept, x, S) == IF x \in S THEN Append(kept, x) ELSE kept

(* The prefixes of a filtered queue.                                       *)
Filtering(f, ops, S, n) == f = [m \in 0..n |-> IF m = 0 THEN <<>> ELSE Keep(f[m - 1], ops[m], S)]

LEMMA PrefixesExist ==
  ASSUME NEW ops, NEW S, NEW N \in Nat
  PROVE  \E f : Filtering(f, ops, S, N)
<1> DEFINE bad == {n \in Nat : ~ \E f : Filtering(f, ops, S, n)}
<1>1. SUFFICES ASSUME bad # {} PROVE FALSE
  OBVIOUS
<1>2. PICK i \in bad : \A j \in bad : i <= j
  BY <1>1, LeastNumber
<1>3. i # 0
  <2>1. Filtering([m \in 0..0 |-> <<>>], ops, S, 0)
    BY DEF Filtering
  <2> QED
    BY <2>1
<1>4. PICK f : Filtering(f, ops, S, i - 1)
  <2>1. i - 1 \in Nat /\ i - 1 \notin bad
    BY <1>2, <1>3
  <2> QED
    BY <2>1
<1> DEFINE g == [m \in 0..i |-> IF m = i THEN Keep(f[i - 1], ops[i], S) ELSE f[m]]
<1>5. \A m \in 0..i : g[m] = IF m = 0 THEN <<>> ELSE Keep(g[m - 1], ops[m], S)
  BY <1>3, <1>4 DEF Filtering
<1>6. Filtering(g, ops, S, i)
  <2>1. g = [m \in 0..i |-> g[m]]
    OBVIOUS
  <2> HIDE DEF g
  <2> QED
    BY <1>5, <2>1 DEF Filtering
<1> QED
  BY <1>6

LEMMA OnlyIsPrefix ==
  ASSUME NEW V, NEW ops \in Seq(V), NEW S
  PROVE  \E f : Filtering(f, ops, S, Len(ops)) /\ Only(ops, S) = f[Len(ops)]
<1> DEFINE g == CHOOSE f : f = [n \in 0..Len(ops) |-> IF n = 0 THEN <<>>
        ELSE IF ops[n] \in S THEN Append(f[n - 1], ops[n]) ELSE f[n - 1]]
<1>1. \E f : f = [n \in 0..Len(ops) |-> IF n = 0 THEN <<>>
        ELSE IF ops[n] \in S THEN Append(f[n - 1], ops[n]) ELSE f[n - 1]]
  <2>1. PICK f : Filtering(f, ops, S, Len(ops))
    <3>1. Len(ops) \in Nat
      OBVIOUS
    <3> QED
      BY <3>1, PrefixesExist
  <2>2. f = [n \in 0..Len(ops) |-> IF n = 0 THEN <<>>
        ELSE IF ops[n] \in S THEN Append(f[n - 1], ops[n]) ELSE f[n - 1]]
    BY <2>1 DEF Filtering, Keep
  <2> QED
    BY <2>2
<1>2. g = [n \in 0..Len(ops) |-> IF n = 0 THEN <<>>
        ELSE IF ops[n] \in S THEN Append(g[n - 1], ops[n]) ELSE g[n - 1]]
  BY <1>1
<1>3. Only(ops, S) = g[Len(ops)]
  BY DEF Only
<1> QED
  BY <1>2, <1>3 DEF Filtering, Keep

(* The n-th prefix holds what is kept of the first n changes, in order.    *)
Filtered(kept, ops, S, n, V) ==
  /\ kept \in Seq(V)
  /\ \A a \in DOMAIN kept : kept[a] \in S
  /\ \A i \in 1..n : ops[i] \in S => \E a \in DOMAIN kept : kept[a] = ops[i]
  /\ \A a \in DOMAIN kept : \E i \in 1..n : kept[a] = ops[i]
  /\ \A a, b \in DOMAIN kept : a < b =>
       \E i, j \in 1..n : i < j /\ kept[a] = ops[i] /\ kept[b] = ops[j]

LEMMA KeepFilters ==
  ASSUME NEW V, NEW ops \in Seq(V), NEW S, NEW n \in Nat, n + 1 \in DOMAIN ops,
         NEW kept, Filtered(kept, ops, S, n, V)
  PROVE  Filtered(Keep(kept, ops[n + 1], S), ops, S, n + 1, V)
<1> DEFINE x == ops[n + 1]
<1>1. CASE x \in S
  <2> DEFINE new == Append(kept, x)
  <2>1. /\ kept \in Seq(V) /\ x \in V /\ new \in Seq(V) /\ Len(kept) \in Nat
        /\ Len(new) = Len(kept) + 1 /\ new[Len(kept) + 1] = x
        /\ DOMAIN kept = 1..Len(kept) /\ DOMAIN new = 1..(Len(kept) + 1)
        /\ \A a \in DOMAIN kept : new[a] = kept[a]
    BY DEF Filtered
  <2>2. Keep(kept, x, S) = new
    BY <1>1 DEF Keep
  <2> HIDE DEF new
  <2>3. \A a \in DOMAIN new : new[a] \in S
    BY <1>1, <2>1 DEF Filtered
  <2>4. \A i \in 1..(n + 1) : ops[i] \in S => \E a \in DOMAIN new : new[a] = ops[i]
    <3> TAKE i \in 1..(n + 1)
    <3>1. CASE i = n + 1
      BY <2>1, <3>1
    <3>2. CASE i \in 1..n
      BY <2>1, <3>2 DEF Filtered
    <3> QED
      BY <3>1, <3>2
  <2>5. \A a \in DOMAIN new : \E i \in 1..(n + 1) : new[a] = ops[i]
    <3> TAKE a \in DOMAIN new
    <3>1. CASE a = Len(kept) + 1
      BY <2>1, <3>1
    <3>2. CASE a \in DOMAIN kept
      <4>1. PICK i \in 1..n : kept[a] = ops[i]
        BY <3>2 DEF Filtered
      <4> QED
        BY <2>1, <3>2, <4>1
    <3> QED
      BY <2>1, <3>1, <3>2
  <2>6. \A a, b \in DOMAIN new : a < b =>
          \E i, j \in 1..(n + 1) : i < j /\ new[a] = ops[i] /\ new[b] = ops[j]
    <3> TAKE a, b \in DOMAIN new
    <3> HAVE a < b
    <3>1. a \in DOMAIN kept
      BY <2>1
    <3>2. CASE b \in DOMAIN kept
      <4>1. PICK i, j \in 1..n : i < j /\ kept[a] = ops[i] /\ kept[b] = ops[j]
        BY <3>1, <3>2 DEF Filtered
      <4> QED
        BY <2>1, <3>1, <3>2, <4>1
    <3>3. CASE b = Len(kept) + 1
      <4>1. PICK i \in 1..n : kept[a] = ops[i]
        BY <3>1 DEF Filtered
      <4>2. i < n + 1 /\ i \in 1..(n + 1) /\ n + 1 \in 1..(n + 1)
        OBVIOUS
      <4> QED
        BY <2>1, <3>1, <3>3, <4>1, <4>2
    <3> QED
      BY <2>1, <3>2, <3>3
  <2> QED
    BY <2>1, <2>2, <2>3, <2>4, <2>5, <2>6 DEF Filtered
<1>2. CASE x \notin S
  <2>1. Keep(kept, x, S) = kept
    BY <1>2 DEF Keep
  <2>2. \A i \in 1..(n + 1) : ops[i] \in S => i \in 1..n
    BY <1>2
  <2>3. 1..n \subseteq 1..(n + 1)
    OBVIOUS
  <2> QED
    BY <2>1, <2>2, <2>3 DEF Filtered
<1> QED
  BY <1>1, <1>2

(* What a filter returns.                                                  *)
LEMMA OnlyFacts ==
  ASSUME NEW V, NEW ops \in Seq(V), NEW S
  PROVE  /\ Only(ops, S) \in Seq(V)
         /\ ToSet(Only(ops, S)) = ToSet(ops) \intersect S
         /\ \A a, b \in DOMAIN Only(ops, S) : a < b =>
              \E i, j \in DOMAIN ops :
                i < j /\ Only(ops, S)[a] = ops[i] /\ Only(ops, S)[b] = ops[j]
<1>1. PICK f : Filtering(f, ops, S, Len(ops)) /\ Only(ops, S) = f[Len(ops)]
  BY OnlyIsPrefix
<1> DEFINE bad == {n \in Nat : n <= Len(ops) /\ ~Filtered(f[n], ops, S, n, V)}
<1>2. Len(ops) \in Nat /\ DOMAIN ops = 1..Len(ops)
  OBVIOUS
<1>3. f[0] = <<>> /\ \A n \in 1..Len(ops) : f[n] = Keep(f[n - 1], ops[n], S)
  BY <1>1, <1>2 DEF Filtering
<1>4. ASSUME bad # {} PROVE FALSE
  <2>1. PICK n \in bad : \A j \in bad : n <= j
    BY <1>4, LeastNumber
  <2>2. n # 0
    <3>1. Filtered(<<>>, ops, S, 0, V)
      BY DEF Filtered
    <3> QED
      BY <1>2, <1>3, <2>1, <3>1
  <2>3. n - 1 \in Nat /\ n - 1 <= Len(ops) /\ n - 1 \notin bad
    BY <1>2, <2>1, <2>2
  <2>4. Filtered(f[n - 1], ops, S, n - 1, V)
    BY <2>3
  <2>5. (n - 1) + 1 = n /\ n \in DOMAIN ops /\ n \in 1..Len(ops)
    BY <1>2, <2>2
  <2>6. Filtered(Keep(f[n - 1], ops[n], S), ops, S, n, V)
    BY <2>3, <2>4, <2>5, KeepFilters
  <2> QED
    BY <1>3, <2>5, <2>6
<1>5. Filtered(Only(ops, S), ops, S, Len(ops), V)
  BY <1>1, <1>2, <1>4
<1> DEFINE kept == Only(ops, S)
<1>6. ToSet(kept) \subseteq ToSet(ops) \intersect S
  BY <1>2, <1>5 DEF Filtered, ToSet
<1>7. ToSet(ops) \intersect S \subseteq ToSet(kept)
  BY <1>2, <1>5 DEF Filtered, ToSet
<1> HIDE DEF kept
<1>8. kept \in Seq(V) /\ \A a, b \in DOMAIN kept : a < b =>
              \E i, j \in DOMAIN ops : i < j /\ kept[a] = ops[i] /\ kept[b] = ops[j]
  <2>1. Filtered(kept, ops, S, Len(ops), V)
    BY <1>5 DEF kept
  <2>2. kept \in Seq(V)
    BY <2>1 DEF Filtered
  <2>3. ASSUME NEW a \in DOMAIN kept, NEW b \in DOMAIN kept, a < b
        PROVE  \E i, j \in 1..Len(ops) : i < j /\ kept[a] = ops[i] /\ kept[b] = ops[j]
    BY <2>1, <2>3 DEF Filtered
  <2> QED
    BY <1>2, <2>2, <2>3
<1> QED
  BY <1>6, <1>7, <1>8 DEF kept

-----------------------------------------------------------------------------
(* Sequences of changes.                                                   *)
LEMMA SeqGrows == ASSUME NEW A, NEW B, A \subseteq B PROVE Seq(A) \subseteq Seq(B)
OBVIOUS

LEMMA ElementOf == ASSUME NEW A, NEW s \in Seq(A), NEW i \in DOMAIN s PROVE s[i] \in A
OBVIOUS

LEMMA ElementsIn == ASSUME NEW A, NEW s \in Seq(A) PROVE ToSet(s) \subseteq A
BY DEF ToSet

LEMMA SeqOfElements == ASSUME NEW A, NEW B, NEW s \in Seq(A), ToSet(s) \subseteq B PROVE s \in Seq(B)
BY DEF ToSet

LEMMA AppendElements ==
  ASSUME NEW A, NEW s \in Seq(A), NEW x
  PROVE  ToSet(Append(s, x)) = ToSet(s) \union {x}
<1>1. \A i \in DOMAIN s : Append(s, x)[i] = s[i]
  OBVIOUS
<1>2. DOMAIN Append(s, x) = 1..(Len(s) + 1) /\ DOMAIN s = 1..Len(s) /\ Len(s) \in Nat
      /\ Append(s, x)[Len(s) + 1] = x
  OBVIOUS
<1> DEFINE t == Append(s, x)
<1> HIDE DEF t
<1>3. DOMAIN t = DOMAIN s \union {Len(s) + 1} /\ t[Len(s) + 1] = x /\ \A i \in DOMAIN s : t[i] = s[i]
  BY <1>1, <1>2 DEF t
<1>4. ToSet(t) = ToSet(s) \union {x}
  BY <1>3 DEF ToSet
<1> QED
  BY <1>4 DEF t

LEMMA ConcatElements ==
  ASSUME NEW A, NEW s \in Seq(A), NEW t \in Seq(A)
  PROVE  ToSet(s \o t) = ToSet(s) \union ToSet(t)
<1> DEFINE u == s \o t
<1>1. /\ Len(s) \in Nat /\ Len(t) \in Nat /\ DOMAIN s = 1..Len(s) /\ DOMAIN t = 1..Len(t)
      /\ DOMAIN u = 1..(Len(s) + Len(t))
      /\ \A i \in 1..Len(s) : u[i] = s[i]
      /\ \A i \in 1..Len(t) : u[Len(s) + i] = t[i]
  OBVIOUS
<1> HIDE DEF u
<1>2. \A i \in 1..(Len(s) + Len(t)) : i \in 1..Len(s) \/ i - Len(s) \in 1..Len(t)
  BY <1>1
<1>3. ToSet(u) \subseteq ToSet(s) \union ToSet(t)
  <2>1. ASSUME NEW i \in DOMAIN u PROVE u[i] \in ToSet(s) \union ToSet(t)
    <3>1. CASE i \in 1..Len(s)
      BY <1>1, <3>1 DEF ToSet
    <3>2. CASE i - Len(s) \in 1..Len(t)
      <4>1. u[Len(s) + (i - Len(s))] = t[i - Len(s)] /\ Len(s) + (i - Len(s)) = i
        BY <1>1, <3>2
      <4> QED
        BY <1>1, <3>2, <4>1 DEF ToSet
    <3> QED
      BY <1>1, <1>2, <3>1, <3>2
  <2> QED
    BY <2>1 DEF ToSet
<1>4. ToSet(s) \subseteq ToSet(u)
  <2>1. ASSUME NEW i \in DOMAIN s PROVE s[i] \in ToSet(u)
    <3>1. i \in DOMAIN u /\ u[i] = s[i]
      BY <1>1
    <3> QED
      BY <3>1 DEF ToSet
  <2> QED
    BY <2>1 DEF ToSet
<1>5. ToSet(t) \subseteq ToSet(u)
  <2>1. ASSUME NEW i \in DOMAIN t PROVE t[i] \in ToSet(u)
    <3>1. Len(s) + i \in DOMAIN u /\ u[Len(s) + i] = t[i]
      BY <1>1
    <3> QED
      BY <3>1 DEF ToSet
  <2> QED
    BY <2>1 DEF ToSet
<1> QED
  BY <1>3, <1>4, <1>5 DEF u

(* The order in which the learner made the changes of a device.            *)
InOrder(ops) == \A i, j \in DOMAIN ops : i < j => ops[i].data < ops[j].data /\ ops[i].id < ops[j].id

LEMMA OnlyInOrder ==
  ASSUME NEW V, NEW ops \in Seq(V), NEW S, InOrder(ops)
  PROVE  InOrder(Only(ops, S))
<1> DEFINE kept == Only(ops, S)
<1>1. \A a, b \in DOMAIN kept : a < b =>
        \E i, j \in DOMAIN ops : i < j /\ kept[a] = ops[i] /\ kept[b] = ops[j]
  BY OnlyFacts
<1> HIDE DEF kept
<1>2. InOrder(kept)
  BY <1>1 DEF InOrder
<1> QED
  BY <1>2 DEF kept

(* Expired changes are the first ones.                                     *)
LEMMA DropFacts ==
  ASSUME NEW V, NEW ops \in Seq(V), NEW n \in 0..Len(ops)
  PROVE  LET rest == SubSeq(ops, n + 1, Len(ops)) IN
         /\ rest \in Seq(V) /\ Len(rest) <= Len(ops)
         /\ ToSet(rest) \subseteq ToSet(ops)
         /\ ToSet(SubSeq(ops, 1, n)) \subseteq ToSet(ops)
         /\ ToSet(ops) = ToSet(SubSeq(ops, 1, n)) \union ToSet(rest)
         /\ InOrder(ops) => InOrder(rest)
<1> DEFINE rest == SubSeq(ops, n + 1, Len(ops))
           first == SubSeq(ops, 1, n)
<1>1. /\ Len(ops) \in Nat /\ n \in Nat /\ n <= Len(ops) /\ DOMAIN ops = 1..Len(ops)
      /\ rest \in Seq(V) /\ Len(rest) = Len(ops) - n /\ DOMAIN rest = 1..(Len(ops) - n)
      /\ \A i \in 1..(Len(ops) - n) : rest[i] = ops[n + i]
      /\ DOMAIN first = 1..n /\ \A i \in 1..n : first[i] = ops[i]
  <2>1. Len(ops) \in Nat /\ n \in Nat /\ n <= Len(ops) /\ DOMAIN ops = 1..Len(ops)
    OBVIOUS
  <2>2. rest \in Seq(V) /\ Len(rest) = Len(ops) - n
    <3>1. n + 1 \in Int /\ Len(ops) \in Int /\ \A i \in (n + 1)..Len(ops) : ops[i] \in V
      BY <2>1
    <3>2. rest \in Seq(V) /\ Len(rest) = IF n + 1 <= Len(ops) THEN Len(ops) - (n + 1) + 1 ELSE 0
      BY <3>1, SubSeqProperties
    <3>3. PICK l \in Nat : l = Len(ops)
      BY <2>1
    <3>4. n \in Nat /\ n <= l
      BY <2>1, <3>3
    <3>5. (IF n + 1 <= l THEN l - (n + 1) + 1 ELSE 0) = l - n
      BY <3>4
    <3> QED
      BY <3>2, <3>3, <3>5
  <2>3. DOMAIN rest = 1..(Len(ops) - n)
    BY <2>2
  <2>4. \A i \in 1..(Len(ops) - n) : rest[i] = ops[n + i]
    BY <2>1
  <2>5. DOMAIN first = 1..n /\ \A i \in 1..n : first[i] = ops[i]
    BY <2>1
  <2> QED
    BY <2>1, <2>2, <2>3, <2>4, <2>5
<1> HIDE DEF rest, first
<1>2. ToSet(rest) \subseteq ToSet(ops)
  <2>1. ASSUME NEW i \in DOMAIN rest PROVE n + i \in DOMAIN ops /\ rest[i] = ops[n + i]
    BY <1>1
  <2> QED
    BY <2>1 DEF ToSet
<1>3. ToSet(first) \subseteq ToSet(ops)
  <2>1. ASSUME NEW i \in DOMAIN first PROVE i \in DOMAIN ops /\ first[i] = ops[i]
    BY <1>1
  <2> QED
    BY <2>1 DEF ToSet
<1>4. ToSet(ops) \subseteq ToSet(first) \union ToSet(rest)
  <2>1. ASSUME NEW i \in DOMAIN ops PROVE ops[i] \in ToSet(first) \union ToSet(rest)
    <3>1. CASE i <= n
      <4>1. i \in DOMAIN first /\ first[i] = ops[i]
        BY <1>1, <3>1
      <4> QED
        BY <4>1 DEF ToSet
    <3>2. CASE i > n
      <4>1. i - n \in DOMAIN rest /\ rest[i - n] = ops[i]
        BY <1>1, <3>2
      <4> QED
        BY <4>1 DEF ToSet
    <3> QED
      BY <1>1, <3>1, <3>2
  <2> QED
    BY <2>1 DEF ToSet
<1>5. ASSUME InOrder(ops), NEW i \in DOMAIN rest, NEW j \in DOMAIN rest, i < j
      PROVE  rest[i].data < rest[j].data /\ rest[i].id < rest[j].id
  <2>1. n + i \in DOMAIN ops /\ n + j \in DOMAIN ops /\ n + i < n + j
        /\ rest[i] = ops[n + i] /\ rest[j] = ops[n + j]
    BY <1>1, <1>5
  <2> QED
    BY <1>5, <2>1 DEF InOrder
<1>6. InOrder(ops) => InOrder(rest)
  BY <1>5 DEF InOrder
<1>7. Len(rest) <= Len(ops)
  BY <1>1
<1>8. ToSet(ops) = ToSet(first) \union ToSet(rest)
  BY <1>2, <1>3, <1>4
<1> QED
  BY <1>1, <1>2, <1>3, <1>6, <1>7, <1>8 DEF rest, first

LEMMA TailIsDrop ==
  ASSUME NEW V, NEW ops \in Seq(V), Len(ops) > 0
  PROVE  Tail(ops) = SubSeq(ops, 2, Len(ops))
OBVIOUS

(* What the bounded queue keeps.                                           *)
LEMMA QueuedFacts ==
  ASSUME NEW V, NEW ops \in Seq(V), NEW op \in V, Len(ops) <= OutboxLimit
  PROVE  /\ Queued(ops, op) \in Seq(V)
         /\ Len(Queued(ops, op)) <= OutboxLimit
         /\ op \in ToSet(Queued(ops, op))
         /\ ToSet(Queued(ops, op)) \subseteq ToSet(ops) \union {op}
         /\ InOrder(Append(ops, op)) => InOrder(Queued(ops, op))
<1> DEFINE all == Append(ops, op)
<1>1. all \in Seq(V) /\ Len(all) = Len(ops) + 1 /\ Len(ops) \in Nat /\ all[Len(all)] = op
      /\ DOMAIN all = 1..Len(all)
  OBVIOUS
<1>2. ToSet(all) = ToSet(ops) \union {op}
  BY AppendElements
<1>3. OutboxLimit \in Nat /\ OutboxLimit >= 1
  BY SyncAssumption
<1>4. Queued(ops, op) = IF Len(all) > OutboxLimit THEN Tail(all) ELSE all
  BY DEF Queued
<1> HIDE DEF all
<1>5. CASE Len(all) > OutboxLimit
  <2> DEFINE rest == SubSeq(all, 1 + 1, Len(all))
  <2>1. Queued(ops, op) = rest
    BY <1>1, <1>3, <1>4, <1>5, TailIsDrop
  <2>2. 1 \in 0..Len(all)
    BY <1>1
  <2>3. rest \in Seq(V) /\ ToSet(rest) \subseteq ToSet(all) /\ (InOrder(all) => InOrder(rest))
    BY <1>1, <2>2, DropFacts
  <2>4. Len(rest) = Len(all) - 1 /\ rest[Len(all) - 1] = op /\ Len(all) - 1 \in DOMAIN rest
    BY <1>1, <1>3, <1>5
  <2> HIDE DEF rest
  <2>5. op \in ToSet(rest)
    BY <2>4 DEF ToSet
  <2> QED
    BY <1>1, <1>2, <1>3, <2>1, <2>3, <2>4, <2>5 DEF all
<1>6. CASE ~(Len(all) > OutboxLimit)
  BY <1>1, <1>2, <1>3, <1>4, <1>6 DEF all
<1> QED
  BY <1>5, <1>6

LEMMA AppendInOrder ==
  ASSUME NEW V, NEW ops \in Seq(V), NEW op, InOrder(ops),
         \A x \in ToSet(ops) : x.data < op.data /\ x.id < op.id
  PROVE  InOrder(Append(ops, op))
<1> DEFINE all == Append(ops, op)
<1>1. DOMAIN all = 1..(Len(ops) + 1) /\ DOMAIN ops = 1..Len(ops) /\ Len(ops) \in Nat
      /\ all[Len(ops) + 1] = op /\ \A i \in 1..Len(ops) : all[i] = ops[i]
  OBVIOUS
<1> HIDE DEF all
<1>2. ASSUME NEW i \in DOMAIN all, NEW j \in DOMAIN all, i < j
      PROVE  all[i].data < all[j].data /\ all[i].id < all[j].id
  <2>1. i \in DOMAIN ops /\ all[i] = ops[i]
    BY <1>1, <1>2
  <2>2. CASE j \in DOMAIN ops
    BY <1>1, <1>2, <2>1, <2>2 DEF InOrder
  <2>3. CASE j = Len(ops) + 1
    BY <1>1, <2>1, <2>3 DEF ToSet
  <2> QED
    BY <1>1, <2>2, <2>3
<1> QED
  BY <1>2 DEF InOrder, all

-----------------------------------------------------------------------------
(* The types. Calls carry batches of recorded changes, and one that was    *)
(* sent to the API has a session.                                          *)
CacheSet(n) == [of : 0..n, changes : Nat]
SavedSet(M, n, c) == [outbox : Seq(M), cache : CacheSet(n), next : 1..c + 1]
ReplySet(n) == [status : {"none", "active", "deleted", "session-expired", "refused"},
                cache : CacheSet(n)]
CallSet(M, n, g) == [phase : {"idle", "create", "asked", "answered"}, sent : Seq(M),
                     grant : 0..g, reply : ReplySet(n)]
Batches(M, g) == [grant : 1..g, sent : Seq(M)]
Sent == {"sync", "hydrate", "skip"}
Granted(k, c) == c.phase \in {"asked", "answered"} /\ k \in Sent => c.grant # 0

MadeTyped ==
  /\ made \subseteq Changes /\ IsFiniteSet(made) /\ Cardinality(made) \in 0..MaxOps
  /\ given \subseteq made
  /\ \A op \in made : op.data <= Cardinality(made) /\ op.of \in 1..Len(log)
ServerTyped ==
  /\ tombstoned \subseteq {Home}
  /\ log \in Seq(Seq(made)) /\ Len(log) \in 1..MaxProfiles
  /\ sessions \in Seq([profile : 1..Len(log), live : BOOLEAN])
PageTyped == /\ started \in [Devices -> BOOLEAN] /\ deleted \in [Devices -> BOOLEAN]
             /\ due \in [Devices -> BOOLEAN] /\ grant \in [Devices -> 0..Len(sessions)]
StoreTyped ==
  /\ outbox \in [Devices -> Seq(made)] /\ cache \in [Devices -> CacheSet(Len(log))]
  /\ next \in [Devices -> 1..Cardinality(made) + 1]
  /\ stored \in [Devices -> SavedSet(made, Len(log), Cardinality(made))]
  /\ \A d \in Devices : Len(outbox[d]) <= OutboxLimit /\ Len(stored[d].outbox) <= OutboxLimit
CallsTyped ==
  /\ calls \in [Devices -> [Kinds -> CallSet(made, Len(log), Len(sessions))]]
  /\ \A d \in Devices : \A k \in Kinds : Granted(k, calls[d][k])
LateTyped == late \subseteq Batches(made, Len(sessions))
Types == MadeTyped /\ ServerTyped /\ PageTyped /\ StoreTyped /\ CallsTyped /\ LateTyped

LEMMA TypesGiveTypeOK == Types => TypeOK
<1> SUFFICES ASSUME Types PROVE TypeOK
  OBVIOUS
<1>1. tombstoned \subseteq {Home} /\ Len(log) <= MaxProfiles
  BY DEF Types, ServerTyped
<1>2. \A g \in DOMAIN sessions : sessions[g] \in [profile : 1..Len(log), live : BOOLEAN]
  BY ElementOf DEF Types, ServerTyped
<1>3. made \subseteq Changes /\ given \subseteq made
  BY DEF Types, MadeTyped
<1>4. \A p \in DOMAIN log : ToSet(log[p]) \subseteq made
  BY ElementsIn DEF Types, ServerTyped
<1>5. ASSUME NEW d \in Devices
      PROVE  /\ grant[d] \in 0..Len(sessions) /\ cache[d].of \in 0..Len(log)
             /\ Len(outbox[d]) <= OutboxLimit /\ ToSet(outbox[d]) \subseteq made
             /\ ToSet(stored[d].outbox) \subseteq made /\ next[d] \in 1..MaxOps + 1
             /\ \A k \in Kinds : calls[d][k].phase \in {"idle", "create", "asked", "answered"}
  <2>1. grant[d] \in 0..Len(sessions)
    BY DEF Types, PageTyped
  <2>2. /\ cache[d] \in CacheSet(Len(log)) /\ Len(outbox[d]) <= OutboxLimit
        /\ outbox[d] \in Seq(made) /\ stored[d].outbox \in Seq(made)
        /\ next[d] \in 1..Cardinality(made) + 1
    BY DEF Types, StoreTyped, SavedSet
  <2>3. ToSet(outbox[d]) \subseteq made /\ ToSet(stored[d].outbox) \subseteq made
    BY <2>2, ElementsIn
  <2>4. next[d] \in 1..MaxOps + 1
    BY <2>2, SyncAssumption DEF Types, MadeTyped
  <2>5. \A k \in Kinds : calls[d][k].phase \in {"idle", "create", "asked", "answered"}
    BY DEF Types, CallsTyped, CallSet
  <2> QED
    BY <2>1, <2>2, <2>3, <2>4, <2>5 DEF CacheSet
<1> QED
  BY <1>1, <1>2, <1>3, <1>4, <1>5 DEF TypeOK

LEMMA SetsGrow ==
  ASSUME NEW A, NEW B, A \subseteq B, NEW n \in Nat, NEW m \in Nat, n <= m,
         NEW c \in Nat, NEW e \in Nat, c <= e, NEW g \in Nat, NEW h \in Nat, g <= h
  PROVE  /\ CacheSet(n) \subseteq CacheSet(m)
         /\ SavedSet(A, n, c) \subseteq SavedSet(B, m, e)
         /\ CallSet(A, n, g) \subseteq CallSet(B, m, h)
         /\ Batches(A, g) \subseteq Batches(B, h)
<1>1. Seq(A) \subseteq Seq(B)
  BY SeqGrows
<1>2. 0..n \subseteq 0..m /\ 1..c + 1 \subseteq 1..e + 1 /\ 0..g \subseteq 0..h /\ 1..g \subseteq 1..h
  OBVIOUS
<1>3. CacheSet(n) \subseteq CacheSet(m)
  BY <1>2 DEF CacheSet
<1>4. SavedSet(A, n, c) \subseteq SavedSet(B, m, e)
  BY <1>1, <1>2, <1>3 DEF SavedSet
<1>5. ReplySet(n) \subseteq ReplySet(m)
  BY <1>3 DEF ReplySet
<1>6. CallSet(A, n, g) \subseteq CallSet(B, m, h)
  BY <1>1, <1>2, <1>5 DEF CallSet
<1>7. Batches(A, g) \subseteq Batches(B, h)
  BY <1>1, <1>2 DEF Batches
<1> QED
  BY <1>3, <1>4, <1>6, <1>7

(* What every step leaves in place.                                        *)
Widens == /\ made \subseteq made' /\ Cardinality(made) <= Cardinality(made')
          /\ Cardinality(made') \in Nat
          /\ Len(log) <= Len(log') /\ Len(log') \in Nat
          /\ Len(sessions) <= Len(sessions') /\ Len(sessions') \in Nat

LEMMA Sizes ==
  ASSUME Types
  PROVE  Len(log) \in Nat /\ Len(sessions) \in Nat /\ Cardinality(made) \in Nat
BY DEF Types, ServerTyped, MadeTyped

LEMMA WiderSets ==
  ASSUME Types, Widens
  PROVE  /\ Seq(made) \subseteq Seq(made')
         /\ CacheSet(Len(log)) \subseteq CacheSet(Len(log'))
         /\ SavedSet(made, Len(log), Cardinality(made))
              \subseteq SavedSet(made', Len(log'), Cardinality(made'))
         /\ CallSet(made, Len(log), Len(sessions))
              \subseteq CallSet(made', Len(log'), Len(sessions'))
         /\ Batches(made, Len(sessions)) \subseteq Batches(made', Len(sessions'))
<1>1. PICK n \in Nat : n = Len(log)
  BY Sizes
<1>2. PICK m \in Nat : m = Len(log')
  BY DEF Widens
<1>3. PICK c \in Nat : c = Cardinality(made)
  BY Sizes
<1>4. PICK e \in Nat : e = Cardinality(made')
  BY DEF Widens
<1>5. PICK g \in Nat : g = Len(sessions)
  BY Sizes
<1>6. PICK h \in Nat : h = Len(sessions')
  BY DEF Widens
<1>7. PICK A : A = made
  OBVIOUS
<1>8. PICK B : B = made'
  OBVIOUS
<1>9. A \subseteq B /\ n <= m /\ c <= e /\ g <= h
  BY <1>1, <1>2, <1>3, <1>4, <1>5, <1>6, <1>7, <1>8 DEF Widens
<1>10. Seq(A) \subseteq Seq(B)
  BY <1>9, SeqGrows
<1> QED
  BY <1>1, <1>2, <1>3, <1>4, <1>5, <1>6, <1>7, <1>8, <1>9, <1>10, SetsGrow

(* What is not touched keeps its type.                                     *)
LEMMA UntouchedStore ==
  ASSUME Types, Widens, UNCHANGED store
  PROVE  StoreTyped'
<1>1. 1..Cardinality(made) + 1 \subseteq 1..Cardinality(made') + 1
  BY Sizes DEF Widens
<1> QED
  BY <1>1, WiderSets DEF Types, StoreTyped, store

LEMMA UntouchedCalls ==
  ASSUME Types, Widens, UNCHANGED calls
  PROVE  CallsTyped'
<1>1. calls \in [Devices -> [Kinds -> CallSet(made, Len(log), Len(sessions))]]
  BY DEF Types, CallsTyped
<1>2. calls' \in [Devices -> [Kinds -> CallSet(made', Len(log'), Len(sessions'))]]
  BY <1>1, WiderSets
<1> QED
  BY <1>2 DEF Types, CallsTyped

LEMMA OneCallTyped ==
  ASSUME Types, Widens, NEW d \in Devices, NEW k \in Kinds, NEW c,
         SetCall(d, k, c), c \in CallSet(made', Len(log'), Len(sessions')), Granted(k, c)
  PROVE  CallsTyped'
<1> DEFINE new == CallSet(made', Len(log'), Len(sessions'))
<1>1. calls \in [Devices -> [Kinds -> new]]
  <2>1. calls \in [Devices -> [Kinds -> CallSet(made, Len(log), Len(sessions))]]
    BY DEF Types, CallsTyped
  <2> QED
    BY <2>1, WiderSets
<1>2. calls' = [calls EXCEPT ![d] = [calls[d] EXCEPT ![k] = c]]
  BY <1>1 DEF SetCall
<1>3. c \in new
  OBVIOUS
<1> HIDE DEF new
<1>4. calls[d] \in [Kinds -> new]
  BY <1>1
<1>5. [calls[d] EXCEPT ![k] = c] \in [Kinds -> new]
  BY <1>3, <1>4
<1>6. calls' \in [Devices -> [Kinds -> new]]
  BY <1>1, <1>2, <1>5
<1>7. ASSUME NEW x \in Devices, NEW j \in Kinds PROVE Granted(j, calls'[x][j])
  <2>1. CASE x = d /\ j = k
    BY <1>1, <1>2, <2>1
  <2>2. CASE ~(x = d /\ j = k)
    <3>1. calls'[x][j] = calls[x][j]
      BY <1>1, <1>2, <2>2
    <3> QED
      BY <3>1 DEF Types, CallsTyped
  <2> QED
    BY <2>1, <2>2
<1> QED
  BY <1>6, <1>7 DEF CallsTyped, new

LEMMA OrphansTyped ==
  ASSUME Types, NEW d \in Devices
  PROVE  Orphans(d) \subseteq Batches(made, Len(sessions))
<1>1. /\ calls[d]["sync"] \in CallSet(made, Len(log), Len(sessions))
      /\ Granted("sync", calls[d]["sync"])
  BY DEF Types, CallsTyped, Kinds
<1> QED
  BY <1>1, Sizes DEF Orphans, Batches, CallSet, Granted, Sent

LEMMA NoChange ==
  ASSUME Types, UNCHANGED <<made, log, sessions>>
  PROVE  Widens
BY Sizes DEF Widens

(* A batch that waits for an answer, or the start of a call.               *)
LEMMA CallInSet ==
  ASSUME NEW M, NEW n \in Nat, NEW g \in Nat, NEW phase \in {"create", "asked"},
         NEW sent \in Seq(M), NEW x \in 0..g
  PROVE  Call(phase, sent, x) \in CallSet(M, n, g)
<1>1. Call(phase, sent, x) = [phase |-> phase, sent |-> sent, grant |-> x, reply |-> NoReply]
  BY DEF Call
<1>2. NoReply \in ReplySet(n)
  BY DEF NoReply, NoCache, ReplySet, CacheSet
<1> QED
  BY <1>1, <1>2 DEF CallSet

LEMMA IdleInSet ==
  ASSUME NEW M, NEW n \in Nat, NEW g \in Nat
  PROVE  Idle \in CallSet(M, n, g)
<1>1. NoReply \in ReplySet(n)
  BY DEF NoReply, NoCache, ReplySet, CacheSet
<1>2. <<>> \in Seq(M)
  OBVIOUS
<1> QED
  BY <1>1, <1>2 DEF CallSet, Idle

LEMMA NothingInSet ==
  ASSUME NEW M, NEW n \in Nat, NEW c \in Nat
  PROVE  Nothing \in SavedSet(M, n, c) /\ NoCache \in CacheSet(n)
<1>1. NoCache \in CacheSet(n)
  BY DEF NoCache, CacheSet
<1>2. <<>> \in Seq(M)
  OBVIOUS
<1> QED
  BY <1>1, <1>2 DEF SavedSet, Nothing

(* Save writes the device's record, or fails.                              *)
LEMMA SavedTyped ==
  ASSUME Types, Widens, NEW d \in Devices, Save(d),
         outbox' \in [Devices -> Seq(made')], cache' \in [Devices -> CacheSet(Len(log'))],
         next' \in [Devices -> 1..Cardinality(made') + 1],
         \A x \in Devices : Len(outbox'[x]) <= OutboxLimit
  PROVE  StoreTyped'
<1> DEFINE saved == SavedSet(made', Len(log'), Cardinality(made'))
           entry == [outbox |-> outbox'[d], cache |-> cache'[d], next |-> next'[d]]
<1>1. stored \in [Devices -> saved]
  BY WiderSets DEF Types, StoreTyped
<1>2. entry \in saved /\ Len(entry.outbox) <= OutboxLimit
  BY DEF SavedSet
<1>3. stored' = [stored EXCEPT ![d] = entry] \/ stored' = stored
  BY DEF Save
<1> HIDE DEF entry, saved
<1>4. stored' \in [Devices -> saved]
  BY <1>1, <1>2, <1>3
<1>5. ASSUME NEW x \in Devices PROVE Len(stored'[x].outbox) <= OutboxLimit
  <2>1. Len(stored[x].outbox) <= OutboxLimit
    BY DEF Types, StoreTyped
  <2>2. stored'[x] = stored[x] \/ stored'[x] = entry
    BY <1>1, <1>3
  <2> QED
    BY <1>2, <2>1, <2>2
<1> QED
  BY <1>4, <1>5 DEF StoreTyped, saved

LEMMA ClearedTyped ==
  ASSUME Types, Widens, NEW d \in Devices, Clear(d),
         next' \in [Devices -> 1..Cardinality(made') + 1]
  PROVE  StoreTyped'
<1> DEFINE saved == SavedSet(made', Len(log'), Cardinality(made'))
<1>1. stored \in [Devices -> saved] /\ outbox \in [Devices -> Seq(made')]
      /\ cache \in [Devices -> CacheSet(Len(log'))]
  BY WiderSets DEF Types, StoreTyped
<1>2. Nothing \in saved /\ NoCache \in CacheSet(Len(log'))
  BY NothingInSet DEF Widens
<1>3. stored' = [stored EXCEPT ![d] = Nothing] /\ outbox' = [outbox EXCEPT ![d] = <<>>]
      /\ cache' = [cache EXCEPT ![d] = NoCache]
  BY DEF Clear
<1> HIDE DEF saved
<1>4. stored' \in [Devices -> saved] /\ cache' \in [Devices -> CacheSet(Len(log'))]
  BY <1>1, <1>2, <1>3
<1>5. outbox' \in [Devices -> Seq(made')]
  <2>1. <<>> \in Seq(made')
    OBVIOUS
  <2> QED
    BY <1>1, <1>3, <2>1
<1>6. ASSUME NEW x \in Devices
      PROVE  Len(outbox'[x]) <= OutboxLimit /\ Len(stored'[x].outbox) <= OutboxLimit
  <2>1. Len(outbox[x]) <= OutboxLimit /\ Len(stored[x].outbox) <= OutboxLimit
    BY DEF Types, StoreTyped
  <2>2. Len(<<>>) <= OutboxLimit /\ Nothing.outbox = <<>>
    BY SyncAssumption DEF Nothing
  <2>3. CASE x = d
    BY <1>1, <1>3, <2>2, <2>3
  <2>4. CASE x # d
    BY <1>1, <1>3, <2>1, <2>4
  <2> QED
    BY <2>3, <2>4
<1> QED
  BY <1>4, <1>5, <1>6 DEF StoreTyped, saved

LEMMA ClearedGiven ==
  ASSUME Types, NEW d \in Devices, Clear(d)
  PROVE  given' \subseteq made
<1>1. ToSet(outbox[d]) \subseteq made
  BY ElementsIn DEF Types, StoreTyped
<1> QED
  BY <1>1 DEF Clear, Types, MadeTyped

(* Steps that leave changes, log and sessions alone.                       *)
LEMMA QuietTyped ==
  ASSUME Types, UNCHANGED <<made, log, sessions>>, given' \subseteq made,
         tombstoned' \subseteq {Home}
  PROVE  MadeTyped' /\ ServerTyped' /\ Widens
         /\ (UNCHANGED late => LateTyped')
BY NoChange DEF Types, MadeTyped, ServerTyped, LateTyped

-----------------------------------------------------------------------------
(* Every action keeps the types.                                           *)
Change(d) == [dev |-> d, id |-> next[d], of |-> cache[d].of, data |-> Cardinality(made) + 1]

LEMMA RecordFacts ==
  ASSUME Types, NEW d \in Devices, Record(d)
  PROVE  /\ Change(d) \in Changes /\ Change(d) \notin made
         /\ made' = made \union {Change(d)}
         /\ IsFiniteSet(made') /\ Cardinality(made') = Cardinality(made) + 1
         /\ Cardinality(made') \in 0..MaxOps
         /\ outbox' = [outbox EXCEPT ![d] = Queued(outbox[d], Change(d))]
         /\ Change(d).of \in 1..Len(log)
         /\ Widens
<1>1. /\ made' = made \union {Change(d)}
      /\ outbox' = [outbox EXCEPT ![d] = Queued(outbox[d], Change(d))]
      /\ Cardinality(made) < MaxOps /\ cache[d].of # 0 /\ UNCHANGED server
  BY DEF Record, Change
<1>2. /\ IsFiniteSet(made) /\ Cardinality(made) \in Nat /\ MaxOps \in Nat /\ Len(log) \in Nat
      /\ Len(log) <= MaxProfiles /\ MaxProfiles \in Nat
      /\ \A op \in made : op.data <= Cardinality(made)
  BY SyncAssumption DEF Types, MadeTyped, ServerTyped
<1>3. Change(d).data = Cardinality(made) + 1
  BY DEF Change
<1>4. Change(d) \notin made
  BY <1>2, <1>3
<1>5. IsFiniteSet(made') /\ Cardinality(made') = Cardinality(made) + 1
  BY <1>1, <1>2, <1>4, FS_AddElement
<1>6. cache[d].of \in 1..Len(log) /\ next[d] \in 1..Cardinality(made) + 1
  BY <1>1, <1>2 DEF Types, StoreTyped, CacheSet
<1>7. Change(d) \in Changes
  BY <1>1, <1>2, <1>6 DEF Change, Changes, Profiles
<1>8. Len(sessions) \in Nat
  BY Sizes
<1> QED
  BY <1>1, <1>2, <1>4, <1>5, <1>6, <1>7, <1>8 DEF Widens, Change, server

LEMMA RecordTypes ==
  ASSUME Types, NEW d \in Devices, Record(d)
  PROVE  Types'
<1>1. /\ Change(d) \in Changes
      /\ made' = made \union {Change(d)}
      /\ IsFiniteSet(made') /\ Cardinality(made') = Cardinality(made) + 1
      /\ Cardinality(made') \in 0..MaxOps
      /\ outbox' = [outbox EXCEPT ![d] = Queued(outbox[d], Change(d))]
      /\ Change(d).of \in 1..Len(log)
      /\ Widens
  BY RecordFacts
<1>2. /\ UNCHANGED <<tombstoned, sessions, log, started, deleted, cache, grant, calls, late>>
      /\ given' = given \union (ToSet(outbox[d]) \ ToSet(outbox'[d]))
      /\ next' = [next EXCEPT ![d] = @ + 1]
      /\ \E online \in BOOLEAN : due' = [due EXCEPT ![d] = @ \/ online]
      /\ Save(d)
  BY DEF Record, server
<1>3. outbox[d] \in Seq(made) /\ ToSet(outbox[d]) \subseteq made /\ Len(outbox[d]) <= OutboxLimit
  BY ElementsIn DEF Types, StoreTyped
<1>4. MadeTyped'
  <2>1. ASSUME NEW op \in made' PROVE op.data <= Cardinality(made') /\ op.of \in 1..Len(log')
    <3>1. CASE op \in made
      BY <1>1, <1>2, <3>1 DEF Types, MadeTyped, Changes
    <3>2. CASE op = Change(d)
      <4>1. op.data = Cardinality(made')
        BY <1>1, <3>2 DEF Change
      <4> QED
        BY <1>1, <1>2, <3>2, <4>1
    <3> QED
      BY <1>1, <3>1, <3>2
  <2>2. made' \subseteq Changes /\ given' \subseteq made'
    BY <1>1, <1>2, <1>3 DEF Types, MadeTyped
  <2> QED
    BY <1>1, <2>1, <2>2 DEF MadeTyped
<1>5. ServerTyped'
  <2>1. Seq(Seq(made)) \subseteq Seq(Seq(made'))
    BY <1>1, SeqGrows, WiderSets
  <2> QED
    BY <1>2, <2>1 DEF Types, ServerTyped
<1>6. PageTyped'
  BY <1>2 DEF Types, PageTyped
<1>7. StoreTyped'
  <2>1. Queued(outbox[d], Change(d)) \in Seq(made') /\ Len(Queued(outbox[d], Change(d))) <= OutboxLimit
    <3>1. outbox[d] \in Seq(made') /\ Change(d) \in made'
      BY <1>1, <1>3, SeqGrows
    <3> QED
      BY <1>3, <3>1, QueuedFacts
  <2>2. outbox \in [Devices -> Seq(made')] /\ \A x \in Devices : Len(outbox[x]) <= OutboxLimit
    BY <1>1, WiderSets DEF Types, StoreTyped
  <2>3. outbox' \in [Devices -> Seq(made')] /\ \A x \in Devices : Len(outbox'[x]) <= OutboxLimit
    BY <1>1, <2>1, <2>2
  <2>4. cache' \in [Devices -> CacheSet(Len(log'))]
    BY <1>2 DEF Types, StoreTyped
  <2>5. next' \in [Devices -> 1..Cardinality(made') + 1]
    <3>1. PICK c \in Nat : c = Cardinality(made)
      BY Sizes
    <3>2. next \in [Devices -> 1..c + 1]
      BY <3>1 DEF Types, StoreTyped
    <3>3. next' \in [Devices -> 1..(c + 1) + 1]
      BY <1>2, <3>2
    <3> QED
      BY <1>1, <3>1, <3>3
  <2> QED
    BY <1>1, <1>2, <2>3, <2>4, <2>5, SavedTyped
<1>8. CallsTyped'
  BY <1>1, <1>2, UntouchedCalls
<1>9. LateTyped'
  BY <1>1, <1>2, WiderSets DEF Types, LateTyped
<1> QED
  BY <1>4, <1>5, <1>6, <1>7, <1>8, <1>9 DEF Types

LEMMA StartSyncTypes ==
  ASSUME Types, NEW d \in Devices, StartSync(d)
  PROVE  Types'
<1>1. PICK n \in 0..Len(outbox[d]) :
        /\ given' = given \union ToSet(SubSeq(outbox[d], 1, n))
        /\ outbox' = [outbox EXCEPT ![d] = SubSeq(outbox[d], n + 1, Len(outbox[d]))]
  BY DEF StartSync
<1>2. /\ UNCHANGED <<tombstoned, sessions, log, started, deleted, cache, next, stored, grant, late, made>>
      /\ due' = [due EXCEPT ![d] = FALSE]
      /\ SetCall(d, "sync", Call(IF grant[d] = 0 THEN "create" ELSE "asked", outbox'[d], grant[d]))
  BY DEF StartSync, server
<1> DEFINE rest == SubSeq(outbox[d], n + 1, Len(outbox[d]))
<1>3. outbox[d] \in Seq(made) /\ Len(outbox[d]) <= OutboxLimit /\ outbox \in [Devices -> Seq(made)]
  BY DEF Types, StoreTyped
<1>4. rest \in Seq(made) /\ Len(rest) <= Len(outbox[d])
      /\ ToSet(SubSeq(outbox[d], 1, n)) \subseteq made
  BY <1>3, DropFacts, ElementsIn
<1>5. outbox' = [outbox EXCEPT ![d] = rest]
  BY <1>1
<1> HIDE DEF rest
<1>6. given' \subseteq made
  BY <1>1, <1>4 DEF Types, MadeTyped
<1>7. MadeTyped' /\ ServerTyped' /\ Widens /\ LateTyped'
  BY <1>2, <1>6, QuietTyped DEF Types, ServerTyped
<1>8. PageTyped'
  BY <1>2 DEF Types, PageTyped
<1>9. StoreTyped'
  <2>1. outbox' \in [Devices -> Seq(made)]
    BY <1>3, <1>4, <1>5
  <2>2. ASSUME NEW x \in Devices PROVE Len(outbox'[x]) <= OutboxLimit
    <3>1. Len(rest) <= OutboxLimit
      <4>1. Len(rest) \in Nat /\ Len(outbox[d]) \in Nat /\ OutboxLimit \in Nat
        BY <1>3, <1>4, SyncAssumption
      <4> QED
        BY <1>3, <1>4, <4>1
    <3>2. Len(outbox[x]) <= OutboxLimit
      BY DEF Types, StoreTyped
    <3> QED
      BY <1>3, <1>5, <3>1, <3>2
  <2> QED
    BY <1>2, <2>1, <2>2 DEF Types, StoreTyped
<1>10. CallsTyped'
  <2>1. outbox'[d] \in Seq(made) /\ grant[d] \in 0..Len(sessions)
    BY <1>3, <1>4, <1>5 DEF Types, PageTyped
  <2> DEFINE c == Call(IF grant[d] = 0 THEN "create" ELSE "asked", outbox'[d], grant[d])
  <2>2. c \in CallSet(made, Len(log), Len(sessions))
    BY <2>1, Sizes, CallInSet
  <2>3. Granted("sync", c)
    BY DEF Granted, Call
  <2>4. "sync" \in Kinds
    BY DEF Kinds
  <2> QED
    BY <1>2, <1>7, <2>2, <2>3, <2>4, OneCallTyped
<1> QED
  BY <1>7, <1>8, <1>9, <1>10 DEF Types

(* A call starts, or ends without a reply.                                 *)
LEMMA QuietCallTypes ==
  ASSUME Types, NEW d \in Devices, NEW k \in Kinds, NEW c,
         UNCHANGED <<tombstoned, sessions, log, made, given, store, grant>>,
         SetCall(d, k, c), c \in CallSet(made, Len(log), Len(sessions)), Granted(k, c),
         PageTyped', LateTyped'
  PROVE  Types'
<1>1. MadeTyped' /\ ServerTyped' /\ Widens
  BY QuietTyped DEF Types, MadeTyped, ServerTyped
<1>2. StoreTyped'
  BY <1>1, UntouchedStore
<1>3. CallsTyped'
  BY <1>1, OneCallTyped
<1> QED
  BY <1>1, <1>2, <1>3 DEF Types

LEMMA SkipTypes ==
  ASSUME Types, NEW d \in Devices, Skip(d)
  PROVE  Types'
<1> DEFINE c == Call(IF grant[d] = 0 THEN "create" ELSE "asked", <<>>, grant[d])
<1>1. SetCall(d, "skip", c) /\ "skip" \in Kinds
      /\ UNCHANGED <<tombstoned, sessions, log, made, given, store, grant, page, late>>
  BY DEF Skip, server, Kinds
<1>2. c \in CallSet(made, Len(log), Len(sessions)) /\ Granted("skip", c)
  <2>1. grant[d] \in 0..Len(sessions) /\ <<>> \in Seq(made)
    BY DEF Types, PageTyped
  <2>2. c \in CallSet(made, Len(log), Len(sessions))
    BY <2>1, Sizes, CallInSet
  <2> QED
    BY <2>2 DEF Granted, Call
<1>3. PageTyped' /\ LateTyped'
  BY <1>1 DEF Types, PageTyped, LateTyped, page
<1> QED
  BY <1>1, <1>2, <1>3, QuietCallTypes

LEMMA StartFreshTypes ==
  ASSUME Types, NEW d \in Devices, StartFresh(d)
  PROVE  Types'
<1> DEFINE c == Call("create", <<>>, 0)
<1>1. SetCall(d, "fresh", c) /\ "fresh" \in Kinds
      /\ UNCHANGED <<tombstoned, sessions, log, made, given, store, grant, page, late>>
  BY DEF StartFresh, server, Kinds
<1>2. c \in CallSet(made, Len(log), Len(sessions)) /\ Granted("fresh", c)
  <2>1. 0 \in 0..Len(sessions) /\ <<>> \in Seq(made)
    BY Sizes
  <2>2. c \in CallSet(made, Len(log), Len(sessions))
    BY <2>1, Sizes, CallInSet
  <2> QED
    BY <2>2 DEF Granted, Sent
<1>3. PageTyped' /\ LateTyped'
  BY <1>1 DEF Types, PageTyped, LateTyped, page
<1> QED
  BY <1>1, <1>2, <1>3, QuietCallTypes

LEMMA ReconcileTypes ==
  ASSUME Types, NEW d \in Devices, Reconcile(d)
  PROVE  Types'
<1>1. UNCHANGED <<tombstoned, sessions, log, started, deleted, store, grant, calls, late, made, given>>
      /\ due' = [due EXCEPT ![d] = TRUE]
  BY DEF Reconcile, server
<1>2. MadeTyped' /\ ServerTyped' /\ Widens /\ LateTyped'
  BY <1>1, QuietTyped DEF Types, MadeTyped, ServerTyped
<1>3. StoreTyped' /\ CallsTyped'
  BY <1>1, <1>2, UntouchedStore, UntouchedCalls
<1>4. PageTyped'
  BY <1>1 DEF Types, PageTyped
<1> QED
  BY <1>2, <1>3, <1>4 DEF Types

LEMMA SignInTypes ==
  ASSUME Types, NEW d \in Devices, SignIn(d)
  PROVE  Types'
<1> DEFINE c == Call("asked", <<>>, 0)
<1>1. SetCall(d, "signin", c) /\ "signin" \in Kinds /\ Clear(d)
      /\ UNCHANGED <<tombstoned, sessions, log, made, next, grant, page, late>>
  BY DEF SignIn, server, Kinds
<1>2. MadeTyped' /\ ServerTyped' /\ Widens /\ LateTyped'
  BY <1>1, QuietTyped, ClearedGiven DEF Types, ServerTyped
<1>3. StoreTyped'
  BY <1>1, <1>2, ClearedTyped DEF Types, StoreTyped
<1>4. CallsTyped'
  <2>1. 0 \in 0..Len(sessions) /\ <<>> \in Seq(made)
    BY Sizes
  <2>2. c \in CallSet(made, Len(log), Len(sessions))
    BY <2>1, Sizes, CallInSet
  <2>3. Granted("signin", c)
    BY DEF Granted, Sent
  <2> QED
    BY <1>1, <1>2, <2>2, <2>3, OneCallTyped
<1>5. PageTyped'
  BY <1>1 DEF Types, PageTyped, page
<1> QED
  BY <1>2, <1>3, <1>4, <1>5 DEF Types

(* A page that ends leaves its calls behind.                               *)
LEMMA AllIdle ==
  ASSUME Types
  PROVE  [k \in Kinds |-> Idle] \in [Kinds -> CallSet(made, Len(log), Len(sessions))]
         /\ \A k \in Kinds : Granted(k, [j \in Kinds |-> Idle][k])
<1>1. Idle \in CallSet(made, Len(log), Len(sessions))
  BY Sizes, IdleInSet
<1>2. \A k \in Kinds : Granted(k, Idle)
  BY DEF Granted, Idle
<1> QED
  BY <1>1, <1>2

LEMMA ReloadTypes ==
  ASSUME Types, NEW d \in Devices, Reload(d)
  PROVE  /\ UNCHANGED <<tombstoned, sessions, log, made, grant>>
         /\ started' \in [Devices -> BOOLEAN] /\ deleted' \in [Devices -> BOOLEAN]
         /\ next' \in [Devices -> 1..Cardinality(made) + 1]
         /\ LateTyped'
<1>1. /\ UNCHANGED <<tombstoned, sessions, log, made, grant>>
      /\ started' = [started EXCEPT ![d] = grant[d] # 0]
      /\ deleted' = [deleted EXCEPT ![d] = FALSE]
      /\ next' = [next EXCEPT ![d] = stored[d].next]
      /\ late' = late \union Orphans(d)
  BY DEF Reload, server
<1>2. stored[d].next \in 1..Cardinality(made) + 1
  BY DEF Types, StoreTyped, SavedSet
<1>3. next' \in [Devices -> 1..Cardinality(made) + 1]
  BY <1>1, <1>2 DEF Types, StoreTyped
<1>4. LateTyped'
  BY <1>1, OrphansTyped DEF Types, LateTyped
<1> QED
  BY <1>1, <1>3, <1>4 DEF Types, PageTyped

LEMMA RestartTypes ==
  ASSUME Types, NEW d \in Devices, Restart(d)
  PROVE  Types'
<1>1. /\ Reload(d)
      /\ outbox' = [outbox EXCEPT ![d] = stored[d].outbox]
      /\ cache' = [cache EXCEPT ![d] = stored[d].cache]
      /\ given' = given \union (ToSet(outbox[d]) \ ToSet(stored[d].outbox))
      /\ due' = [due EXCEPT ![d] = started'[d]]
      /\ calls' = [calls EXCEPT ![d] = [k \in Kinds |-> Idle]]
      /\ UNCHANGED stored
  BY DEF Restart
<1>2. /\ UNCHANGED <<tombstoned, sessions, log, made, grant>>
      /\ started' \in [Devices -> BOOLEAN] /\ deleted' \in [Devices -> BOOLEAN]
      /\ next' \in [Devices -> 1..Cardinality(made) + 1]
      /\ LateTyped'
  BY <1>1, ReloadTypes
<1>3. ToSet(outbox[d]) \subseteq made
  BY ElementsIn DEF Types, StoreTyped
<1>4. MadeTyped' /\ ServerTyped' /\ Widens
  BY <1>1, <1>2, <1>3, QuietTyped DEF Types, MadeTyped, ServerTyped
<1>5. StoreTyped'
  <2>1. /\ stored[d].outbox \in Seq(made) /\ stored[d].cache \in CacheSet(Len(log))
        /\ Len(stored[d].outbox) <= OutboxLimit
    BY DEF Types, StoreTyped, SavedSet
  <2>2. outbox' \in [Devices -> Seq(made)] /\ cache' \in [Devices -> CacheSet(Len(log))]
    BY <1>1, <2>1 DEF Types, StoreTyped
  <2>3. \A x \in Devices : Len(outbox'[x]) <= OutboxLimit
    BY <1>1, <2>1 DEF Types, StoreTyped
  <2> QED
    BY <1>1, <1>2, <2>2, <2>3 DEF Types, StoreTyped
<1>6. CallsTyped'
  <2> DEFINE none == [k \in Kinds |-> Idle]
  <2>1. none \in [Kinds -> CallSet(made, Len(log), Len(sessions))] /\ \A k \in Kinds : Granted(k, none[k])
    BY AllIdle
  <2>2. calls' = [calls EXCEPT ![d] = none]
    BY <1>1
  <2> HIDE DEF none
  <2> QED
    BY <1>2, <2>1, <2>2 DEF Types, CallsTyped
<1>7. PageTyped'
  BY <1>1, <1>2 DEF Types, PageTyped
<1> QED
  BY <1>2, <1>4, <1>5, <1>6, <1>7 DEF Types

LEMMA OpenLinkTypes ==
  ASSUME Types, NEW d \in Devices, OpenLink(d)
  PROVE  Types'
<1> DEFINE c == Call("asked", <<>>, 0)
           none == [k \in Kinds |-> Idle]
           link == [none EXCEPT !["link"] = c]
<1>1. /\ Reload(d) /\ Clear(d)
      /\ due' = [due EXCEPT ![d] = FALSE]
      /\ calls' = [calls EXCEPT ![d] = link]
  BY DEF OpenLink
<1>2. /\ UNCHANGED <<tombstoned, sessions, log, made, grant>>
      /\ started' \in [Devices -> BOOLEAN] /\ deleted' \in [Devices -> BOOLEAN]
      /\ next' \in [Devices -> 1..Cardinality(made) + 1]
      /\ LateTyped'
  BY <1>1, ReloadTypes
<1>4. MadeTyped' /\ ServerTyped' /\ Widens
  BY <1>1, <1>2, ClearedGiven, QuietTyped DEF Types, ServerTyped
<1>5. StoreTyped'
  BY <1>1, <1>2, <1>4, ClearedTyped
<1>6. CallsTyped'
  <2>1. none \in [Kinds -> CallSet(made, Len(log), Len(sessions))] /\ \A k \in Kinds : Granted(k, none[k])
    BY AllIdle
  <2>2. 0 \in 0..Len(sessions) /\ <<>> \in Seq(made)
    BY Sizes
  <2>3. c \in CallSet(made, Len(log), Len(sessions))
    BY <2>2, Sizes, CallInSet
  <2>4. Granted("link", c)
    BY DEF Granted, Sent
  <2> HIDE DEF none, c
  <2>5. link \in [Kinds -> CallSet(made, Len(log), Len(sessions))] /\ \A k \in Kinds : Granted(k, link[k])
    BY <2>1, <2>3, <2>4
  <2> HIDE DEF link
  <2> QED
    BY <1>1, <1>2, <2>5 DEF Types, CallsTyped
<1>7. PageTyped'
  BY <1>1, <1>2 DEF Types, PageTyped
<1> QED
  BY <1>2, <1>4, <1>5, <1>6, <1>7 DEF Types

(* A new session.                                                          *)
LEMMA SessionsGrow ==
  ASSUME Types, UNCHANGED <<made, given, tombstoned>>, NEW p,
         \/ log' = log /\ p \in 1..Len(log)
         \/ log' = Append(log, <<>>) /\ Len(log) < MaxProfiles /\ p = Len(log) + 1,
         sessions' = Append(sessions, [profile |-> p, live |-> TRUE])
  PROVE  /\ Widens /\ MadeTyped' /\ ServerTyped'
         /\ Len(sessions') = Len(sessions) + 1 /\ Len(sessions) \in Nat
<1>1. log \in Seq(Seq(made)) /\ Len(log) \in Nat /\ Len(log) \in 1..MaxProfiles /\ MaxProfiles \in Nat
  BY Sizes, SyncAssumption DEF Types, ServerTyped
<1>2. log' \in Seq(Seq(made)) /\ Len(log') \in 1..MaxProfiles /\ Len(log) <= Len(log') /\ p \in 1..Len(log')
  <2>1. CASE log' = log
    BY <1>1, <2>1
  <2>2. CASE log' = Append(log, <<>>)
    <3>1. <<>> \in Seq(made)
      OBVIOUS
    <3>2. log' \in Seq(Seq(made)) /\ Len(log') = Len(log) + 1
      BY <1>1, <2>2, <3>1
    <3> QED
      BY <1>1, <2>2, <3>2
  <2> QED
    BY <2>1, <2>2
<1>3. 1..Len(log) \subseteq 1..Len(log')
  BY <1>1, <1>2
<1> DEFINE rows == [profile : 1..Len(log'), live : BOOLEAN]
<1>4. sessions \in Seq(rows)
  <2>1. [profile : 1..Len(log), live : BOOLEAN] \subseteq rows
    BY <1>3
  <2> QED
    BY <2>1, SeqGrows DEF Types, ServerTyped
<1>5. [profile |-> p, live |-> TRUE] \in rows
  BY <1>2
<1> HIDE DEF rows
<1>6. sessions' \in Seq(rows) /\ Len(sessions') = Len(sessions) + 1 /\ Len(sessions) \in Nat
  BY <1>4, <1>5
<1>7. ServerTyped'
  BY <1>2, <1>6 DEF Types, ServerTyped, rows
<1>8. MadeTyped'
  BY <1>3 DEF Types, MadeTyped
<1>9. Widens
  BY <1>2, <1>6, Sizes DEF Widens
<1> QED
  BY <1>6, <1>7, <1>8, <1>9

LEMMA GrantTypes ==
  ASSUME Types, NEW d \in Devices, Widens, Len(sessions') = Len(sessions) + 1,
         grant' = [grant EXCEPT ![d] = Len(sessions) + 1]
  PROVE  grant' \in [Devices -> 0..Len(sessions')]
<1>1. PICK n \in Nat : n = Len(sessions)
  BY Sizes
<1>2. grant \in [Devices -> 0..n]
  BY <1>1 DEF Types, PageTyped
<1>3. grant' \in [Devices -> 0..n + 1]
  BY <1>1, <1>2
<1> QED
  BY <1>1, <1>3

LEMMA CreatedTypes ==
  ASSUME Types, NEW d \in Devices, NEW k \in Kinds, Created(d, k)
  PROVE  Types'
<1>1. /\ calls[d][k].phase = "create" /\ Len(log) < MaxProfiles
      /\ log' = Append(log, <<>>)
      /\ sessions' = Append(sessions, [profile |-> Len(log) + 1, live |-> TRUE])
      /\ grant' = [grant EXCEPT ![d] = Len(sessions) + 1]
      /\ UNCHANGED <<tombstoned, deleted, store, late, faults, made, given>>
  BY DEF Created
<1>2. Widens /\ MadeTyped' /\ ServerTyped' /\ Len(sessions') = Len(sessions) + 1 /\ Len(sessions) \in Nat
  BY <1>1, SessionsGrow
<1>3. StoreTyped'
  BY <1>1, <1>2, UntouchedStore
<1>4. LateTyped'
  BY <1>1, <1>2, WiderSets DEF Types, LateTyped
<1>5. grant' \in [Devices -> 0..Len(sessions')]
  BY <1>1, <1>2, GrantTypes
<1>6. CASE k = "fresh"
  <2>1. SetCall(d, k, Idle) /\ started' = [started EXCEPT ![d] = TRUE] /\ due' = [due EXCEPT ![d] = TRUE]
    BY <1>6 DEF Created
  <2>2. Idle \in CallSet(made', Len(log'), Len(sessions')) /\ Granted(k, Idle)
    <3>1. Idle \in CallSet(made', Len(log'), Len(sessions'))
      BY <1>2, IdleInSet DEF Widens
    <3> QED
      BY <3>1 DEF Granted, Idle
  <2>3. CallsTyped'
    BY <1>2, <2>1, <2>2, OneCallTyped
  <2>4. PageTyped'
    BY <1>1, <1>5, <2>1 DEF Types, PageTyped
  <2> QED
    BY <1>2, <1>3, <1>4, <2>3, <2>4 DEF Types
<1>7. CASE k # "fresh"
  <2> DEFINE c == Call("asked", calls[d][k].sent, Len(sessions) + 1)
  <2>1. SetCall(d, k, c) /\ UNCHANGED <<started, due>>
    BY <1>7 DEF Created
  <2>2. c \in CallSet(made', Len(log'), Len(sessions')) /\ Granted(k, c)
    <3>1. calls[d][k].sent \in Seq(made')
      <4>1. calls[d][k].sent \in Seq(made)
        BY DEF Types, CallsTyped, CallSet
      <4> QED
        BY <1>2, <4>1, WiderSets
    <3>2. Len(sessions) + 1 \in 0..Len(sessions') /\ Len(log') \in Nat /\ Len(sessions') \in Nat
      BY <1>2 DEF Widens
    <3>3. c \in CallSet(made', Len(log'), Len(sessions'))
      BY <3>1, <3>2, CallInSet
    <3> QED
      BY <1>2, <3>3 DEF Granted, Call
  <2>3. CallsTyped'
    BY <1>2, <2>1, <2>2, OneCallTyped
  <2>4. PageTyped'
    BY <1>1, <1>5, <2>1 DEF Types, PageTyped
  <2> QED
    BY <1>2, <1>3, <1>4, <2>3, <2>4 DEF Types
<1> QED
  BY <1>6, <1>7

LEMMA JoinedTypes ==
  ASSUME Types, NEW d \in Devices, NEW k \in Kinds, Joined(d, k)
  PROVE  Types'
<1> DEFINE c == Call("asked", <<>>, Len(sessions) + 1)
           ended == [calls[d] EXCEPT ![k] = Idle]
           joined == IF k = "signin" THEN [ended EXCEPT !["hydrate"] = c] ELSE ended
<1>1. /\ UNCHANGED <<tombstoned, log, deleted, store, late, faults, made, given>>
      /\ sessions' = Append(sessions, [profile |-> Home, live |-> TRUE])
      /\ grant' = [grant EXCEPT ![d] = Len(sessions) + 1]
      /\ started' = [started EXCEPT ![d] = TRUE]
      /\ due' = [due EXCEPT ![d] = @ \/ k = "link"]
      /\ calls' = [calls EXCEPT ![d] = joined]
  <2>1. calls' = [calls EXCEPT ![d] = IF k = "signin"
       THEN [@ EXCEPT ![k] = Idle, !["hydrate"] = Call("asked", <<>>, Len(sessions) + 1)]
       ELSE [@ EXCEPT ![k] = Idle]]
    BY DEF Joined
  <2>2. calls' = [calls EXCEPT ![d] = joined]
    BY <2>1
  <2> QED
    BY <2>2 DEF Joined
<1>2. Widens /\ MadeTyped' /\ ServerTyped' /\ Len(sessions') = Len(sessions) + 1 /\ Len(sessions) \in Nat
  <2>1. Home \in 1..Len(log)
    BY Sizes DEF Types, ServerTyped, Home
  <2> QED
    BY <1>1, <2>1, SessionsGrow
<1>3. StoreTyped'
  BY <1>1, <1>2, UntouchedStore
<1>4. LateTyped'
  BY <1>1, <1>2, WiderSets DEF Types, LateTyped
<1>5. PageTyped'
  <2>1. grant' \in [Devices -> 0..Len(sessions')]
    BY <1>1, <1>2, GrantTypes
  <2> QED
    BY <1>1, <2>1 DEF Types, PageTyped
<1>6. CallsTyped'
  <2> DEFINE new == CallSet(made', Len(log'), Len(sessions'))
  <2>1. calls \in [Devices -> [Kinds -> new]]
    <3>1. calls \in [Devices -> [Kinds -> CallSet(made, Len(log), Len(sessions))]]
      BY DEF Types, CallsTyped
    <3> QED
      BY <1>2, <3>1, WiderSets
  <2>2. Idle \in new
    BY <1>2, IdleInSet DEF Widens
  <2>3. c \in new /\ Granted("hydrate", c)
    <3>1. <<>> \in Seq(made') /\ Len(sessions) + 1 \in 0..Len(sessions')
          /\ Len(log') \in Nat /\ Len(sessions') \in Nat
      BY <1>2 DEF Widens
    <3>2. c \in new
      BY <3>1, CallInSet
    <3> QED
      BY <1>2, <3>2 DEF Granted, Call
  <2>4. \A j \in Kinds : Granted(j, Idle) /\ Granted(j, calls[d][j])
    BY DEF Granted, Idle, Types, CallsTyped
  <2> HIDE DEF new, c
  <2>5. ended \in [Kinds -> new] /\ \A j \in Kinds : Granted(j, ended[j])
    BY <2>1, <2>2, <2>4
  <2> HIDE DEF ended
  <2>6. joined \in [Kinds -> new] /\ \A j \in Kinds : Granted(j, joined[j])
    BY <2>3, <2>5
  <2> HIDE DEF joined
  <2>7. calls' \in [Devices -> [Kinds -> new]]
    BY <1>1, <2>1, <2>6
  <2>8. \A x \in Devices : \A j \in Kinds : Granted(j, calls'[x][j])
    BY <1>1, <2>1, <2>6 DEF Types, CallsTyped
  <2> QED
    BY <2>7, <2>8 DEF CallsTyped, new
<1> QED
  BY <1>2, <1>3, <1>4, <1>5, <1>6 DEF Types

LEMMA NotJoinedTypes ==
  ASSUME Types, NEW d \in Devices, NEW k \in Kinds, NotJoined(d, k)
  PROVE  Types'
<1>1. /\ SetCall(d, k, Idle)
      /\ UNCHANGED <<tombstoned, sessions, log, started, deleted, store, grant, late, made, given>>
      /\ due' = [due EXCEPT ![d] = @ \/ (k = "link" /\ started[d])]
  BY DEF NotJoined, server
<1>2. Idle \in CallSet(made, Len(log), Len(sessions)) /\ Granted(k, Idle)
  <2>1. Idle \in CallSet(made, Len(log), Len(sessions))
    BY Sizes, IdleInSet
  <2> QED
    BY <2>1 DEF Granted, Idle
<1>3. PageTyped' /\ LateTyped'
  BY <1>1 DEF Types, PageTyped, LateTyped
<1> QED
  BY <1>1, <1>2, <1>3, QuietCallTypes

LEMMA LoseTypes ==
  ASSUME Types, NEW d \in Devices, NEW k \in Kinds, Lose(d, k)
  PROVE  Types'
<1>1. /\ SetCall(d, k, Idle)
      /\ UNCHANGED <<tombstoned, sessions, log, page, store, grant, made, given>>
      /\ late' = late \/ late' = late \union Orphans(d)
  BY DEF Lose, server
<1>2. Idle \in CallSet(made, Len(log), Len(sessions)) /\ Granted(k, Idle)
  <2>1. Idle \in CallSet(made, Len(log), Len(sessions))
    BY Sizes, IdleInSet
  <2> QED
    BY <2>1 DEF Granted, Idle
<1>3. PageTyped'
  BY <1>1 DEF Types, PageTyped, page
<1>4. LateTyped'
  BY <1>1, OrphansTyped DEF Types, LateTyped
<1> QED
  BY <1>1, <1>2, <1>3, <1>4, QuietCallTypes

(* What stays in the outbox after a reply.                                 *)
LEMMA OnlyShorter ==
  ASSUME NEW V, NEW ops \in Seq(V), NEW S
  PROVE  Len(Only(ops, S)) <= Len(ops)
<1>1. PICK f : Filtering(f, ops, S, Len(ops)) /\ Only(ops, S) = f[Len(ops)]
  BY OnlyIsPrefix
<1>2. Len(ops) \in Nat /\ DOMAIN ops = 1..Len(ops)
  OBVIOUS
<1>3. f[0] = <<>> /\ \A n \in 1..Len(ops) : f[n] = Keep(f[n - 1], ops[n], S)
  BY <1>1, <1>2 DEF Filtering
<1> DEFINE bad == {n \in Nat : n <= Len(ops) /\ ~(f[n] \in Seq(V) /\ Len(f[n]) <= n)}
<1>4. ASSUME bad # {} PROVE FALSE
  <2>1. PICK n \in bad : \A j \in bad : n <= j
    BY <1>4, LeastNumber
  <2>2. n # 0
    <3>1. <<>> \in Seq(V) /\ Len(<<>>) <= 0
      OBVIOUS
    <3> QED
      BY <1>3, <2>1, <3>1
  <2>3. n - 1 \in Nat /\ n - 1 <= Len(ops) /\ n - 1 \notin bad /\ n \in 1..Len(ops)
    BY <1>2, <2>1, <2>2
  <2>4. PICK kept \in Seq(V) : kept = f[n - 1] /\ Len(kept) <= n - 1
    BY <2>3
  <2>5. ops[n] \in V
    BY <1>2, <2>3
  <2>6. Keep(kept, ops[n], S) \in Seq(V) /\ Len(Keep(kept, ops[n], S)) <= n
    BY <2>3, <2>4, <2>5 DEF Keep
  <2> QED
    BY <1>3, <2>1, <2>3, <2>4, <2>6
<1> QED
  BY <1>1, <1>2, <1>4

LEMMA UnsentFacts ==
  ASSUME NEW V, NEW ops \in Seq(V), NEW sent, Len(ops) <= OutboxLimit
  PROVE  /\ Unsent(ops, sent) \in Seq(V) /\ Len(Unsent(ops, sent)) <= OutboxLimit
         /\ ToSet(Unsent(ops, sent)) = {op \in ToSet(ops) : \A s \in ToSet(sent) : ~SameId(s, op)}
         /\ InOrder(ops) => InOrder(Unsent(ops, sent))
<1> DEFINE S == {op \in ToSet(ops) : \A s \in ToSet(sent) : ~SameId(s, op)}
<1>1. Unsent(ops, sent) = Only(ops, S)
  BY DEF Unsent
<1> HIDE DEF S
<1>2. /\ Only(ops, S) \in Seq(V) /\ Len(Only(ops, S)) <= Len(ops)
      /\ ToSet(Only(ops, S)) = ToSet(ops) \intersect S
  BY OnlyFacts, OnlyShorter
<1>3. Len(Only(ops, S)) <= OutboxLimit
  <2>1. Len(ops) \in Nat /\ OutboxLimit \in Nat /\ Len(Only(ops, S)) \in Nat
    BY <1>2, SyncAssumption
  <2> QED
    BY <1>2, <2>1
<1>4. ToSet(ops) \intersect S = S
  BY DEF S
<1>5. InOrder(ops) => InOrder(Only(ops, S))
  BY OnlyInOrder
<1> QED
  BY <1>1, <1>2, <1>3, <1>4, <1>5 DEF S

(* What the server does with a batch.                                      *)
LEMMA AcceptFacts ==
  ASSUME Types, NEW g \in 1..Len(sessions), NEW ops \in Seq(made), Accept(g, ops)
  PROVE  /\ sessions[g].profile \in 1..Len(log)
         /\ log' \in Seq(Seq(made)) /\ Len(log') = Len(log)
         /\ NewOps(sessions[g].profile, ops) \in Seq(made)
         /\ log' = log \/ /\ Status(g, ops) = "active"
                          /\ log' = [log EXCEPT ![sessions[g].profile] =
                                       log[sessions[g].profile] \o NewOps(sessions[g].profile, ops)]
<1> DEFINE p == sessions[g].profile
<1>1. p \in 1..Len(log)
  <2>1. g \in DOMAIN sessions
    BY DEF Types, ServerTyped
  <2>2. PICK n : n = Len(log)
    OBVIOUS
  <2>3. sessions \in Seq([profile : 1..n, live : BOOLEAN])
    BY <2>2 DEF Types, ServerTyped
  <2>4. sessions[g] \in [profile : 1..n, live : BOOLEAN]
    BY <2>1, <2>3, ElementOf
  <2> QED
    BY <2>2, <2>4
<1>2. NewOps(p, ops) \in Seq(made)
  BY OnlyFacts DEF NewOps
<1>3. log \in Seq(Seq(made)) /\ Len(log) \in Nat
  BY Sizes DEF Types, ServerTyped
<1>4. \/ log' = log
      \/ Status(g, ops) = "active" /\ log' = [log EXCEPT ![p] = log[p] \o NewOps(p, ops)]
  BY DEF Accept
<1> HIDE DEF p
<1>5. log[p] \in Seq(made) /\ log[p] \o NewOps(p, ops) \in Seq(made)
  <2>1. log[p] \in Seq(made)
    BY <1>1, <1>3, ElementOf
  <2> QED
    BY <1>2, <2>1
<1>6. log' \in Seq(Seq(made)) /\ Len(log') = Len(log)
  <2>1. PICK batches : batches = Seq(made)
    OBVIOUS
  <2>2. PICK new : new = log[p] \o NewOps(p, ops)
    OBVIOUS
  <2>3. log \in Seq(batches) /\ new \in batches /\ p \in 1..Len(log)
    BY <1>1, <1>3, <1>5, <2>1, <2>2
  <2>4. log' = log \/ log' = [log EXCEPT ![p] = new]
    BY <1>4, <2>2
  <2>5. log' \in Seq(batches) /\ Len(log') = Len(log)
    BY <2>3, <2>4
  <2> QED
    BY <2>1, <2>5
<1> QED
  BY <1>1, <1>2, <1>4, <1>6 DEF p

LEMMA ServedTypes ==
  ASSUME Types, UNCHANGED <<tombstoned, sessions, page, store, grant, made, given>>,
         log' \in Seq(Seq(made)), Len(log') = Len(log), late' \subseteq late,
         Widens => CallsTyped'
  PROVE  Types'
<1>1. Widens
  BY Sizes DEF Widens
<1>2. MadeTyped' /\ ServerTyped' /\ LateTyped'
  BY DEF Types, MadeTyped, ServerTyped, LateTyped
<1>3. StoreTyped' /\ CallsTyped'
  BY <1>1, UntouchedStore
<1>4. PageTyped'
  BY DEF Types, PageTyped, page
<1> QED
  BY <1>2, <1>3, <1>4 DEF Types

LEMMA SentCall ==
  ASSUME Types, NEW d \in Devices, NEW k \in Sent, calls[d][k].phase \in {"asked", "answered"}
  PROVE  /\ calls[d][k] \in CallSet(made, Len(log), Len(sessions))
         /\ calls[d][k].grant \in 1..Len(sessions) /\ calls[d][k].sent \in Seq(made)
<1>1. k \in Kinds
  BY DEF Sent, Kinds
<1>2. calls[d][k] \in CallSet(made, Len(log), Len(sessions)) /\ Granted(k, calls[d][k])
  BY <1>1 DEF Types, CallsTyped
<1> QED
  BY <1>2, Sizes DEF CallSet, Granted

LEMMA ServeFacts ==
  ASSUME Types, NEW d \in Devices, NEW k \in Kinds, Serve(d, k)
  PROVE  LET c == calls[d][k]
             p == sessions[c.grant].profile
             answer == [phase |-> "answered", sent |-> c.sent, grant |-> c.grant,
                        reply |-> [status |-> Status(c.grant, c.sent),
                                   cache |-> [of |-> p, changes |-> Len(log'[p])]]]
         IN  /\ k \in Sent /\ c.phase = "asked" /\ c.grant \in 1..Len(sessions) /\ c.sent \in Seq(made)
             /\ p \in 1..Len(log) /\ Accept(c.grant, c.sent)
             /\ SetCall(d, k, answer)
             /\ answer \in CallSet(made, Len(log), Len(sessions))
             /\ UNCHANGED <<tombstoned, sessions, page, store, grant, late, faults, made, given>>
<1>1. PICK c : c = calls[d][k]
  OBVIOUS
<1>2. PICK p : p = sessions[c.grant].profile
  OBVIOUS
<1> DEFINE reply == [status |-> Status(c.grant, c.sent),
                     cache |-> [of |-> p, changes |-> Len(log'[p])]]
           answer == [phase |-> "answered", sent |-> c.sent, grant |-> c.grant, reply |-> reply]
<1>3. k \in Sent /\ c.phase = "asked" /\ Accept(c.grant, c.sent)
      /\ SetCall(d, k, [c EXCEPT !.phase = "answered", !.reply = reply])
      /\ UNCHANGED <<tombstoned, sessions, page, store, grant, late, faults, made, given>>
  BY <1>1, <1>2 DEF Serve, Sent
<1>4. c \in CallSet(made, Len(log), Len(sessions)) /\ c.grant \in 1..Len(sessions) /\ c.sent \in Seq(made)
  BY <1>1, <1>3, SentCall
<1>5. p \in 1..Len(log) /\ log' \in Seq(Seq(made)) /\ Len(log') = Len(log)
  BY <1>2, <1>3, <1>4, AcceptFacts
<1>6. Len(log'[p]) \in Nat
  <2>1. p \in DOMAIN log'
    BY <1>5
  <2> QED
    BY <1>5, <2>1, ElementOf
<1>7. reply \in ReplySet(Len(log))
  <2>1. [of |-> p, changes |-> Len(log'[p])] \in CacheSet(Len(log))
    BY <1>5, <1>6 DEF CacheSet
  <2>2. Status(c.grant, c.sent) \in {"active", "deleted", "session-expired", "refused"}
    BY DEF Status, Standing
  <2> QED
    BY <2>1, <2>2 DEF ReplySet
<1> HIDE DEF reply
<1>8. [c EXCEPT !.phase = "answered", !.reply = reply] = answer
  <2>1. c = [phase |-> c.phase, sent |-> c.sent, grant |-> c.grant, reply |-> c.reply]
    BY <1>4 DEF CallSet
  <2>2. PICK a, b, e, f : c = [phase |-> a, sent |-> b, grant |-> e, reply |-> f]
                          /\ b = c.sent /\ e = c.grant
    BY <2>1
  <2>3. PICK served : served = [c EXCEPT !.phase = "answered"]
    OBVIOUS
  <2>4. served = [phase |-> "answered", sent |-> b, grant |-> e, reply |-> f]
    BY <2>2, <2>3
  <2>5. [c EXCEPT !.phase = "answered", !.reply = reply] = [served EXCEPT !.reply = reply]
    BY <2>2, <2>3
  <2>6. [served EXCEPT !.reply = reply] = answer
    BY <2>2, <2>4
  <2> QED
    BY <2>5, <2>6
<1>9. answer \in CallSet(made, Len(log), Len(sessions))
  BY <1>4, <1>7 DEF CallSet
<1> QED
  BY <1>1, <1>2, <1>3, <1>4, <1>5, <1>8, <1>9 DEF reply

LEMMA ServeTypes ==
  ASSUME Types, NEW d \in Devices, NEW k \in Kinds, Serve(d, k)
  PROVE  Types'
<1>1. PICK c : c = calls[d][k]
  OBVIOUS
<1> DEFINE p == sessions[c.grant].profile
           answer == [phase |-> "answered", sent |-> c.sent, grant |-> c.grant,
                      reply |-> [status |-> Status(c.grant, c.sent),
                                 cache |-> [of |-> p, changes |-> Len(log'[p])]]]
<1>2. /\ c.grant \in 1..Len(sessions) /\ c.sent \in Seq(made) /\ Accept(c.grant, c.sent)
      /\ SetCall(d, k, answer) /\ answer \in CallSet(made, Len(log), Len(sessions))
      /\ UNCHANGED <<tombstoned, sessions, page, store, grant, late, faults, made, given>>
  BY <1>1, ServeFacts
<1>3. log' \in Seq(Seq(made)) /\ Len(log') = Len(log)
  BY <1>2, AcceptFacts
<1>4. ASSUME Widens PROVE CallsTyped'
  <2>1. answer.grant # 0
    BY <1>2
  <2>2. Granted(k, answer)
    BY <2>1 DEF Granted
  <2> HIDE DEF answer
  <2>3. answer \in CallSet(made', Len(log'), Len(sessions'))
    BY <1>2, <1>3
  <2> QED
    BY <1>2, <1>4, <2>2, <2>3, OneCallTyped
<1> QED
  BY <1>2, <1>3, <1>4, ServedTypes

LEMMA LateBatch ==
  ASSUME Types, NEW c \in late
  PROVE  c.grant \in 1..Len(sessions) /\ c.sent \in Seq(made)
BY DEF Types, LateTyped, Batches

LEMMA ServeLateTypes ==
  ASSUME Types, ServeLate
  PROVE  Types'
<1>1. PICK c \in late :
        /\ Accept(c.grant, c.sent) /\ late' = late \ {c}
        /\ UNCHANGED <<tombstoned, sessions, page, store, grant, calls, faults, made, given>>
  BY DEF ServeLate
<1>2. c.grant \in 1..Len(sessions) /\ c.sent \in Seq(made)
  BY LateBatch
<1>3. log' \in Seq(Seq(made)) /\ Len(log') = Len(log)
  BY <1>1, <1>2, AcceptFacts
<1>4. Widens => CallsTyped'
  BY <1>1, UntouchedCalls
<1> QED
  BY <1>1, <1>3, <1>4, ServedTypes

LEMMA DeleteProfileTypes ==
  ASSUME Types, DeleteProfile
  PROVE  Types'
<1>1. tombstoned' = {Home} /\ UNCHANGED <<sessions, log, page, store, grant, calls, late, made, given>>
  BY DEF DeleteProfile
<1>2. MadeTyped' /\ ServerTyped' /\ Widens /\ LateTyped'
  BY <1>1, QuietTyped DEF Types, MadeTyped
<1>3. StoreTyped' /\ CallsTyped'
  BY <1>1, <1>2, UntouchedStore, UntouchedCalls
<1>4. PageTyped'
  BY <1>1 DEF Types, PageTyped, page
<1> QED
  BY <1>2, <1>3, <1>4 DEF Types

LEMMA EndSessionTypes ==
  ASSUME Types, NEW g \in DOMAIN sessions, EndSession(g)
  PROVE  Types'
<1>1. /\ sessions' = [sessions EXCEPT ![g].live = FALSE]
      /\ UNCHANGED <<tombstoned, log, page, store, grant, calls, late, made, given>>
  BY DEF EndSession
<1> DEFINE rows == [profile : 1..Len(log), live : BOOLEAN]
<1>2. sessions \in Seq(rows) /\ sessions[g] \in rows
  BY ElementOf DEF Types, ServerTyped
<1>3. [sessions[g] EXCEPT !.live = FALSE] \in rows
  BY <1>2
<1>4. sessions' = [sessions EXCEPT ![g] = [sessions[g] EXCEPT !.live = FALSE]]
  BY <1>1, <1>2
<1> DEFINE row == [sessions[g] EXCEPT !.live = FALSE]
<1> HIDE DEF rows, row
<1>5. sessions' \in Seq(rows) /\ Len(sessions') = Len(sessions)
  BY <1>2, <1>3, <1>4 DEF row
<1>6. ServerTyped'
  BY <1>1, <1>5 DEF Types, ServerTyped, rows
<1>7. Widens
  BY <1>1, <1>5, Sizes DEF Widens
<1>8. StoreTyped' /\ CallsTyped'
  BY <1>1, <1>7, UntouchedStore, UntouchedCalls
<1>9. MadeTyped' /\ PageTyped' /\ LateTyped'
  BY <1>1, <1>5 DEF Types, MadeTyped, PageTyped, LateTyped, page
<1> QED
  BY <1>6, <1>8, <1>9 DEF Types

LEMMA AnswerTypes ==
  ASSUME Types, NEW d \in Devices, NEW k \in Kinds, Answer(d, k)
  PROVE  Types'
<1>1. PICK c : c = calls[d][k]
  OBVIOUS
<1>2. /\ SetCall(d, k, Idle)
      /\ UNCHANGED <<tombstoned, sessions, log, started, due, late, made>>
  BY DEF Answer, server
<1>3. c \in CallSet(made, Len(log), Len(sessions))
  BY <1>1 DEF Types, CallsTyped
<1>4. /\ outbox \in [Devices -> Seq(made)] /\ cache \in [Devices -> CacheSet(Len(log))]
      /\ next \in [Devices -> 1..Cardinality(made) + 1]
      /\ \A x \in Devices : Len(outbox[x]) <= OutboxLimit
  BY DEF Types, StoreTyped
<1>5. Widens
  BY <1>2, NoChange
<1>6. CallsTyped'
  <2>1. Idle \in CallSet(made', Len(log'), Len(sessions')) /\ Granted(k, Idle)
    <3>1. Idle \in CallSet(made', Len(log'), Len(sessions'))
      BY <1>5, IdleInSet DEF Widens
    <3> QED
      BY <3>1 DEF Granted, Idle
  <2> QED
    BY <1>2, <1>5, <2>1, OneCallTyped
<1>7. StoreTyped' /\ given' \subseteq made /\ PageTyped'
  <2>1. CASE /\ Clear(d) /\ grant' = [grant EXCEPT ![d] = 0]
             /\ deleted' = [deleted EXCEPT ![d] = @ \/ k = "sync"] /\ UNCHANGED next
    <3>1. StoreTyped'
      BY <1>2, <1>4, <1>5, <2>1, ClearedTyped
    <3>2. PageTyped'
      BY <1>2, <2>1, Sizes DEF Types, PageTyped
    <3> QED
      BY <2>1, <3>1, <3>2, ClearedGiven
  <2>2. CASE /\ outbox' = [outbox EXCEPT ![d] = Unsent(@, c.sent)]
             /\ cache' = [cache EXCEPT ![d] = c.reply.cache]
             /\ UNCHANGED <<next, grant, deleted, given>> /\ Save(d)
    <3>1. Unsent(outbox[d], c.sent) \in Seq(made) /\ Len(Unsent(outbox[d], c.sent)) <= OutboxLimit
      BY <1>4, UnsentFacts
    <3>2. outbox' \in [Devices -> Seq(made)] /\ \A x \in Devices : Len(outbox'[x]) <= OutboxLimit
      BY <1>4, <2>2, <3>1
    <3>3. c.reply.cache \in CacheSet(Len(log))
      BY <1>3 DEF CallSet, ReplySet
    <3>4. cache' \in [Devices -> CacheSet(Len(log))]
      BY <1>4, <2>2, <3>3
    <3>5. StoreTyped'
      BY <1>2, <1>4, <1>5, <2>2, <3>2, <3>4, SavedTyped
    <3> QED
      BY <1>2, <2>2, <3>5 DEF Types, PageTyped, MadeTyped
  <2>3. CASE UNCHANGED <<outbox, cache, next, grant, deleted, given>> /\ Save(d)
    <3>1. StoreTyped'
      BY <1>2, <1>4, <1>5, <2>3, SavedTyped
    <3> QED
      BY <1>2, <2>3, <3>1 DEF Types, PageTyped, MadeTyped
  <2>4. CASE UNCHANGED <<store, grant, deleted, given>>
    <3>1. StoreTyped'
      BY <1>5, <2>4, UntouchedStore
    <3> QED
      BY <1>2, <2>4, <3>1 DEF Types, PageTyped, MadeTyped
  <2> QED
    BY <1>1, <2>1, <2>2, <2>3, <2>4 DEF Answer
<1>8. MadeTyped' /\ ServerTyped' /\ LateTyped'
  BY <1>2, <1>7, QuietTyped DEF Types, ServerTyped
<1> QED
  BY <1>6, <1>7, <1>8 DEF Types

LEMMA TypesInit == Init => Types
<1> SUFFICES ASSUME Init PROVE Types
  OBVIOUS
<1>1. /\ tombstoned = {} /\ sessions = <<>> /\ log = <<<<>>>>
      /\ started = [d \in Devices |-> FALSE] /\ deleted = started /\ due = started
      /\ grant = [d \in Devices |-> 0] /\ outbox = [d \in Devices |-> <<>>]
      /\ cache = [d \in Devices |-> NoCache] /\ next = [d \in Devices |-> 1]
      /\ stored = [d \in Devices |-> Nothing]
      /\ calls = [d \in Devices |-> [k \in Kinds |-> Idle]]
      /\ late = {} /\ made = {} /\ given = {}
  BY DEF Init
<1>2. Cardinality(made) = 0 /\ IsFiniteSet(made)
  BY <1>1, FS_EmptySet
<1>3. log \in Seq(Seq(made)) /\ Len(log) = 1 /\ Len(sessions) = 0
  <2>1. <<>> \in Seq(made)
    OBVIOUS
  <2> QED
    BY <1>1, <2>1
<1>4. MadeTyped
  BY <1>1, <1>2, SyncAssumption DEF MadeTyped
<1>5. ServerTyped
  <2>1. 1 \in 1..MaxProfiles
    BY SyncAssumption
  <2>2. sessions \in Seq([profile : 1..Len(log), live : BOOLEAN])
    BY <1>1
  <2> QED
    BY <1>1, <1>3, <2>1, <2>2 DEF ServerTyped
<1>6. PageTyped
  BY <1>1, <1>3 DEF PageTyped
<1>7. StoreTyped
  <2>1. Nothing \in SavedSet(made, Len(log), Cardinality(made)) /\ NoCache \in CacheSet(Len(log))
    BY <1>2, <1>3, NothingInSet
  <2>2. <<>> \in Seq(made) /\ Len(<<>>) <= OutboxLimit /\ Nothing.outbox = <<>>
    BY SyncAssumption DEF Nothing
  <2>3. 1 \in 1..Cardinality(made) + 1
    BY <1>2
  <2>4. outbox \in [Devices -> Seq(made)] /\ \A d \in Devices : outbox[d] = <<>>
    BY <1>1, <2>2
  <2>5. stored \in [Devices -> SavedSet(made, Len(log), Cardinality(made))]
        /\ \A d \in Devices : stored[d] = Nothing
    BY <1>1, <2>1
  <2>6. cache \in [Devices -> CacheSet(Len(log))] /\ next \in [Devices -> 1..Cardinality(made) + 1]
    BY <1>1, <2>1, <2>3
  <2> QED
    BY <2>2, <2>4, <2>5, <2>6 DEF StoreTyped
<1>8. CallsTyped
  <2>1. Idle \in CallSet(made, Len(log), Len(sessions))
    BY <1>3, IdleInSet
  <2>2. \A k \in Kinds : Granted(k, Idle)
    BY DEF Granted, Idle
  <2> QED
    BY <1>1, <2>1, <2>2 DEF CallsTyped
<1> QED
  BY <1>1, <1>4, <1>5, <1>6, <1>7, <1>8 DEF Types, LateTyped

LEMMA TypesStep == Types /\ [Next]_vars => Types'
<1> SUFFICES ASSUME Types, [Next]_vars PROVE Types'
  OBVIOUS
<1>1. CASE UNCHANGED vars
  <2>1. UNCHANGED <<tombstoned, sessions, log, page, store, grant, calls, late, made, given>>
    BY <1>1 DEF vars, server
  <2>2. MadeTyped' /\ ServerTyped' /\ Widens /\ LateTyped'
    BY <2>1, QuietTyped DEF Types, MadeTyped, ServerTyped
  <2>3. StoreTyped' /\ CallsTyped'
    BY <2>1, <2>2, UntouchedStore, UntouchedCalls
  <2> QED
    BY <2>1, <2>2, <2>3 DEF Types, PageTyped, page
<1>2. ASSUME NEW d \in Devices,
             \/ Record(d) \/ Reconcile(d) \/ StartSync(d) \/ Skip(d)
             \/ StartFresh(d) \/ SignIn(d) \/ Restart(d) \/ OpenLink(d)
             \/ \E k \in Kinds : Network(d, k) \/ Lose(d, k)
      PROVE  Types'
  BY <1>2, RecordTypes, ReconcileTypes, StartSyncTypes, SkipTypes, StartFreshTypes, SignInTypes,
     RestartTypes, OpenLinkTypes, CreatedTypes, JoinedTypes, NotJoinedTypes, ServeTypes,
     AnswerTypes, LoseTypes DEF Network
<1> QED
  BY <1>1, <1>2, ServeLateTypes, DeleteProfileTypes, EndSessionTypes DEF Next

-----------------------------------------------------------------------------
(* What every step leaves of the history: changes, those given up and the  *)
(* logs only grow, and a new change is the newest.                         *)
Grows ==
  /\ made \subseteq made' /\ given \subseteq given'
  /\ \A x \in made' \ made : \A y \in made : y.data < x.data
  /\ DOMAIN log \subseteq DOMAIN log'
  /\ \A p \in DOMAIN log :
       /\ Len(log[p]) <= Len(log'[p])
       /\ \A i \in DOMAIN log[p] : i \in DOMAIN log'[p] /\ log'[p][i] = log[p][i]

LEMMA LogGrows ==
  ASSUME Types, NEW g \in 1..Len(sessions), NEW ops \in Seq(made), Accept(g, ops)
  PROVE  /\ DOMAIN log \subseteq DOMAIN log'
         /\ \A p \in DOMAIN log :
              /\ Len(log[p]) <= Len(log'[p])
              /\ \A i \in DOMAIN log[p] : i \in DOMAIN log'[p] /\ log'[p][i] = log[p][i]
<1>1. PICK q \in 1..Len(log) : q = sessions[g].profile
  BY AcceptFacts
<1>2. PICK new \in Seq(made) : new = NewOps(q, ops)
  BY <1>1, AcceptFacts
<1>3. log' = log \/ log' = [log EXCEPT ![q] = log[q] \o new]
  BY <1>1, <1>2, AcceptFacts
<1>4. log \in Seq(Seq(made))
  BY DEF Types, ServerTyped
<1>5. DOMAIN log = 1..Len(log) /\ DOMAIN log' = DOMAIN log
  BY <1>3, <1>4
<1>6. ASSUME NEW p \in DOMAIN log
      PROVE  /\ Len(log[p]) <= Len(log'[p])
             /\ \A i \in DOMAIN log[p] : i \in DOMAIN log'[p] /\ log'[p][i] = log[p][i]
  <2>1. PICK s \in Seq(made) : s = log[p]
    BY <1>4, ElementOf
  <2>2. log'[p] = s \/ log'[p] = s \o new
    BY <1>3, <1>5, <2>1
  <2>3. Len(s) <= Len(s \o new) /\ \A i \in DOMAIN s : i \in DOMAIN (s \o new) /\ (s \o new)[i] = s[i]
    OBVIOUS
  <2>4. Len(s) <= Len(s)
    OBVIOUS
  <2> QED
    BY <2>1, <2>2, <2>3, <2>4
<1> QED
  BY <1>5, <1>6

LEMMA LogStays ==
  ASSUME Types, log' = log \/ log' = Append(log, <<>>)
  PROVE  /\ DOMAIN log \subseteq DOMAIN log'
         /\ \A p \in DOMAIN log :
              /\ Len(log[p]) <= Len(log'[p])
              /\ \A i \in DOMAIN log[p] : i \in DOMAIN log'[p] /\ log'[p][i] = log[p][i]
<1>1. log \in Seq(Seq(made))
  BY DEF Types, ServerTyped
<1>2. DOMAIN log \subseteq DOMAIN log' /\ \A p \in DOMAIN log : log'[p] = log[p]
  <2>1. CASE log' = log
    BY <2>1
  <2>2. CASE log' = Append(log, <<>>)
    <3>1. PICK S : log \in Seq(S)
      BY <1>1
    <3>2. PICK x : x = <<>>
      OBVIOUS
    <3>3. PICK s \in Seq(S) : s = log
      BY <3>1
    <3>4. DOMAIN s \subseteq DOMAIN Append(s, x) /\ \A p \in DOMAIN s : Append(s, x)[p] = s[p]
      OBVIOUS
    <3> QED
      BY <2>2, <3>2, <3>3, <3>4
  <2> QED
    BY <2>1, <2>2
<1>3. \A p \in DOMAIN log : Len(log[p]) \in Nat
  BY <1>1, ElementOf
<1> QED
  BY <1>2, <1>3

LEMMA Growth ==
  ASSUME Types, [Next]_vars
  PROVE  Grows
<1>1. CASE UNCHANGED vars
  BY <1>1, LogStays DEF vars, server, Grows
<1>2. ASSUME NEW d \in Devices, Record(d)
      PROVE  Grows
  <2>1. made' = made \union {Change(d)}
    BY <1>2, RecordFacts
  <2>2. Change(d).data = Cardinality(made) + 1 /\ \A y \in made : y.data < Cardinality(made) + 1
    <3>1. \A y \in made : y.data \in Nat /\ y.data <= Cardinality(made)
      BY DEF Types, MadeTyped, Changes
    <3> QED
      BY <3>1, Sizes DEF Change
  <2>3. log' = log /\ given \subseteq given'
    BY <1>2 DEF Record, server
  <2> QED
    BY <2>1, <2>2, <2>3, LogStays DEF Grows
<1>3. ASSUME made' = made, given \subseteq given', log' = log \/ log' = Append(log, <<>>)
      PROVE  Grows
  BY <1>3, LogStays DEF Grows
<1>4. ASSUME NEW d \in Devices,
             Reconcile(d) \/ StartSync(d) \/ Skip(d) \/ StartFresh(d) \/ SignIn(d)
             \/ Restart(d) \/ OpenLink(d)
      PROVE  Grows
  <2>1. made' = made /\ given \subseteq given' /\ log' = log
    BY <1>4 DEF Reconcile, StartSync, Skip, StartFresh, SignIn, Restart, OpenLink, Reload, Clear,
                server
  <2> QED
    BY <1>3, <2>1
<1>5. ASSUME NEW d \in Devices, NEW k \in Kinds,
             Created(d, k) \/ Joined(d, k) \/ NotJoined(d, k) \/ Answer(d, k) \/ Lose(d, k)
      PROVE  Grows
  <2>1. made' = made /\ given \subseteq given' /\ (log' = log \/ log' = Append(log, <<>>))
    BY <1>5 DEF Created, Joined, NotJoined, Answer, Lose, Clear, server
  <2> QED
    BY <1>3, <2>1
<1>6. ASSUME NEW d \in Devices, NEW k \in Kinds, Serve(d, k)
      PROVE  Grows
  <2>1. PICK c : c = calls[d][k]
    OBVIOUS
  <2>2. /\ c.grant \in 1..Len(sessions) /\ c.sent \in Seq(made) /\ Accept(c.grant, c.sent)
        /\ UNCHANGED <<made, given>>
    BY <1>6, <2>1, ServeFacts
  <2> QED
    BY <2>2, LogGrows DEF Grows
<1>7. ASSUME ServeLate PROVE Grows
  <2>1. PICK c \in late : Accept(c.grant, c.sent) /\ UNCHANGED <<made, given>>
    BY <1>7 DEF ServeLate
  <2>2. c.grant \in 1..Len(sessions) /\ c.sent \in Seq(made)
    BY LateBatch
  <2> QED
    BY <2>1, <2>2, LogGrows DEF Grows
<1>8. ASSUME DeleteProfile \/ \E g \in DOMAIN sessions : EndSession(g)
      PROVE  Grows
  BY <1>3, <1>8 DEF DeleteProfile, EndSession
<1> QED
  BY <1>1, <1>2, <1>4, <1>5, <1>6, <1>7, <1>8 DEF Next, Network

(* What moves a device's outbox.                                           *)
Stays(x) == outbox'[x] = outbox[x] /\ next'[x] = next[x]
Forgets(x) == /\ outbox'[x] = <<>> /\ ToSet(outbox[x]) \subseteq given'
              /\ next'[x] = next[x] \/ \A k \in Kinds : calls'[x][k].sent = <<>>
Acknowledged(x) ==
  \E k \in Kinds :
    /\ calls[x][k].phase = "answered" /\ calls[x][k].reply.status = "active"
    /\ calls'[x][k] = Idle
    /\ outbox'[x] = Unsent(outbox[x], calls[x][k].sent) /\ next'[x] = next[x]
Moved(x) == Stays(x) \/ Record(x) \/ StartSync(x) \/ Restart(x) \/ Forgets(x) \/ Acknowledged(x)

SavedFrom(x) ==
  \/ stored'[x] = stored[x] \/ stored'[x] = Nothing
  \/ stored'[x] = [outbox |-> outbox'[x], cache |-> cache'[x], next |-> next'[x]]

(* Where batches in the air come from.                                     *)
SentFrom(x) ==
  \A k \in Kinds :
    \/ calls'[x][k].sent = calls[x][k].sent
    \/ calls'[x][k].sent = <<>>
    \/ StartSync(x) /\ k = "sync" /\ calls'[x][k].sent = outbox'[x]
LateFrom ==
  \A c \in late' : c \in late \/ \E x \in Devices : c.sent = calls[x]["sync"].sent
AnsweredFrom(x) ==
  \A k \in Kinds : calls'[x][k].phase = "answered" => calls'[x][k] = calls[x][k] \/ Serve(x, k)

Moves == /\ LateFrom
         /\ \A x \in Devices : Moved(x) /\ SavedFrom(x) /\ SentFrom(x) /\ AnsweredFrom(x)

(* A step that changes one call of a device.                               *)
LEMMA OneCall ==
  ASSUME Types, NEW d \in Devices, NEW k \in Kinds, NEW c, SetCall(d, k, c),
         NEW x \in Devices, NEW j \in Kinds
  PROVE  calls'[x][j] = IF x = d /\ j = k THEN c ELSE calls[x][j]
<1>1. PICK S : calls \in [Devices -> [Kinds -> S]]
  BY DEF Types, CallsTyped
<1>2. calls' = [calls EXCEPT ![d] = [calls[d] EXCEPT ![k] = c]]
  BY <1>1 DEF SetCall
<1>3. CASE x = d
  <2>1. calls'[x] = [calls[d] EXCEPT ![k] = c]
    BY <1>1, <1>2, <1>3
  <2> QED
    BY <1>1, <1>3, <2>1
<1>4. CASE x # d
  BY <1>1, <1>2, <1>4
<1> QED
  BY <1>3, <1>4

LEMMA OrphansFrom ==
  ASSUME NEW d \in Devices, late' = late \/ late' = late \union Orphans(d)
  PROVE  LateFrom
BY DEF LateFrom, Orphans

(* A step that leaves outboxes alone and sets or clears one call.          *)
LEMMA QuietMoves ==
  ASSUME Types, UNCHANGED store, LateFrom,
         \A x \in Devices : \A k \in Kinds :
           \/ calls'[x][k] = calls[x][k]
           \/ /\ calls'[x][k].sent \in {<<>>, calls[x][k].sent}
              /\ calls'[x][k].phase = "answered" => Serve(x, k)
  PROVE  Moves
<1>1. \A x \in Devices : Stays(x) /\ stored'[x] = stored[x]
  BY DEF Stays, store
<1>2. \A x \in Devices : SentFrom(x) /\ AnsweredFrom(x)
  BY DEF SentFrom, AnsweredFrom
<1> QED
  BY <1>1, <1>2 DEF Moves, Moved, SavedFrom

(* A device's action leaves the others alone.                              *)
Elsewhere(x) == /\ outbox'[x] = outbox[x] /\ next'[x] = next[x] /\ stored'[x] = stored[x]
                /\ \A k \in Kinds : calls'[x][k] = calls[x][k]

LEMMA DeviceMoves ==
  ASSUME NEW d \in Devices, LateFrom, \A x \in Devices \ {d} : Elsewhere(x),
         Moved(d), SavedFrom(d), SentFrom(d), AnsweredFrom(d)
  PROVE  Moves
<1>1. ASSUME NEW x \in Devices, x # d
      PROVE  Moved(x) /\ SavedFrom(x) /\ SentFrom(x) /\ AnsweredFrom(x)
  <2>1. Elsewhere(x)
    BY <1>1
  <2> QED
    BY <2>1 DEF Elsewhere, Moved, Stays, SavedFrom, SentFrom, AnsweredFrom
<1> QED
  BY <1>1 DEF Moves

LEMMA RecordMoves ==
  ASSUME Types, NEW d \in Devices, Record(d)
  PROVE  Moves
<1>1. /\ UNCHANGED <<calls, late>> /\ Save(d)
      /\ outbox' = [outbox EXCEPT ![d] = Queued(outbox[d], Change(d))]
      /\ next' = [next EXCEPT ![d] = @ + 1]
  BY DEF Record, Change
<1>2. LateFrom
  BY <1>1 DEF LateFrom
<1> DEFINE record == [outbox |-> outbox'[d], cache |-> cache'[d], next |-> next'[d]]
<1>3. stored' = [stored EXCEPT ![d] = record] \/ stored' = stored
  BY <1>1 DEF Save
<1> HIDE DEF record
<1>4. \A x \in Devices \ {d} : Elsewhere(x)
  BY <1>1, <1>3 DEF Elsewhere, Types, StoreTyped
<1>5. stored'[d] = record \/ stored'[d] = stored[d]
  BY <1>3 DEF Types, StoreTyped
<1> QED
  BY <1>1, <1>2, <1>4, <1>5, DeviceMoves DEF Moved, SavedFrom, SentFrom, AnsweredFrom, record

LEMMA StartSyncMoves ==
  ASSUME Types, NEW d \in Devices, StartSync(d)
  PROVE  Moves
<1> DEFINE c == Call(IF grant[d] = 0 THEN "create" ELSE "asked", outbox'[d], grant[d])
<1>1. /\ UNCHANGED <<next, stored, late>> /\ SetCall(d, "sync", c)
      /\ \E n \in 0..Len(outbox[d]) : outbox' = [outbox EXCEPT ![d] = SubSeq(@, n + 1, Len(@))]
  BY DEF StartSync
<1>2. LateFrom
  BY <1>1 DEF LateFrom
<1>3. "sync" \in Kinds /\ c.sent = outbox'[d] /\ c.phase # "answered"
  BY DEF Kinds, Call
<1> HIDE DEF c
<1>4. \A x \in Devices : \A k \in Kinds : calls'[x][k] = IF x = d /\ k = "sync" THEN c ELSE calls[x][k]
  BY <1>1, <1>3, OneCall
<1>5. \A x \in Devices \ {d} : Elsewhere(x)
  BY <1>1, <1>4 DEF Elsewhere, Types, StoreTyped
<1>6. SentFrom(d) /\ AnsweredFrom(d)
  BY <1>3, <1>4 DEF SentFrom, AnsweredFrom
<1> QED
  BY <1>1, <1>2, <1>5, <1>6, DeviceMoves DEF Moved, SavedFrom

(* Calls that start, go on or end without touching the outbox.             *)
LEMMA CallMoves ==
  ASSUME Types, NEW d \in Devices, NEW k \in Kinds, UNCHANGED store,
         \/ late' = late
         \/ late' = late \union Orphans(d),
         \/ \E c : /\ SetCall(d, k, c) /\ c.sent \in {<<>>, calls[d][k].sent}
                   /\ c.phase = "answered" => Serve(d, k)
         \/ Joined(d, k)
  PROVE  Moves
<1>1. LateFrom
  BY OrphansFrom
<1>2. CASE \E c : /\ SetCall(d, k, c) /\ c.sent \in {<<>>, calls[d][k].sent}
                  /\ c.phase = "answered" => Serve(d, k)
  <2>1. PICK c : /\ SetCall(d, k, c) /\ c.sent \in {<<>>, calls[d][k].sent}
                 /\ c.phase = "answered" => Serve(d, k)
    BY <1>2
  <2>2. ASSUME NEW x \in Devices, NEW j \in Kinds
        PROVE  \/ calls'[x][j] = calls[x][j]
               \/ /\ calls'[x][j].sent \in {<<>>, calls[x][j].sent}
                  /\ calls'[x][j].phase = "answered" => Serve(x, j)
    <3>1. calls'[x][j] = IF x = d /\ j = k THEN c ELSE calls[x][j]
      BY <2>1, OneCall
    <3> QED
      BY <2>1, <3>1
  <2> QED
    BY <1>1, <2>2, QuietMoves
<1>3. CASE Joined(d, k)
  <2> DEFINE c == Call("asked", <<>>, Len(sessions) + 1)
  <2>1. /\ calls' = [calls EXCEPT ![d] = IF k = "signin"
              THEN [@ EXCEPT ![k] = Idle, !["hydrate"] = c]
              ELSE [@ EXCEPT ![k] = Idle]]
    BY <1>3 DEF Joined
  <2>2. c.sent = <<>> /\ c.phase # "answered" /\ Idle.sent = <<>> /\ Idle.phase # "answered"
    BY DEF Call, Idle
  <2> HIDE DEF c
  <2>3. PICK S : calls \in [Devices -> [Kinds -> S]]
    BY DEF Types, CallsTyped
  <2>4. ASSUME NEW x \in Devices, NEW j \in Kinds
        PROVE  calls'[x][j] \in {calls[x][j], Idle, c}
    <3>1. CASE x # d
      BY <2>1, <2>3, <3>1
    <3>2. CASE x = d /\ k # "signin"
      <4>1. calls'[x] = [calls[x] EXCEPT ![k] = Idle]
        BY <2>1, <2>3, <3>2
      <4> QED
        BY <2>3, <4>1
    <3>3. CASE x = d /\ k = "signin"
      <4>1. calls'[x] = [[calls[x] EXCEPT ![k] = Idle] EXCEPT !["hydrate"] = c]
        BY <2>1, <2>3, <3>3
      <4> DEFINE ended == [calls[x] EXCEPT ![k] = Idle]
      <4>2. \A i \in Kinds : ended[i] \in {calls[x][i], Idle}
        BY <2>3
      <4>3. DOMAIN ended = Kinds
        BY <2>3
      <4> HIDE DEF ended
      <4>4. calls'[x] = [ended EXCEPT !["hydrate"] = c]
        BY <4>1 DEF ended
      <4> QED
        BY <4>2, <4>3, <4>4
    <3> QED
      BY <3>1, <3>2, <3>3
  <2>5. ASSUME NEW x \in Devices, NEW j \in Kinds
        PROVE  \/ calls'[x][j] = calls[x][j]
               \/ /\ calls'[x][j].sent \in {<<>>, calls[x][j].sent}
                  /\ calls'[x][j].phase = "answered" => Serve(x, j)
    BY <2>2, <2>4
  <2> QED
    BY <1>1, <2>5, QuietMoves
<1> QED
  BY <1>2, <1>3

LEMMA NetworkMoves ==
  ASSUME Types, NEW d \in Devices, NEW k \in Kinds,
         Created(d, k) \/ Joined(d, k) \/ NotJoined(d, k) \/ Serve(d, k) \/ Lose(d, k)
  PROVE  Moves
<1>1. Idle.sent = <<>> /\ Idle.phase # "answered"
  BY DEF Idle
<1>2. CASE Created(d, k)
  <2>1. UNCHANGED <<store, late>>
    BY <1>2 DEF Created
  <2>2. CASE k = "fresh"
    <3>1. SetCall(d, k, Idle)
      BY <1>2, <2>2 DEF Created
    <3> QED
      BY <1>1, <2>1, <3>1, CallMoves
  <2>3. CASE k # "fresh"
    <3> DEFINE c == Call("asked", calls[d][k].sent, Len(sessions) + 1)
    <3>1. SetCall(d, k, c)
      BY <1>2, <2>3 DEF Created
    <3>2. c.sent = calls[d][k].sent /\ c.phase # "answered"
      BY DEF Call
    <3> HIDE DEF c
    <3> QED
      BY <2>1, <3>1, <3>2, CallMoves
  <2> QED
    BY <2>2, <2>3
<1>3. CASE Joined(d, k)
  BY <1>3, CallMoves DEF Joined
<1>4. CASE NotJoined(d, k)
  <2>1. SetCall(d, k, Idle) /\ UNCHANGED <<store, late>>
    BY <1>4 DEF NotJoined
  <2> QED
    BY <1>1, <2>1, CallMoves
<1>5. CASE Serve(d, k)
  <2>1. PICK c : c = calls[d][k]
    OBVIOUS
  <2> DEFINE p == sessions[c.grant].profile
             answer == [phase |-> "answered", sent |-> c.sent, grant |-> c.grant,
                        reply |-> [status |-> Status(c.grant, c.sent),
                                   cache |-> [of |-> p, changes |-> Len(log'[p])]]]
  <2>2. SetCall(d, k, answer) /\ UNCHANGED <<store, late>>
    BY <1>5, <2>1, ServeFacts
  <2>3. answer.sent = calls[d][k].sent
    BY <2>1
  <2> HIDE DEF answer
  <2> QED
    BY <1>5, <2>2, <2>3, CallMoves
<1>6. CASE Lose(d, k)
  <2>1. /\ SetCall(d, k, Idle) /\ UNCHANGED store
        /\ late' = late \/ late' = late \union Orphans(d)
    BY <1>6 DEF Lose
  <2> QED
    BY <1>1, <2>1, CallMoves
<1> QED
  BY <1>2, <1>3, <1>4, <1>5, <1>6

LEMMA StartMoves ==
  ASSUME Types, NEW d \in Devices, Skip(d) \/ StartFresh(d) \/ Reconcile(d)
  PROVE  Moves
<1>1. \A phase, g : Call(phase, <<>>, g).sent = <<>> /\ Call(phase, <<>>, g).phase = phase
  BY DEF Call
<1>2. CASE Skip(d)
  <2> DEFINE c == Call(IF grant[d] = 0 THEN "create" ELSE "asked", <<>>, grant[d])
  <2>1. SetCall(d, "skip", c) /\ UNCHANGED <<store, late>> /\ "skip" \in Kinds
    BY <1>2 DEF Skip, Kinds
  <2>2. c.sent = <<>> /\ c.phase # "answered"
    BY <1>1
  <2> HIDE DEF c
  <2> QED
    BY <2>1, <2>2, CallMoves
<1>3. CASE StartFresh(d)
  <2> DEFINE c == Call("create", <<>>, 0)
  <2>1. SetCall(d, "fresh", c) /\ UNCHANGED <<store, late>> /\ "fresh" \in Kinds
    BY <1>3 DEF StartFresh, Kinds
  <2>2. c.sent = <<>> /\ c.phase # "answered"
    BY <1>1
  <2> HIDE DEF c
  <2> QED
    BY <2>1, <2>2, CallMoves
<1>4. CASE Reconcile(d)
  <2>1. UNCHANGED <<store, late, calls>>
    BY <1>4 DEF Reconcile
  <2> QED
    BY <2>1, QuietMoves DEF LateFrom
<1> QED
  BY <1>2, <1>3, <1>4

LEMMA ClearedMoves ==
  ASSUME Types, NEW d \in Devices, Clear(d), LateFrom,
         \A x \in Devices \ {d} : next'[x] = next[x] /\ \A k \in Kinds : calls'[x][k] = calls[x][k],
         next'[d] = next[d] \/ \A k \in Kinds : calls'[d][k].sent = <<>>,
         SentFrom(d), AnsweredFrom(d)
  PROVE  Moves
<1>1. outbox' = [outbox EXCEPT ![d] = <<>>] /\ stored' = [stored EXCEPT ![d] = Nothing]
      /\ ToSet(outbox[d]) \subseteq given'
  BY DEF Clear
<1>2. \A x \in Devices \ {d} : Elsewhere(x)
  BY <1>1 DEF Elsewhere, Types, StoreTyped
<1>3. Forgets(d) /\ SavedFrom(d)
  BY <1>1 DEF Forgets, SavedFrom, Types, StoreTyped
<1> QED
  BY <1>2, <1>3, DeviceMoves DEF Moved

LEMMA SignInMoves ==
  ASSUME Types, NEW d \in Devices, SignIn(d)
  PROVE  Moves
<1> DEFINE c == Call("asked", <<>>, 0)
<1>1. SetCall(d, "signin", c) /\ Clear(d) /\ UNCHANGED <<next, late>> /\ "signin" \in Kinds
  BY DEF SignIn, Kinds
<1>2. c.sent = <<>> /\ c.phase # "answered"
  BY DEF Call
<1> HIDE DEF c
<1>3. \A x \in Devices : \A k \in Kinds : calls'[x][k] = IF x = d /\ k = "signin" THEN c ELSE calls[x][k]
  BY <1>1, OneCall
<1>4. SentFrom(d) /\ AnsweredFrom(d)
  BY <1>2, <1>3 DEF SentFrom, AnsweredFrom
<1>5. \A x \in Devices \ {d} : next'[x] = next[x] /\ \A k \in Kinds : calls'[x][k] = calls[x][k]
  BY <1>1, <1>3
<1>6. LateFrom
  BY <1>1 DEF LateFrom
<1> QED
  BY <1>1, <1>4, <1>5, <1>6, ClearedMoves

LEMMA RestartMoves ==
  ASSUME Types, NEW d \in Devices, Restart(d)
  PROVE  Moves
<1>1. /\ outbox' = [outbox EXCEPT ![d] = stored[d].outbox]
      /\ next' = [next EXCEPT ![d] = stored[d].next]
      /\ calls' = [calls EXCEPT ![d] = [k \in Kinds |-> Idle]]
      /\ late' = late \union Orphans(d) /\ UNCHANGED stored
  BY DEF Restart, Reload
<1>2. LateFrom
  BY <1>1, OrphansFrom
<1>3. \A x \in Devices \ {d} : Elsewhere(x)
  BY <1>1 DEF Elsewhere, Types, StoreTyped, CallsTyped
<1>4. \A k \in Kinds : calls'[d][k] = Idle
  BY <1>1 DEF Types, CallsTyped
<1>5. SentFrom(d) /\ AnsweredFrom(d)
  BY <1>4 DEF SentFrom, AnsweredFrom, Idle
<1> QED
  BY <1>1, <1>2, <1>3, <1>5, DeviceMoves DEF Moved, SavedFrom

LEMMA OpenLinkMoves ==
  ASSUME Types, NEW d \in Devices, OpenLink(d)
  PROVE  Moves
<1> DEFINE c == Call("asked", <<>>, 0)
           link == [[k \in Kinds |-> Idle] EXCEPT !["link"] = c]
<1>1. /\ Clear(d) /\ next' = [next EXCEPT ![d] = stored[d].next]
      /\ calls' = [calls EXCEPT ![d] = link]
      /\ late' = late \union Orphans(d)
  BY DEF OpenLink, Reload
<1>2. LateFrom
  BY <1>1, OrphansFrom
<1>3. c.sent = <<>> /\ c.phase # "answered" /\ Idle.sent = <<>> /\ Idle.phase # "answered"
  BY DEF Call, Idle
<1> HIDE DEF c
<1>4. \A k \in Kinds : link[k] \in {c, Idle}
  OBVIOUS
<1> HIDE DEF link
<1>5. \A k \in Kinds : calls'[d][k].sent = <<>> /\ calls'[d][k].phase # "answered"
  <2>1. calls'[d] = link
    BY <1>1 DEF Types, CallsTyped
  <2> QED
    BY <1>3, <1>4, <2>1
<1>6. \A x \in Devices \ {d} : next'[x] = next[x] /\ \A k \in Kinds : calls'[x][k] = calls[x][k]
  BY <1>1 DEF Types, StoreTyped, CallsTyped
<1>7. SentFrom(d) /\ AnsweredFrom(d)
  BY <1>5 DEF SentFrom, AnsweredFrom
<1> QED
  BY <1>1, <1>2, <1>5, <1>6, <1>7, ClearedMoves

LEMMA AnswerMoves ==
  ASSUME Types, NEW d \in Devices, NEW k \in Kinds, Answer(d, k)
  PROVE  Moves
<1>1. PICK c : c = calls[d][k]
  OBVIOUS
<1>2. SetCall(d, k, Idle) /\ late' = late /\ c.phase = "answered"
  BY <1>1 DEF Answer
<1>3. Idle.sent = <<>> /\ Idle.phase # "answered"
  BY DEF Idle
<1>4. \A x \in Devices : \A j \in Kinds : calls'[x][j] = IF x = d /\ j = k THEN Idle ELSE calls[x][j]
  BY <1>2, OneCall
<1>5. LateFrom /\ SentFrom(d) /\ AnsweredFrom(d)
  BY <1>2, <1>3, <1>4 DEF LateFrom, SentFrom, AnsweredFrom
<1> DEFINE record == [outbox |-> outbox'[d], cache |-> cache'[d], next |-> next'[d]]
<1>6. ASSUME Save(d)
      PROVE  SavedFrom(d) /\ \A x \in Devices \ {d} : stored'[x] = stored[x]
  <2>1. stored' = [stored EXCEPT ![d] = record] \/ stored' = stored
    BY <1>6 DEF Save
  <2> HIDE DEF record
  <2>2. stored'[d] = record \/ stored'[d] = stored[d]
    BY <2>1 DEF Types, StoreTyped
  <2>3. \A x \in Devices \ {d} : stored'[x] = stored[x]
    BY <2>1 DEF Types, StoreTyped
  <2> QED
    BY <2>2, <2>3 DEF SavedFrom, record
<1>7. CASE Clear(d) /\ UNCHANGED next
  BY <1>4, <1>5, <1>7, ClearedMoves
<1>8. CASE /\ c.reply.status = "active"
           /\ outbox' = [outbox EXCEPT ![d] = Unsent(@, c.sent)] /\ UNCHANGED next /\ Save(d)
  <2>1. outbox'[d] = Unsent(outbox[d], c.sent)
    BY <1>8 DEF Types, StoreTyped
  <2>2. Acknowledged(d)
    BY <1>1, <1>2, <1>4, <1>8, <2>1 DEF Acknowledged
  <2>3. \A x \in Devices \ {d} : Elsewhere(x)
    BY <1>4, <1>6, <1>8 DEF Elsewhere, Types, StoreTyped
  <2> QED
    BY <1>5, <1>6, <1>8, <2>2, <2>3, DeviceMoves DEF Moved
<1>9. CASE UNCHANGED <<outbox, cache, next>> /\ Save(d)
  <2>1. \A x \in Devices \ {d} : Elsewhere(x)
    BY <1>4, <1>6, <1>9 DEF Elsewhere
  <2> QED
    BY <1>5, <1>6, <1>9, <2>1, DeviceMoves DEF Moved, Stays
<1>10. CASE UNCHANGED store
  <2>1. \A x \in Devices \ {d} : Elsewhere(x)
    BY <1>4, <1>10 DEF Elsewhere, store
  <2> QED
    BY <1>5, <1>10, <2>1, DeviceMoves DEF Moved, Stays, SavedFrom, store
<1> QED
  BY <1>1, <1>7, <1>8, <1>9, <1>10 DEF Answer

LEMMA StepMoves ==
  ASSUME Types, [Next]_vars
  PROVE  Moves
<1>1. CASE UNCHANGED vars
  <2>1. UNCHANGED <<store, late, calls>>
    BY <1>1 DEF vars
  <2> QED
    BY <2>1, QuietMoves DEF LateFrom
<1>2. ASSUME NEW d \in Devices,
             \/ Record(d) \/ Reconcile(d) \/ StartSync(d) \/ Skip(d)
             \/ StartFresh(d) \/ SignIn(d) \/ Restart(d) \/ OpenLink(d)
             \/ \E k \in Kinds : Network(d, k) \/ Lose(d, k)
      PROVE  Moves
  BY <1>2, RecordMoves, StartSyncMoves, StartMoves, SignInMoves, RestartMoves, OpenLinkMoves,
     NetworkMoves, AnswerMoves DEF Network
<1>3. ASSUME ServeLate \/ DeleteProfile \/ \E g \in DOMAIN sessions : EndSession(g)
      PROVE  Moves
  <2>1. UNCHANGED <<store, calls>> /\ late' \subseteq late
    BY <1>3 DEF ServeLate, DeleteProfile, EndSession
  <2> QED
    BY <2>1, QuietMoves DEF LateFrom
<1> QED
  BY <1>1, <1>2, <1>3 DEF Next

-----------------------------------------------------------------------------
(* The inductive invariant. Queues and batches hold changes of their       *)
(* device in the learner's order; a batch and the outbox name one change   *)
(* by one id; whatever competes with a change that was sent or taken, and  *)
(* is older, goes with it or is settled; an answer is about the log.       *)
Batch(ops, d, n) == InOrder(ops) /\ \A op \in ToSet(ops) : op.dev = d /\ op.id < n
QueuesInOrder ==
  \A d \in Devices :
    /\ Batch(outbox[d], d, next[d]) /\ Batch(stored[d].outbox, d, stored[d].next)
    /\ \A k \in Kinds : /\ Batch(calls[d][k].sent, d, next[d])
                        /\ k # "sync" => calls[d][k].sent = <<>>
SentMatches ==
  \A d \in Devices : \A k \in Kinds :
    \A s \in ToSet(calls[d][k].sent) : \A op \in ToSet(outbox[d]) : SameId(s, op) => s = op

Older(x, y) == x.dev = y.dev /\ x.of = y.of /\ x.data < y.data
Settled(x, lost, logs) == x \in lost \/ x \in ToSet(logs[x.of])
Complete(ops, all, lost, logs) ==
  \A y \in ToSet(ops) : \A x \in all : Older(x, y) => x \in ToSet(ops) \/ Settled(x, lost, logs)
SendsComplete ==
  /\ \A d \in Devices : \A k \in Kinds : Complete(calls[d][k].sent, made, given, log)
  /\ \A c \in late : Complete(c.sent, made, given, log) /\ InOrder(c.sent)

InTurn(l, lost) ==
  \A j \in DOMAIN l : \A i \in 1..j - 1 :
    l[i] # l[j] /\ (Older(l[j], l[i]) => l[j] \in lost)
TakenWell(l, p, all, lost) ==
  /\ \A y \in ToSet(l) : y.of = p /\ \A x \in all : Older(x, y) => x \in lost \/ x \in ToSet(l)
  /\ InTurn(l, lost)
LogSound == \A p \in DOMAIN log : TakenWell(log[p], p, made, given)

First(l, n) == {l[i] : i \in 1..n}
Shows(d, c, kept, queue, logs) ==
  \A op \in kept : op.dev = d /\ op.of = c.reply.cache.of =>
    \/ op \in ToSet(queue) /\ \A s \in ToSet(c.sent) : ~SameId(s, op)
    \/ op \in First(logs[op.of], c.reply.cache.changes)
Truthful(d, k, c, kept, queue, logs) ==
  /\ c.reply.cache.of \in DOMAIN logs
  /\ c.reply.cache.changes \in 0..Len(logs[c.reply.cache.of])
  /\ \A s \in ToSet(c.sent) : s.of = c.reply.cache.of /\ s \in ToSet(logs[s.of])
  /\ k = "sync" => Shows(d, c, kept, queue, logs)
Good(c) == c.phase = "answered" /\ c.reply.status = "active"
AnswersTrue ==
  \A d \in Devices : \A k \in Kinds :
    Good(calls[d][k]) => Truthful(d, k, calls[d][k], made \ given, outbox[d], log)

Inv == /\ Types /\ QueuesInOrder /\ SentMatches /\ SendsComplete
       /\ LogSound /\ AnswersTrue /\ NothingForgotten

LEMMA EmptyBatch ==
  ASSUME NEW d, NEW n
  PROVE  Batch(<<>>, d, n) /\ ToSet(<<>>) = {} /\ InOrder(<<>>)
BY DEF Batch, InOrder, ToSet

LEMMA InvInit == Init => Inv
<1> SUFFICES ASSUME Init PROVE Inv
  OBVIOUS
<1>1. Types
  BY TypesInit
<1>2. /\ made = {} /\ late = {} /\ log = <<<<>>>>
      /\ \A d \in Devices : /\ outbox[d] = <<>> /\ stored[d].outbox = <<>>
                            /\ \A k \in Kinds : calls[d][k].sent = <<>> /\ calls[d][k].phase = "idle"
  BY DEF Init, Nothing, Idle
<1>3. QueuesInOrder
  BY <1>2, EmptyBatch DEF QueuesInOrder
<1>4. SentMatches /\ SendsComplete
  BY <1>2, EmptyBatch DEF SentMatches, SendsComplete, Complete
<1>5. LogSound
  <2>1. DOMAIN log = {1} /\ log[1] = <<>>
    BY <1>2
  <2>2. DOMAIN <<>> = {}
    OBVIOUS
  <2> QED
    BY <2>1, <2>2, EmptyBatch DEF LogSound, TakenWell, InTurn
<1>6. AnswersTrue /\ NothingForgotten
  BY <1>2 DEF AnswersTrue, Good, NothingForgotten
<1> QED
  BY <1>1, <1>3, <1>4, <1>5, <1>6 DEF Inv

(* Within one queue an id names one change.                                *)
LEMMA OneChange ==
  ASSUME NEW V, V \subseteq Changes, NEW ops \in Seq(V), InOrder(ops),
         NEW a \in ToSet(ops), NEW b \in ToSet(ops), a.id = b.id
  PROVE  a = b
<1>1. PICK i \in DOMAIN ops, j \in DOMAIN ops : a = ops[i] /\ b = ops[j]
  BY DEF ToSet
<1>2. DOMAIN ops = 1..Len(ops) /\ Len(ops) \in Nat
  OBVIOUS
<1>3. a \in Changes /\ b \in Changes
  BY <1>1, ElementOf
<1>4. a.id \in Int /\ b.id \in Int
  BY <1>3 DEF Changes
<1>5. ~(i < j) /\ ~(j < i)
  BY <1>1, <1>4 DEF InOrder
<1> QED
  BY <1>1, <1>2, <1>5

-----------------------------------------------------------------------------
(* What stays true while the history grows.                                *)
LEMMA OnlyOldOnes ==
  ASSUME Types, Types', Grows, NEW y \in made, NEW x \in made', Older(x, y)
  PROVE  x \in made
<1>1. x.data \in Int /\ y.data \in Int
  BY DEF Types, MadeTyped, Changes, Grows
<1> QED
  BY <1>1 DEF Grows, Older

LEMMA TakenStay ==
  ASSUME Types, Grows, NEW p \in DOMAIN log
  PROVE  p \in DOMAIN log' /\ ToSet(log[p]) \subseteq ToSet(log'[p])
BY DEF Grows, ToSet

LEMMA SettledStays ==
  ASSUME Types, Grows, NEW x \in made, Settled(x, given, log)
  PROVE  Settled(x, given', log')
<1>1. x.of \in DOMAIN log
  BY DEF Types, MadeTyped, ServerTyped
<1> QED
  BY <1>1, TakenStay DEF Settled, Grows

LEMMA CompleteStays ==
  ASSUME Types, Types', Grows, NEW ops, ToSet(ops) \subseteq made, Complete(ops, made, given, log)
  PROVE  Complete(ops, made', given', log')
BY OnlyOldOnes, SettledStays DEF Complete

LEMMA TakenWellStays ==
  ASSUME Types, Types', Grows, NEW l, NEW p, ToSet(l) \subseteq made, TakenWell(l, p, made, given)
  PROVE  TakenWell(l, p, made', given')
<1>1. InTurn(l, given')
  BY DEF TakenWell, InTurn, Grows
<1>2. ASSUME NEW y \in ToSet(l), NEW x \in made', Older(x, y)
      PROVE  x \in given' \/ x \in ToSet(l)
  <2>1. x \in made
    BY <1>2, OnlyOldOnes
  <2> QED
    BY <1>2, <2>1 DEF TakenWell, Grows
<1> QED
  BY <1>1, <1>2 DEF TakenWell

(* What a step does to the log and to the changes made.                    *)
Takes == (\E d \in Devices : \E k \in Kinds : Serve(d, k)) \/ ServeLate
LEMMA StepTakes ==
  ASSUME [Next]_vars
  PROVE  log' = log \/ log' = Append(log, <<>>) \/ Takes
<1>1. CASE UNCHANGED vars
  BY <1>1 DEF vars, server
<1>2. ASSUME NEW d \in Devices,
             Record(d) \/ Reconcile(d) \/ StartSync(d) \/ Skip(d) \/ StartFresh(d) \/ SignIn(d)
             \/ Restart(d) \/ OpenLink(d)
      PROVE  log' = log
  BY <1>2 DEF Record, Reconcile, StartSync, Skip, StartFresh, SignIn, Restart, OpenLink, Reload,
              server
<1>3. ASSUME NEW d \in Devices, NEW k \in Kinds,
             Created(d, k) \/ Joined(d, k) \/ NotJoined(d, k) \/ Answer(d, k) \/ Lose(d, k)
      PROVE  log' = log \/ log' = Append(log, <<>>)
  BY <1>3 DEF Created, Joined, NotJoined, Answer, Lose, server
<1>4. ASSUME DeleteProfile \/ \E g \in DOMAIN sessions : EndSession(g)
      PROVE  log' = log
  BY <1>4 DEF DeleteProfile, EndSession
<1> QED
  BY <1>1, <1>2, <1>3, <1>4 DEF Next, Network, Takes

LEMMA StepMakes ==
  ASSUME [Next]_vars
  PROVE  made' = made \/ \E d \in Devices : Record(d)
<1>1. CASE UNCHANGED vars
  BY <1>1 DEF vars
<1>2. ASSUME NEW d \in Devices,
             Reconcile(d) \/ StartSync(d) \/ Skip(d) \/ StartFresh(d) \/ SignIn(d)
             \/ Restart(d) \/ OpenLink(d)
      PROVE  made' = made
  BY <1>2 DEF Reconcile, StartSync, Skip, StartFresh, SignIn, Restart, OpenLink, Reload
<1>3. ASSUME NEW d \in Devices, NEW k \in Kinds, Network(d, k) \/ Lose(d, k)
      PROVE  made' = made
  BY <1>3 DEF Network, Created, Joined, NotJoined, Serve, Answer, Lose
<1>4. ASSUME ServeLate \/ DeleteProfile \/ \E g \in DOMAIN sessions : EndSession(g)
      PROVE  made' = made
  BY <1>4 DEF ServeLate, DeleteProfile, EndSession
<1> QED
  BY <1>1, <1>2, <1>3, <1>4 DEF Next

-----------------------------------------------------------------------------
(* The log takes batches in turn.                                          *)
LEMMA TakenWellAppends ==
  ASSUME NEW M, M \subseteq Changes, NEW l \in Seq(M), NEW t \in Seq(M), NEW p, NEW lost,
         TakenWell(l, p, M, lost), InOrder(t),
         \A y \in ToSet(t) : y.of = p /\ y \notin ToSet(l),
         \A y \in ToSet(t) : \A x \in M : Older(x, y) =>
           x \in lost \/ x \in ToSet(l) \union ToSet(t)
  PROVE  TakenWell(l \o t, p, M, lost)
<1> DEFINE u == l \o t
<1>1. ToSet(u) = ToSet(l) \union ToSet(t)
  BY ConcatElements
<1>2. /\ Len(l) \in Nat /\ Len(t) \in Nat /\ DOMAIN l = 1..Len(l) /\ DOMAIN t = 1..Len(t)
      /\ DOMAIN u = 1..(Len(l) + Len(t))
      /\ \A i \in 1..Len(l) : u[i] = l[i]
      /\ \A i \in 1..Len(t) : u[Len(l) + i] = t[i]
  OBVIOUS
<1> HIDE DEF u
<1>3. ASSUME NEW y \in ToSet(u)
      PROVE  y.of = p /\ \A x \in M : Older(x, y) => x \in lost \/ x \in ToSet(u)
  BY <1>1 DEF TakenWell
<1>4. \A y \in ToSet(l) \union ToSet(t) : y \in M /\ y.data \in Int
  BY ElementsIn DEF Changes
<1>5. ASSUME NEW j \in DOMAIN u, NEW i \in 1..j - 1
      PROVE  u[i] # u[j] /\ (Older(u[j], u[i]) => u[j] \in lost)
  <2>1. CASE j \in 1..Len(l)
    <3>1. i \in 1..Len(l) /\ u[i] = l[i] /\ u[j] = l[j] /\ j \in DOMAIN l
      BY <1>2, <2>1
    <3> QED
      BY <3>1 DEF TakenWell, InTurn
  <2>2. CASE j - Len(l) \in 1..Len(t)
    <3>1. u[j] = t[j - Len(l)] /\ j - Len(l) \in DOMAIN t
      <4>1. u[Len(l) + (j - Len(l))] = t[j - Len(l)] /\ Len(l) + (j - Len(l)) = j
        BY <1>2, <2>2
      <4> QED
        BY <1>2, <2>2, <4>1
    <3>2. u[j] \in ToSet(t)
      BY <3>1 DEF ToSet
    <3>3. CASE i \in 1..Len(l)
      <4>1. u[i] \in ToSet(l)
        BY <1>2, <3>3 DEF ToSet
      <4>2. u[j] \notin ToSet(l) /\ u[j] \in M
        BY <1>4, <3>2
      <4>3. Older(u[j], u[i]) => u[j] \in lost \/ u[j] \in ToSet(l)
        BY <4>1, <4>2 DEF TakenWell
      <4> QED
        BY <4>1, <4>2, <4>3
    <3>4. CASE i - Len(l) \in 1..Len(t)
      <4>1. u[i] = t[i - Len(l)] /\ i - Len(l) \in DOMAIN t
        <5>1. u[Len(l) + (i - Len(l))] = t[i - Len(l)] /\ Len(l) + (i - Len(l)) = i
          BY <1>2, <3>4
        <5> QED
          BY <1>2, <3>4, <5>1
      <4>2. i - Len(l) < j - Len(l)
        BY <1>2
      <4>3. u[i].data < u[j].data
        BY <3>1, <4>1, <4>2 DEF InOrder
      <4>4. u[i].data \in Int /\ u[j].data \in Int
        BY <1>4, <3>2, <4>1 DEF ToSet
      <4> QED
        BY <4>3, <4>4 DEF Older
    <3> QED
      BY <1>2, <3>3, <3>4
  <2> QED
    BY <1>2, <2>1, <2>2
<1>6. InTurn(u, lost)
  BY <1>5 DEF InTurn
<1> QED
  BY <1>3, <1>6 DEF TakenWell, u

(* An active answer means that the whole batch is in the log.              *)
LEMMA AcceptActive ==
  ASSUME Types, LogSound, NEW g \in 1..Len(sessions), NEW ops \in Seq(made), Accept(g, ops),
         Status(g, ops) = "active"
  PROVE  LET p == sessions[g].profile
             new == NewOps(p, ops)
         IN  /\ p \in 1..Len(log) /\ new \in Seq(made) /\ log[p] \in Seq(made)
             /\ log' = [log EXCEPT ![p] = log[p] \o new]
             /\ log'[p] = log[p] \o new
             /\ ToSet(log'[p]) = ToSet(log[p]) \union ToSet(new)
             /\ \A op \in ToSet(ops) : op.of = p /\ op \in ToSet(log'[p])
             /\ \A op \in ToSet(new) : op \in ToSet(ops) /\ op \notin ToSet(log[p])
             /\ InOrder(ops) => InOrder(new)
<1>1. PICK p : p = sessions[g].profile
  OBVIOUS
<1>2. PICK new : new = NewOps(p, ops)
  OBVIOUS
<1>3. p \in 1..Len(log) /\ new \in Seq(made)
  BY <1>1, <1>2, AcceptFacts
<1>4. log \in Seq(Seq(made)) /\ p \in DOMAIN log
  BY <1>3 DEF Types, ServerTyped
<1>5. log[p] \in Seq(made)
  BY <1>4, ElementOf
<1>6. log' = [log EXCEPT ![p] = log[p] \o new]
  BY <1>1, <1>2 DEF Accept
<1>7. log'[p] = log[p] \o new
  BY <1>4, <1>6
<1>8. ToSet(log'[p]) = ToSet(log[p]) \union ToSet(new)
  BY <1>3, <1>5, <1>7, ConcatElements
<1> DEFINE unknown == {op \in ToSet(ops) : ~Known(p, op)}
<1>9. new = Only(ops, unknown)
  BY <1>2 DEF NewOps
<1> HIDE DEF unknown
<1>10. ToSet(new) = ToSet(ops) \intersect unknown /\ (InOrder(ops) => InOrder(new))
  BY <1>9, OnlyFacts, OnlyInOrder
<1>11. Acceptable(p, ops)
  BY <1>1 DEF Status
<1>12. ASSUME NEW op \in ToSet(ops)
       PROVE  op.of = p /\ op \in ToSet(log'[p])
  <2>1. CASE Known(p, op)
    <3>1. op \in ToSet(log[p])
      BY <1>11, <2>1 DEF Acceptable
    <3>2. op.of = p
      BY <1>4, <3>1 DEF LogSound, TakenWell
    <3> QED
      BY <1>8, <3>1, <3>2
  <2>2. CASE ~Known(p, op)
    <3>1. op.of = p
      BY <1>11, <2>2 DEF Acceptable
    <3>2. op \in ToSet(new)
      BY <1>10, <2>2 DEF unknown
    <3> QED
      BY <1>8, <3>1, <3>2
  <2> QED
    BY <2>1, <2>2
<1>13. ASSUME NEW op \in ToSet(new)
       PROVE  op \in ToSet(ops) /\ op \notin ToSet(log[p])
  <2>1. op \in ToSet(ops) /\ ~Known(p, op)
    BY <1>10 DEF unknown
  <2> QED
    BY <2>1 DEF Known, SameId
<1> QED
  BY <1>1, <1>2, <1>3, <1>5, <1>6, <1>7, <1>8, <1>10, <1>12, <1>13

LEMMA AcceptSound ==
  ASSUME Types, Types', Grows, LogSound, NEW g \in 1..Len(sessions), NEW ops \in Seq(made),
         Accept(g, ops), Complete(ops, made, given, log), InOrder(ops), UNCHANGED <<made, given>>
  PROVE  LogSound'
<1>1. PICK p : p = sessions[g].profile
  OBVIOUS
<1>2. CASE log' = log
  BY <1>2 DEF LogSound
<1>3. CASE Status(g, ops) = "active"
  <2>1. PICK new : new = NewOps(p, ops)
    OBVIOUS
  <2>2. /\ p \in 1..Len(log) /\ new \in Seq(made) /\ log[p] \in Seq(made)
        /\ log' = [log EXCEPT ![p] = log[p] \o new] /\ log'[p] = log[p] \o new
        /\ ToSet(log'[p]) = ToSet(log[p]) \union ToSet(new)
        /\ \A op \in ToSet(ops) : op.of = p /\ op \in ToSet(log'[p])
        /\ \A op \in ToSet(new) : op \in ToSet(ops) /\ op \notin ToSet(log[p])
        /\ InOrder(new)
    BY <1>1, <1>3, <2>1, AcceptActive
  <2>3. p \in DOMAIN log /\ DOMAIN log' = DOMAIN log
    BY <2>2 DEF Types, ServerTyped
  <2>4. ASSUME NEW y \in ToSet(new), NEW x \in made, Older(x, y)
        PROVE  x \in given \/ x \in ToSet(log[p]) \union ToSet(new)
    <3>1. x.of = p
      BY <2>2, <2>4 DEF Older
    <3>2. x \in ToSet(ops) \/ x \in given \/ x \in ToSet(log[x.of])
      BY <2>2, <2>4 DEF Complete, Settled
    <3> QED
      BY <2>2, <3>1, <3>2
  <2>5. made \subseteq Changes
    BY DEF Types, MadeTyped
  <2>6. TakenWell(log[p], p, made, given)
    BY <2>3 DEF LogSound
  <2>7. TakenWell(log[p] \o new, p, made, given)
    BY <2>2, <2>4, <2>5, <2>6, TakenWellAppends
  <2>8. ASSUME NEW q \in DOMAIN log'
        PROVE  TakenWell(log'[q], q, made, given)
    <3>1. CASE q = p
      BY <2>2, <2>7, <3>1
    <3>2. CASE q # p
      <4>1. log'[q] = log[q]
        BY <2>2, <3>2
      <4> QED
        BY <2>3, <4>1 DEF LogSound
    <3> QED
      BY <3>1, <3>2
  <2> QED
    BY <2>8 DEF LogSound
<1> QED
  BY <1>2, <1>3, AcceptFacts

LEMMA LogSoundStep ==
  ASSUME Inv, Types', Grows, [Next]_vars
  PROVE  LogSound'
<1>1. Types /\ LogSound /\ SendsComplete /\ QueuesInOrder
  BY DEF Inv
<1>2. log \in Seq(Seq(made))
  BY <1>1 DEF Types, ServerTyped
<1>3. \A p \in DOMAIN log : TakenWell(log[p], p, made', given')
  <2>1. ASSUME NEW p \in DOMAIN log PROVE TakenWell(log[p], p, made', given')
    <3>1. PICK l : l = log[p]
      OBVIOUS
    <3>2. ToSet(l) \subseteq made /\ TakenWell(l, p, made, given)
      BY <1>1, <1>2, <3>1, ElementOf, ElementsIn DEF LogSound
    <3> QED
      BY <1>1, <3>1, <3>2, TakenWellStays
  <2> QED
    BY <2>1
<1>4. CASE log' = log
  BY <1>3, <1>4 DEF LogSound
<1>5. CASE log' = Append(log, <<>>)
  <2>1. ASSUME NEW p \in DOMAIN log'
        PROVE  TakenWell(log'[p], p, made', given')
    <3>1. PICK none : none = <<>>
      OBVIOUS
    <3>2. log' = Append(log, none)
      BY <1>5, <3>1
    <3>3. (p \in DOMAIN log /\ log'[p] = log[p]) \/ log'[p] = none
      BY <1>2, <3>2
    <3>4. TakenWell(none, p, made', given')
      BY <3>1, EmptyBatch DEF TakenWell, InTurn
    <3> QED
      BY <1>3, <3>3, <3>4
  <2> QED
    BY <2>1 DEF LogSound
<1>6. CASE \E d \in Devices : \E k \in Kinds : Serve(d, k)
  <2>1. PICK d \in Devices, k \in Kinds : Serve(d, k)
    BY <1>6
  <2>2. PICK c : c = calls[d][k]
    OBVIOUS
  <2>3. /\ c.grant \in 1..Len(sessions) /\ c.sent \in Seq(made) /\ Accept(c.grant, c.sent)
        /\ UNCHANGED <<made, given>>
    BY <1>1, <2>1, <2>2, ServeFacts
  <2>4. Complete(c.sent, made, given, log) /\ InOrder(c.sent)
    BY <1>1, <2>2 DEF SendsComplete, QueuesInOrder, Batch
  <2> QED
    BY <1>1, <2>3, <2>4, AcceptSound
<1>7. CASE ServeLate
  <2>1. PICK c \in late : Accept(c.grant, c.sent) /\ UNCHANGED <<made, given>>
    BY <1>7 DEF ServeLate
  <2>2. c.grant \in 1..Len(sessions) /\ c.sent \in Seq(made)
    BY <1>1, LateBatch
  <2>3. Complete(c.sent, made, given, log) /\ InOrder(c.sent)
    BY <1>1 DEF SendsComplete
  <2> QED
    BY <1>1, <2>1, <2>2, <2>3, AcceptSound
<1> QED
  BY <1>4, <1>5, <1>6, <1>7, StepTakes DEF Takes

-----------------------------------------------------------------------------
(* The queues. A device's outbox gets only its newest change, and loses    *)
(* only what is given up or acknowledged.                                  *)
NoneSent(x) == \A k \in Kinds : calls'[x][k].sent = <<>>
OutboxFrom(x) ==
  /\ Batch(outbox'[x], x, next'[x])
  /\ next[x] <= next'[x] \/ NoneSent(x)
  /\ \A op \in ToSet(outbox'[x]) : op \in ToSet(outbox[x]) \/ op.id = next[x] \/ NoneSent(x)

LEMMA RecordQueue ==
  ASSUME Types, QueuesInOrder, NEW d \in Devices, Record(d)
  PROVE  OutboxFrom(d)
<1> DEFINE op == Change(d)
<1>1. outbox'[d] = Queued(outbox[d], op) /\ next'[d] = next[d] + 1
  <2>1. outbox' = [outbox EXCEPT ![d] = Queued(outbox[d], op)]
    BY RecordFacts
  <2>2. next' = [next EXCEPT ![d] = next[d] + 1]
    BY DEF Record
  <2> QED
    BY <2>1, <2>2 DEF Types, StoreTyped
<1>2. /\ op \in Changes /\ op.dev = d /\ op.id = next[d] /\ op.data = Cardinality(made) + 1
  BY RecordFacts DEF Change
<1>3. outbox[d] \in Seq(made) /\ Len(outbox[d]) <= OutboxLimit /\ next[d] \in Nat
  BY Sizes DEF Types, StoreTyped
<1>4. made \subseteq Changes /\ \A x \in made : x.data \in Nat /\ x.data <= Cardinality(made)
  BY DEF Types, MadeTyped, Changes
<1>5. Batch(outbox[d], d, next[d])
  BY DEF QueuesInOrder
<1> HIDE DEF op
<1>6. \A x \in ToSet(outbox[d]) : x.data < op.data /\ x.id < op.id
  BY <1>2, <1>3, <1>4, <1>5, Sizes, ElementsIn DEF Batch
<1>7. InOrder(Append(outbox[d], op))
  BY <1>3, <1>5, <1>6, AppendInOrder DEF Batch
<1>8. outbox[d] \in Seq(Changes)
  BY <1>3, <1>4, SeqGrows
<1>9. /\ InOrder(outbox'[d]) /\ ToSet(outbox'[d]) \subseteq ToSet(outbox[d]) \union {op}
  BY <1>1, <1>2, <1>3, <1>7, <1>8, QueuedFacts
<1>10. \A x \in ToSet(outbox[d]) : x.dev = d /\ x.id < next[d] /\ x.id \in Int
  BY <1>4, <1>3, <1>5, ElementsIn DEF Batch, Changes
<1>11. Batch(outbox'[d], d, next'[d])
  BY <1>1, <1>2, <1>3, <1>9, <1>10 DEF Batch
<1> QED
  BY <1>1, <1>2, <1>3, <1>9, <1>11 DEF OutboxFrom

LEMMA StartSyncQueue ==
  ASSUME Types, NEW d \in Devices, StartSync(d)
  PROVE  /\ outbox'[d] \in Seq(made) /\ ToSet(outbox'[d]) \subseteq ToSet(outbox[d])
         /\ ToSet(outbox[d]) \subseteq ToSet(outbox'[d]) \union given'
         /\ InOrder(outbox[d]) => InOrder(outbox'[d])
         /\ next'[d] = next[d] /\ made' = made /\ calls[d]["sync"] = Idle
<1>1. PICK n \in 0..Len(outbox[d]) :
        /\ given' = given \union ToSet(SubSeq(outbox[d], 1, n))
        /\ outbox' = [outbox EXCEPT ![d] = SubSeq(@, n + 1, Len(@))]
  BY DEF StartSync
<1>2. outbox[d] \in Seq(made)
  BY DEF Types, StoreTyped
<1>3. outbox'[d] = SubSeq(outbox[d], n + 1, Len(outbox[d]))
  BY <1>1 DEF Types, StoreTyped
<1>4. next'[d] = next[d] /\ made' = made /\ calls[d]["sync"] = Idle
  BY DEF StartSync, Free
<1>5. LET rest == SubSeq(outbox[d], n + 1, Len(outbox[d])) IN
         /\ rest \in Seq(made) /\ ToSet(rest) \subseteq ToSet(outbox[d])
         /\ ToSet(outbox[d]) = ToSet(SubSeq(outbox[d], 1, n)) \union ToSet(rest)
         /\ InOrder(outbox[d]) => InOrder(rest)
  BY <1>2, DropFacts
<1> QED
  BY <1>1, <1>3, <1>4, <1>5

LEMMA MovedQueue ==
  ASSUME Types, QueuesInOrder, NEW x \in Devices, Moved(x)
  PROVE  OutboxFrom(x)
<1>1. /\ outbox[x] \in Seq(made) /\ Len(outbox[x]) <= OutboxLimit /\ next[x] \in Nat
      /\ Batch(outbox[x], x, next[x])
  BY Sizes DEF Types, StoreTyped, QueuesInOrder
<1>2. CASE Stays(x)
  BY <1>1, <1>2 DEF Stays, OutboxFrom
<1>3. CASE StartSync(x)
  <2>1. /\ ToSet(outbox'[x]) \subseteq ToSet(outbox[x]) /\ InOrder(outbox'[x])
        /\ next'[x] = next[x]
    BY <1>1, <1>3, StartSyncQueue DEF Batch
  <2>2. next[x] <= next'[x]
    BY <1>1, <2>1
  <2> QED
    BY <1>1, <2>1, <2>2 DEF OutboxFrom, Batch
<1>4. CASE Restart(x)
  <2>1. outbox'[x] = stored[x].outbox /\ next'[x] = stored[x].next
    BY <1>4 DEF Restart, Reload, Types, StoreTyped
  <2>2. NoneSent(x)
    BY <1>4 DEF Restart, NoneSent, Idle, Types, CallsTyped
  <2> QED
    BY <2>1, <2>2 DEF OutboxFrom, QueuesInOrder
<1>5. CASE Forgets(x)
  BY <1>1, <1>5, EmptyBatch DEF Forgets, OutboxFrom, NoneSent
<1>6. CASE Acknowledged(x)
  <2>1. PICK sent : outbox'[x] = Unsent(outbox[x], sent) /\ next'[x] = next[x]
    BY <1>6 DEF Acknowledged
  <2>2. ToSet(outbox'[x]) \subseteq ToSet(outbox[x]) /\ (InOrder(outbox[x]) => InOrder(outbox'[x]))
    BY <1>1, <2>1, UnsentFacts
  <2> QED
    BY <1>1, <2>1, <2>2 DEF OutboxFrom, Batch
<1> QED
  BY <1>2, <1>3, <1>4, <1>5, <1>6, RecordQueue DEF Moved

LEMMA QueuesStep ==
  ASSUME Types, Types', QueuesInOrder, Moves
  PROVE  QueuesInOrder'
<1> SUFFICES ASSUME NEW x \in Devices
             PROVE  /\ Batch(outbox'[x], x, next'[x]) /\ Batch(stored'[x].outbox, x, stored'[x].next)
                    /\ \A k \in Kinds : /\ Batch(calls'[x][k].sent, x, next'[x])
                                        /\ k # "sync" => calls'[x][k].sent = <<>>
  BY DEF QueuesInOrder
<1>1. OutboxFrom(x) /\ SavedFrom(x) /\ SentFrom(x)
  BY MovedQueue DEF Moves
<1>2. Batch(stored'[x].outbox, x, stored'[x].next)
  <2>1. CASE stored'[x] = stored[x]
    BY <2>1 DEF QueuesInOrder
  <2>2. CASE stored'[x] = Nothing
    BY <2>2, EmptyBatch DEF Nothing
  <2>3. CASE stored'[x] = [outbox |-> outbox'[x], cache |-> cache'[x], next |-> next'[x]]
    BY <1>1, <2>3 DEF OutboxFrom
  <2> QED
    BY <1>1, <2>1, <2>2, <2>3 DEF SavedFrom
<1>3. ASSUME NEW k \in Kinds
      PROVE  Batch(calls'[x][k].sent, x, next'[x]) /\ (k # "sync" => calls'[x][k].sent = <<>>)
  <2>1. CASE calls'[x][k].sent = <<>>
    BY <2>1, EmptyBatch
  <2>2. CASE calls'[x][k].sent = calls[x][k].sent /\ calls'[x][k].sent # <<>>
    <3>1. next[x] <= next'[x]
      BY <1>1, <2>2 DEF OutboxFrom, NoneSent
    <3>2. calls[x][k].sent \in Seq(made) /\ made \subseteq Changes
      BY DEF Types, CallsTyped, CallSet, MadeTyped
    <3>3. \A op \in ToSet(calls[x][k].sent) : op.id \in Int
      BY <3>2, ElementsIn DEF Changes
    <3>4. next[x] \in Int /\ next'[x] \in Int
      BY Sizes DEF Types, StoreTyped
    <3> QED
      BY <2>2, <3>1, <3>3, <3>4 DEF QueuesInOrder, Batch
  <2>3. CASE k = "sync" /\ calls'[x][k].sent = outbox'[x]
    BY <1>1, <2>3 DEF OutboxFrom
  <2> QED
    BY <1>1, <2>1, <2>2, <2>3 DEF SentFrom
<1> QED
  BY <1>1, <1>2, <1>3 DEF OutboxFrom

LEMMA SentMatchesStep ==
  ASSUME Types, Types', QueuesInOrder, SentMatches, Moves
  PROVE  SentMatches'
<1> SUFFICES ASSUME NEW x \in Devices, NEW k \in Kinds, NEW s \in ToSet(calls'[x][k].sent),
                    NEW op \in ToSet(outbox'[x]), SameId(s, op)
             PROVE  s = op
  BY DEF SentMatches
<1>1. OutboxFrom(x) /\ SentFrom(x)
  BY MovedQueue DEF Moves
<1>2. calls'[x][k].sent # <<>>
  BY EmptyBatch
<1>3. CASE calls'[x][k].sent = calls[x][k].sent
  <2>1. op \in ToSet(outbox[x]) \/ op.id = next[x]
    BY <1>1, <1>2 DEF OutboxFrom, NoneSent
  <2>2. s.id < next[x] /\ next[x] \in Int
    BY <1>3, Sizes DEF QueuesInOrder, Batch, Types, StoreTyped
  <2> QED
    BY <1>3, <2>1, <2>2 DEF SentMatches, SameId
<1>4. CASE calls'[x][k].sent = outbox'[x]
  <2>1. PICK ops : ops = outbox'[x]
    OBVIOUS
  <2>2. ops \in Seq(made') /\ InOrder(ops)
    BY <1>1, <2>1 DEF OutboxFrom, Batch, Types, StoreTyped
  <2>3. made' \subseteq Changes
    BY DEF Types, MadeTyped
  <2>4. PICK V : V = made'
    OBVIOUS
  <2> QED
    BY <1>4, <2>1, <2>2, <2>3, <2>4, OneChange DEF SameId
<1> QED
  BY <1>1, <1>2, <1>3, <1>4 DEF SentFrom

(* A change leaves its outbox when it is given up, or when an answer says  *)
(* that it was taken.                                                      *)
LEMMA Leaves ==
  ASSUME Types, SentMatches, NEW x \in Devices, Moved(x), NEW op \in ToSet(outbox[x])
  PROVE  \/ op \in ToSet(outbox'[x]) \/ op \in given'
         \/ \E k \in Kinds : /\ Good(calls[x][k]) /\ calls'[x][k] = Idle
                             /\ op \in ToSet(calls[x][k].sent)
<1>1. outbox[x] \in Seq(made) /\ Len(outbox[x]) <= OutboxLimit
  BY DEF Types, StoreTyped
<1>2. CASE Stays(x)
  BY <1>2 DEF Stays
<1>3. CASE Record(x)
  BY <1>3 DEF Record
<1>4. CASE StartSync(x)
  BY <1>4, StartSyncQueue
<1>5. CASE Restart(x)
  <2>1. given' = given \union (ToSet(outbox[x]) \ ToSet(stored[x].outbox))
        /\ outbox'[x] = stored[x].outbox
    BY <1>5 DEF Restart, Types, StoreTyped
  <2> QED
    BY <2>1
<1>6. CASE Forgets(x)
  BY <1>6 DEF Forgets
<1>7. CASE Acknowledged(x)
  <2>1. PICK k \in Kinds : /\ Good(calls[x][k]) /\ calls'[x][k] = Idle
                           /\ outbox'[x] = Unsent(outbox[x], calls[x][k].sent)
    BY <1>7 DEF Acknowledged, Good
  <2>2. PICK sent : sent = calls[x][k].sent
    OBVIOUS
  <2>3. ToSet(Unsent(outbox[x], sent)) = {o \in ToSet(outbox[x]) : \A s \in ToSet(sent) : ~SameId(s, o)}
    BY <1>1, UnsentFacts
  <2>4. op \in ToSet(outbox'[x]) \/ \E s \in ToSet(sent) : SameId(s, op)
    BY <2>1, <2>2, <2>3
  <2>5. \A s \in ToSet(sent) : SameId(s, op) => s = op
    BY <2>2 DEF SentMatches
  <2> QED
    BY <2>1, <2>2, <2>4, <2>5
<1> QED
  BY <1>2, <1>3, <1>4, <1>5, <1>6, <1>7 DEF Moved

(* A new change is the one its device records.                             *)
LEMMA NewChange ==
  ASSUME Types, [Next]_vars, NEW op \in made' \ made
  PROVE  /\ op.dev \in Devices /\ op \in ToSet(outbox'[op.dev]) /\ op.id = next[op.dev]
         /\ UNCHANGED calls
<1>1. PICK d \in Devices : Record(d)
  BY StepMakes
<1>2. op = Change(d) /\ outbox' = [outbox EXCEPT ![d] = Queued(outbox[d], op)] /\ op \in Changes
  BY <1>1, RecordFacts
<1>3. outbox[d] \in Seq(Changes) /\ Len(outbox[d]) <= OutboxLimit
  BY SeqGrows DEF Types, StoreTyped, MadeTyped
<1>4. op \in ToSet(Queued(outbox[d], op))
  BY <1>2, <1>3, QueuedFacts
<1>5. outbox'[d] = Queued(outbox[d], op)
  BY <1>2 DEF Types, StoreTyped
<1>6. op.dev = d /\ op.id = next[d]
  BY <1>2 DEF Change
<1> QED
  BY <1>1, <1>4, <1>5, <1>6 DEF Record

LEMMA NothingForgottenStep ==
  ASSUME Inv, Types', Grows, Moves, [Next]_vars
  PROVE  NothingForgotten'
<1> SUFFICES ASSUME NEW op \in made'
             PROVE  op \in ToSet(outbox'[op.dev]) \/ op \in ToSet(log'[op.of]) \/ op \in given'
  BY DEF NothingForgotten
<1>1. Types /\ SentMatches /\ AnswersTrue /\ NothingForgotten
  BY DEF Inv
<1>2. CASE op \notin made
  BY <1>1, <1>2, NewChange
<1>3. ASSUME op \in made, Settled(op, given, log)
      PROVE  op \in ToSet(log'[op.of]) \/ op \in given'
  BY <1>1, <1>3, SettledStays DEF Settled
<1>4. CASE op \in made /\ op \in ToSet(outbox[op.dev])
  <2>1. op.dev \in Devices
    BY <1>1, <1>4 DEF Types, MadeTyped, Changes
  <2>2. ASSUME NEW k \in Kinds, Good(calls[op.dev][k]), op \in ToSet(calls[op.dev][k].sent)
        PROVE  op \in ToSet(log[op.of])
    BY <1>1, <2>1, <2>2 DEF AnswersTrue, Truthful
  <2>3. Moved(op.dev)
    BY <2>1 DEF Moves
  <2> QED
    BY <1>1, <1>3, <1>4, <2>1, <2>2, <2>3, Leaves DEF Settled
<1> QED
  BY <1>1, <1>2, <1>3, <1>4 DEF NothingForgotten, Settled

(* A batch leaves out only what is settled.                                *)
LEMMA OutboxComplete ==
  ASSUME Inv, Types', Grows, NEW d \in Devices, StartSync(d)
  PROVE  Complete(outbox'[d], made', given', log')
<1>1. Types /\ NothingForgotten /\ QueuesInOrder
  BY DEF Inv
<1>2. /\ ToSet(outbox'[d]) \subseteq ToSet(outbox[d]) /\ made' = made
      /\ ToSet(outbox[d]) \subseteq ToSet(outbox'[d]) \union given'
  BY <1>1, StartSyncQueue
<1>3. ASSUME NEW y \in ToSet(outbox'[d]), NEW x \in made, Older(x, y)
      PROVE  x \in ToSet(outbox'[d]) \/ Settled(x, given', log')
  <2>1. x.dev = d
    BY <1>1, <1>2, <1>3 DEF QueuesInOrder, Batch, Older
  <2>2. x \in ToSet(outbox[d]) \/ Settled(x, given, log)
    BY <1>1, <2>1 DEF NothingForgotten, Settled
  <2> QED
    BY <1>1, <1>2, <2>2, SettledStays DEF Settled
<1> QED
  BY <1>2, <1>3 DEF Complete

LEMMA SendsCompleteStep ==
  ASSUME Inv, Types', Grows, Moves
  PROVE  SendsComplete'
<1>1. Types /\ SendsComplete /\ QueuesInOrder
  BY DEF Inv
<1>2. \A ops : ToSet(ops) \subseteq made /\ Complete(ops, made, given, log)
               => Complete(ops, made', given', log')
  BY <1>1, CompleteStays
<1>3. \A x \in Devices : \A k \in Kinds : ToSet(calls[x][k].sent) \subseteq made
  <2>1. \A x \in Devices : \A k \in Kinds : calls[x][k].sent \in Seq(made)
    BY <1>1 DEF Types, CallsTyped, CallSet
  <2> QED
    BY <2>1, ElementsIn
<1>4. ASSUME NEW x \in Devices, NEW k \in Kinds
      PROVE  Complete(calls'[x][k].sent, made', given', log')
  <2>1. SentFrom(x)
    BY DEF Moves
  <2>2. CASE calls'[x][k].sent = calls[x][k].sent
    BY <1>1, <1>2, <1>3, <2>2 DEF SendsComplete
  <2>3. CASE calls'[x][k].sent = <<>>
    BY <2>3, EmptyBatch DEF Complete
  <2>4. CASE StartSync(x) /\ calls'[x][k].sent = outbox'[x]
    BY <2>4, OutboxComplete
  <2> QED
    BY <2>1, <2>2, <2>3, <2>4 DEF SentFrom
<1>5. ASSUME NEW c \in late'
      PROVE  Complete(c.sent, made', given', log') /\ InOrder(c.sent)
  <2>1. "sync" \in Kinds
    BY DEF Kinds
  <2>2. CASE c \in late
    <3>1. ToSet(c.sent) \subseteq made
      BY <1>1, <2>2, LateBatch, ElementsIn
    <3> QED
      BY <1>1, <1>2, <2>2, <3>1 DEF SendsComplete
  <2>3. CASE \E x \in Devices : c.sent = calls[x]["sync"].sent
    BY <1>1, <1>2, <1>3, <2>1, <2>3 DEF SendsComplete, QueuesInOrder, Batch
  <2> QED
    BY <2>2, <2>3 DEF Moves, LateFrom
<1> QED
  BY <1>4, <1>5 DEF SendsComplete

-----------------------------------------------------------------------------
(* The answers.                                                            *)
LEMMA FirstStays ==
  ASSUME Types, Grows, NEW p \in DOMAIN log, NEW n \in 0..Len(log[p])
  PROVE  First(log[p], n) \subseteq First(log'[p], n)
<1>1. log[p] \in Seq(made)
  BY ElementOf DEF Types, ServerTyped
<1>2. DOMAIN log[p] = 1..Len(log[p]) /\ Len(log[p]) \in Nat
  BY <1>1
<1>3. \A i \in 1..n : log'[p][i] = log[p][i]
  BY <1>2 DEF Grows
<1> QED
  BY <1>3 DEF First

LEMMA OldAnswer ==
  ASSUME Inv, Types', Grows, Moves, [Next]_vars, NEW d \in Devices, NEW k \in Kinds,
         Good(calls[d][k]), calls'[d][k] = calls[d][k]
  PROVE  Truthful(d, k, calls[d][k], made' \ given', outbox'[d], log')
<1>1. Types /\ SentMatches /\ AnswersTrue /\ QueuesInOrder
  BY DEF Inv
<1>2. PICK c : c = calls[d][k]
  OBVIOUS
<1>3. Truthful(d, k, c, made \ given, outbox[d], log) /\ Good(c)
  BY <1>1, <1>2 DEF AnswersTrue
<1>4. PICK p : p = c.reply.cache.of
  OBVIOUS
<1>5. PICK n : n = c.reply.cache.changes
  OBVIOUS
<1>6. p \in DOMAIN log /\ n \in 0..Len(log[p])
  BY <1>3, <1>4, <1>5 DEF Truthful
<1>7. p \in DOMAIN log' /\ n \in 0..Len(log'[p])
  <2>1. log[p] \in Seq(made) /\ Len(log[p]) \in Nat /\ Len(log[p]) <= Len(log'[p])
    BY <1>1, <1>6, ElementOf DEF Types, ServerTyped, Grows
  <2>2. p \in DOMAIN log'
    BY <1>6 DEF Grows
  <2>3. log'[p] \in Seq(made')
    BY <2>2, ElementOf DEF Types, ServerTyped
  <2>4. Len(log'[p]) \in Nat
    BY <2>3
  <2> QED
    BY <1>6, <2>1, <2>2, <2>4
<1>8. ASSUME NEW s \in ToSet(c.sent)
      PROVE  s.of = p /\ s \in ToSet(log'[s.of])
  BY <1>1, <1>3, <1>4, <1>6, TakenStay DEF Truthful
<1>9. ASSUME k = "sync", NEW op \in made' \ given', op.dev = d, op.of = p
      PROVE  \/ op \in ToSet(outbox'[d]) /\ \A s \in ToSet(c.sent) : ~SameId(s, op)
             \/ op \in First(log'[op.of], n)
  <2>1. CASE op \notin made
    <3>1. op \in ToSet(outbox'[d]) /\ op.id = next[d]
      BY <1>1, <1>9, <2>1, NewChange
    <3>2. \A s \in ToSet(c.sent) : s.id < next[d] /\ next[d] \in Int
      BY <1>1, <1>2, Sizes DEF QueuesInOrder, Batch, Types, StoreTyped
    <3> QED
      BY <3>1, <3>2 DEF SameId
  <2>2. CASE op \in made
    <3>1. op \in made \ given
      BY <1>9, <2>2 DEF Grows
    <3>2. CASE op \in First(log[op.of], n)
      BY <1>1, <1>6, <1>9, <3>2, FirstStays
    <3>3. CASE op \in ToSet(outbox[d]) /\ \A s \in ToSet(c.sent) : ~SameId(s, op)
      <4>1. ASSUME NEW j \in Kinds, calls'[d][j] = Idle, op \in ToSet(calls[d][j].sent)
            PROVE  FALSE
        <5>1. j # "sync"
          BY <1>2, <1>3, <1>9, <4>1 DEF Good, Idle
        <5> QED
          BY <1>1, <4>1, <5>1, EmptyBatch DEF QueuesInOrder
      <4>2. Moved(d)
        BY DEF Moves
      <4> QED
        BY <1>1, <1>9, <3>3, <4>1, <4>2, Leaves
    <3> QED
      BY <1>3, <1>4, <1>5, <1>9, <3>1, <3>2, <3>3 DEF Truthful, Shows
  <2> QED
    BY <2>1, <2>2
<1>10. k = "sync" => Shows(d, c, made' \ given', outbox'[d], log')
  BY <1>4, <1>5, <1>9 DEF Shows
<1>11. Truthful(d, k, c, made' \ given', outbox'[d], log')
  BY <1>4, <1>5, <1>7, <1>8, <1>10 DEF Truthful
<1> QED
  BY <1>2, <1>11

LEMMA NewAnswer ==
  ASSUME Inv, Types', Grows, NEW d \in Devices, NEW k \in Kinds, Serve(d, k),
         Good(calls'[d][k])
  PROVE  Truthful(d, k, calls'[d][k], made' \ given', outbox'[d], log')
<1>1. Types /\ SentMatches /\ NothingForgotten /\ LogSound
  BY DEF Inv
<1>2. PICK c : c = calls[d][k]
  OBVIOUS
<1>3. PICK p : p = sessions[c.grant].profile
  OBVIOUS
<1> DEFINE answer == [phase |-> "answered", sent |-> c.sent, grant |-> c.grant,
                      reply |-> [status |-> Status(c.grant, c.sent),
                                 cache |-> [of |-> p, changes |-> Len(log'[p])]]]
<1>4. /\ c.grant \in 1..Len(sessions) /\ c.sent \in Seq(made) /\ Accept(c.grant, c.sent)
      /\ SetCall(d, k, answer) /\ UNCHANGED <<store, made, given>>
  BY <1>1, <1>2, <1>3, ServeFacts
<1>5. calls'[d][k] = answer
  BY <1>1, <1>4, OneCall
<1>6. Status(c.grant, c.sent) = "active"
  BY <1>5 DEF Good
<1>7. /\ p \in 1..Len(log) /\ log[p] \in Seq(made)
      /\ ToSet(log[p]) \subseteq ToSet(log'[p])
      /\ \A op \in ToSet(c.sent) : op.of = p /\ op \in ToSet(log'[p])
  <2>1. PICK new : new = NewOps(p, c.sent)
    OBVIOUS
  <2>2. /\ p \in 1..Len(log) /\ log[p] \in Seq(made)
        /\ ToSet(log'[p]) = ToSet(log[p]) \union ToSet(new)
        /\ \A op \in ToSet(c.sent) : op.of = p /\ op \in ToSet(log'[p])
    BY <1>1, <1>3, <1>4, <1>6, <2>1, AcceptActive
  <2> QED
    BY <2>2
<1>8. p \in DOMAIN log' /\ log'[p] \in Seq(made')
  <2>1. p \in DOMAIN log'
    BY <1>1, <1>7 DEF Types, ServerTyped, Grows
  <2> QED
    BY <2>1, ElementOf DEF Types, ServerTyped
<1>9. PICK n \in Nat : n = Len(log'[p])
  BY <1>8
<1>10. First(log'[p], n) = ToSet(log'[p])
  <2>1. DOMAIN log'[p] = 1..n
    BY <1>8, <1>9
  <2> QED
    BY <2>1 DEF First, ToSet
<1>11. /\ calls'[d][k].sent = c.sent /\ calls'[d][k].reply.cache.of = p
       /\ calls'[d][k].reply.cache.changes = n
  BY <1>5, <1>9
<1> HIDE DEF answer
<1>12. ASSUME NEW op \in made' \ given', op.dev = d, op.of = p
       PROVE  \/ op \in ToSet(outbox'[d]) /\ \A s \in ToSet(c.sent) : ~SameId(s, op)
              \/ op \in First(log'[op.of], n)
  <2>1. op \in made /\ op \notin given /\ outbox'[d] = outbox[d]
    BY <1>4 DEF store
  <2>2. op \in ToSet(outbox[d]) \/ op \in ToSet(log[p])
    BY <1>1, <1>12, <2>1 DEF NothingForgotten
  <2>3. ASSUME op \in ToSet(outbox[d]), NEW s \in ToSet(c.sent), SameId(s, op)
        PROVE  op \in ToSet(log'[p])
    BY <1>1, <1>2, <1>7, <2>3 DEF SentMatches
  <2> QED
    BY <1>7, <1>10, <1>12, <2>1, <2>2, <2>3
<1>13. Shows(d, calls'[d][k], made' \ given', outbox'[d], log')
  BY <1>11, <1>12 DEF Shows
<1> QED
  BY <1>7, <1>8, <1>9, <1>11, <1>13 DEF Truthful

LEMMA AnswersTrueStep ==
  ASSUME Inv, Types', Grows, Moves, [Next]_vars
  PROVE  AnswersTrue'
<1> SUFFICES ASSUME NEW d \in Devices, NEW k \in Kinds, Good(calls'[d][k])
             PROVE  Truthful(d, k, calls'[d][k], made' \ given', outbox'[d], log')
  BY DEF AnswersTrue
<1>1. calls'[d][k] = calls[d][k] \/ Serve(d, k)
  BY DEF Moves, AnsweredFrom, Good
<1> QED
  BY <1>1, OldAnswer, NewAnswer

LEMMA InvStep == Inv /\ [Next]_vars => Inv'
<1> SUFFICES ASSUME Inv, [Next]_vars PROVE Inv'
  OBVIOUS
<1>1. Types /\ QueuesInOrder /\ SentMatches
  BY DEF Inv
<1>2. Types' /\ Grows /\ Moves
  BY <1>1, TypesStep, Growth, StepMoves
<1> QED
  BY <1>1, <1>2, QueuesStep, SentMatchesStep, SendsCompleteStep, LogSoundStep, AnswersTrueStep,
     NothingForgottenStep DEF Inv

-----------------------------------------------------------------------------
(* LearnerSync implements LearnerLog.                                      *)
Logs(l) == [p \in Profiles |-> IF p \in DOMAIN l THEN l[p] ELSE <<>>]

LEMMA LogInit == Init => Log!LogInit
<1> SUFFICES ASSUME Init PROVE Log!LogInit
  OBVIOUS
<1>1. made = {} /\ given = {} /\ log = <<<<>>>>
  BY DEF Init
<1>2. \A p \in DOMAIN log : log[p] = <<>>
  BY <1>1
<1>3. Logs(log) = [p \in Profiles |-> <<>>]
  BY <1>2 DEF Logs
<1> QED
  BY <1>1, <1>3 DEF Log!LogInit, Logs

(* A batch is no longer than the changes there are.                        *)
LEMMA BatchLength ==
  ASSUME NEW M, M \subseteq Changes, IsFiniteSet(M), NEW t \in Seq(M), InOrder(t)
  PROVE  t \in SeqOf(M, Cardinality(M))
<1>1. Len(t) \in Nat /\ t \in [1..Len(t) -> M]
  OBVIOUS
<1>2. ASSUME NEW i \in 1..Len(t), NEW j \in 1..Len(t), t[i] = t[j]
      PROVE  i = j
  <2>1. t[i].data \in Int
    BY <1>1 DEF Changes
  <2>2. i \in DOMAIN t /\ j \in DOMAIN t
    BY <1>1
  <2>3. ~(i < j) /\ ~(j < i)
    BY <1>2, <2>1, <2>2 DEF InOrder
  <2> QED
    BY <1>1, <2>3
<1>3. t \in Injection(1..Len(t), M)
  BY <1>1, <1>2 DEF Injection, IsInjective
<1>4. Cardinality(1..Len(t)) <= Cardinality(M)
  BY <1>3, FS_Injection
<1>5. Cardinality(1..Len(t)) = Len(t)
  BY <1>1, FS_Interval
<1>6. Cardinality(M) \in Nat
  BY FS_CardinalityType
<1>7. Len(t) \in 0..Cardinality(M)
  BY <1>1, <1>4, <1>5, <1>6
<1> QED
  BY <1>1, <1>7 DEF SeqOf

LEMMA InTurnIsOrdered ==
  ASSUME NEW l \in Seq(Changes), InTurn(l, given)
  PROVE  Log!Ordered(l)
<1>1. \A i \in DOMAIN l : l[i].data \in Int
  <2>1. \A i \in DOMAIN l : l[i] \in Changes
    BY ElementOf
  <2> QED
    BY <2>1 DEF Changes
<1>2. \A j \in DOMAIN l : \A i \in 1..j - 1 : i \in DOMAIN l
  OBVIOUS
<1>3. ASSUME NEW j \in DOMAIN l, NEW i \in 1..j - 1
      PROVE  /\ l[i] # l[j]
             /\ Log!Competing(l[i], l[j]) /\ l[i].data > l[j].data => l[j] \in given
  <2>1. l[i].data > l[j].data => l[j].data < l[i].data
    BY <1>1, <1>2
  <2> QED
    BY <2>1 DEF InTurn, Older, Log!Competing
<1> QED
  BY <1>3 DEF Log!Ordered

LEMMA QuietLog ==
  ASSUME Types, Types', log' = log \/ log' = Append(log, <<>>)
  PROVE  Logs(log') = Logs(log)
<1>1. PICK none : none = <<>>
  OBVIOUS
<1>2. log \in Seq(Seq(made)) /\ (log' = log \/ log' = Append(log, none))
  BY <1>1 DEF Types, ServerTyped
<1>3. ASSUME NEW p \in Profiles
      PROVE  (IF p \in DOMAIN log' THEN log'[p] ELSE none)
               = (IF p \in DOMAIN log THEN log[p] ELSE none)
  <2>1. CASE log' = log
    BY <2>1
  <2>2. CASE log' = Append(log, none)
    <3>1. \A q \in DOMAIN log : q \in DOMAIN Append(log, none) /\ Append(log, none)[q] = log[q]
      BY <1>2
    <3>2. \A q \in DOMAIN Append(log, none) \ DOMAIN log : Append(log, none)[q] = none
      BY <1>2
    <3> QED
      BY <2>2, <3>1, <3>2
  <2> QED
    BY <1>2, <2>1, <2>2
<1> QED
  BY <1>1, <1>3 DEF Logs

LEMMA GiveMaps ==
  ASSUME Types', made' = made, given \subseteq given', Logs(log') = Logs(log)
  PROVE  Log!Give
BY DEF Types, MadeTyped, Log!Give, Logs

LEMMA AcceptMaps ==
  ASSUME Inv, Inv', NEW g \in 1..Len(sessions), NEW ops \in Seq(made), Accept(g, ops),
         InOrder(ops), UNCHANGED <<made, given>>
  PROVE  Log!LogNext
<1>1. Types /\ Types' /\ LogSound /\ LogSound'
  BY DEF Inv
<1>2. CASE log' = log
  BY <1>1, <1>2, GiveMaps DEF Log!LogNext
<1>3. CASE Status(g, ops) = "active"
  <2>1. PICK p : p = sessions[g].profile
    OBVIOUS
  <2>2. PICK new : new = NewOps(p, ops)
    OBVIOUS
  <2>3. /\ p \in 1..Len(log) /\ new \in Seq(made) /\ log[p] \in Seq(made)
        /\ log' = [log EXCEPT ![p] = log[p] \o new] /\ log'[p] = log[p] \o new
        /\ \A op \in ToSet(ops) : op.of = p
        /\ \A op \in ToSet(new) : op \in ToSet(ops)
        /\ InOrder(new)
    BY <1>1, <1>3, <2>1, <2>2, AcceptActive
  <2>4. /\ made \subseteq Changes /\ IsFiniteSet(made) /\ log \in Seq(Seq(made))
        /\ Len(log) \in 1..MaxProfiles
    BY <1>1 DEF Types, MadeTyped, ServerTyped
  <2>5. p \in Profiles /\ p \in DOMAIN log /\ DOMAIN log' = DOMAIN log
    BY <2>3, <2>4, SyncAssumption DEF Profiles
  <2>6. new \in SeqOf(made, Cardinality(made))
    BY <2>3, <2>4, BatchLength
  <2>7. \A i \in DOMAIN new : new[i].of = p
    BY <2>3 DEF ToSet
  <2>8. Log!Ordered(log[p] \o new)
    <3>1. PICK l : l = log[p] \o new
      OBVIOUS
    <3>2. l \in Seq(Changes)
      BY <2>3, <2>4, <3>1, SeqGrows
    <3>3. TakenWell(log'[p], p, made', given')
      BY <1>1, <2>5 DEF LogSound
    <3>4. InTurn(l, given)
      BY <2>3, <3>1, <3>3 DEF TakenWell
    <3> QED
      BY <3>1, <3>2, <3>4, InTurnIsOrdered
  <2>9. Logs(log)[p] = log[p]
    BY <2>5 DEF Logs
  <2>10. Logs(log') = [Logs(log) EXCEPT ![p] = log[p] \o new]
    <3>1. PICK l : l = log[p] \o new
      OBVIOUS
    <3>2. log' = [log EXCEPT ![p] = l]
      BY <2>3, <3>1
    <3>3. Logs(log') = [Logs(log) EXCEPT ![p] = l]
      BY <2>5, <3>2 DEF Logs
    <3> QED
      BY <3>1, <3>3
  <2>11. \E batch \in SeqOf(made, Cardinality(made)) :
           /\ \A i \in DOMAIN batch : batch[i].of = p
           /\ Log!Ordered(Logs(log)[p] \o batch)
           /\ Logs(log') = [Logs(log) EXCEPT ![p] = Logs(log)[p] \o batch]
           /\ UNCHANGED <<made, given>>
    BY <2>6, <2>7, <2>8, <2>9, <2>10
  <2>12. Log!SeqOf(made, Log!Cardinality(made)) = SeqOf(made, Cardinality(made))
    <3>1. Log!Cardinality(made) = Cardinality(made)
      BY DEF Log!Cardinality, Cardinality
    <3> QED
      BY <3>1 DEF Log!SeqOf, SeqOf
  <2>13. Log!Take(p)
    BY <2>11, <2>12 DEF Log!Take, Logs
  <2> QED
    BY <2>5, <2>13 DEF Log!LogNext
<1> QED
  BY <1>1, <1>2, <1>3, AcceptFacts

LEMMA StepMaps == Inv /\ Inv' /\ [Next]_vars => [Log!LogNext]_(Log!logVars)
<1> SUFFICES ASSUME Inv, Inv', [Next]_vars PROVE Log!LogNext
  BY DEF Log!logVars
<1>1. Types /\ Types' /\ Grows /\ QueuesInOrder /\ SendsComplete
  BY Growth DEF Inv
<1>2. CASE \E d \in Devices : \E k \in Kinds : Serve(d, k)
  <2>1. PICK d \in Devices, k \in Kinds : Serve(d, k)
    BY <1>2
  <2>2. PICK c : c = calls[d][k]
    OBVIOUS
  <2>3. /\ c.grant \in 1..Len(sessions) /\ c.sent \in Seq(made) /\ Accept(c.grant, c.sent)
        /\ UNCHANGED <<made, given>>
    BY <1>1, <2>1, <2>2, ServeFacts
  <2>4. InOrder(c.sent)
    BY <1>1, <2>2 DEF QueuesInOrder, Batch
  <2> QED
    BY <2>3, <2>4, AcceptMaps
<1>3. CASE ServeLate
  <2>1. PICK c \in late : Accept(c.grant, c.sent) /\ UNCHANGED <<made, given>>
    BY <1>3 DEF ServeLate
  <2>2. c.grant \in 1..Len(sessions) /\ c.sent \in Seq(made) /\ InOrder(c.sent)
    BY <1>1, LateBatch DEF SendsComplete
  <2> QED
    BY <2>1, <2>2, AcceptMaps
<1>4. CASE log' = log \/ log' = Append(log, <<>>)
  <2>1. Logs(log') = Logs(log)
    BY <1>1, <1>4, QuietLog
  <2>2. CASE made' = made
    BY <1>1, <2>1, <2>2, GiveMaps DEF Grows, Log!LogNext
  <2>3. CASE \E d \in Devices : Record(d)
    <3>1. PICK d \in Devices : Record(d)
      BY <2>3
    <3>2. Change(d) \in Changes \ made /\ made' = made \union {Change(d)}
      BY <1>1, <3>1, RecordFacts
    <3>3. given \subseteq given' /\ given' \subseteq made'
      BY <1>1 DEF Grows, Types, MadeTyped
    <3>4. Log!Make
      BY <2>1, <3>2, <3>3 DEF Log!Make, Logs
    <3> QED
      BY <3>4 DEF Log!LogNext
  <2> QED
    BY <2>2, <2>3, StepMakes
<1> QED
  BY <1>2, <1>3, <1>4, StepTakes DEF Takes

-----------------------------------------------------------------------------
(* A reconciliation shows what its answer promised.                        *)
LEMMA FirstIsPrefix ==
  ASSUME NEW M, NEW l \in Seq(M), NEW n \in 0..Len(l)
  PROVE  First(l, n) \subseteq ToSet(SubSeq(l, 1, n))
<1> DEFINE first == SubSeq(l, 1, n)
<1>1. DOMAIN first = 1..n /\ \A i \in 1..n : first[i] = l[i]
  OBVIOUS
<1> HIDE DEF first
<1>2. First(l, n) \subseteq ToSet(first)
  BY <1>1 DEF First, ToSet
<1> QED
  BY <1>2 DEF first

LEMMA AnswerShows ==
  ASSUME Inv, NEW d \in Devices, Answer(d, "sync"), calls[d]["sync"].reply.status = "active",
         NEW op \in made \ given, op.dev = d, op.of = cache'[d].of, op \notin ToSet(outbox'[d])
  PROVE  op \in ToSet(SubSeq(log[op.of], 1, cache'[d].changes))
<1>1. Types /\ AnswersTrue /\ "sync" \in Kinds
  BY DEF Inv, Kinds
<1>2. PICK c : c = calls[d]["sync"]
  OBVIOUS
<1>3. /\ Good(c) /\ outbox' = [outbox EXCEPT ![d] = Unsent(outbox[d], c.sent)]
      /\ cache' = [cache EXCEPT ![d] = c.reply.cache]
  BY <1>2 DEF Answer, Good
<1>4. outbox'[d] = Unsent(outbox[d], c.sent) /\ cache'[d] = c.reply.cache
  BY <1>1, <1>3 DEF Types, StoreTyped
<1>5. Truthful(d, "sync", c, made \ given, outbox[d], log)
  BY <1>1, <1>2, <1>3 DEF AnswersTrue
<1>6. PICK sent : sent = c.sent
  OBVIOUS
<1>7. outbox[d] \in Seq(made) /\ Len(outbox[d]) <= OutboxLimit
  BY <1>1 DEF Types, StoreTyped
<1>8. ToSet(Unsent(outbox[d], sent))
        = {o \in ToSet(outbox[d]) : \A s \in ToSet(sent) : ~SameId(s, o)}
  BY <1>7, UnsentFacts
<1>9. op \in First(log[op.of], c.reply.cache.changes)
  BY <1>4, <1>5, <1>6, <1>8 DEF Truthful, Shows
<1>10. /\ op.of \in DOMAIN log /\ c.reply.cache.changes \in 0..Len(log[op.of])
       /\ log[op.of] \in Seq(made)
  BY <1>1, <1>4, <1>5, ElementOf DEF Truthful, Types, ServerTyped
<1> QED
  BY <1>4, <1>9, <1>10, FirstIsPrefix

-----------------------------------------------------------------------------
(* Every variable keeps its type, whatever is lost, repeated or reloaded.  *)
THEOREM LearnerTypes == Spec => []TypeOK
<1>1. Inv => TypeOK
  BY TypesGiveTypeOK DEF Inv
<1> QED
  BY <1>1, InvInit, InvStep, PTL DEF Spec

(* A change the learner made waits in its outbox, took effect in its       *)
(* profile, or was given up by a rule.                                     *)
THEOREM ChangesAreKept == Spec => []NothingForgotten
<1>1. Inv => NothingForgotten
  BY DEF Inv
<1> QED
  BY <1>1, InvInit, InvStep, PTL DEF Spec

(* The state a turn of the reconciliation chain brings shows every change  *)
(* of its device to that profile which is no longer in the outbox.         *)
THEOREM TurnShowsChanges == Spec => ReconcileShows
<1> DEFINE Shown ==
      \A d \in Devices :
        Answer(d, "sync") /\ calls[d]["sync"].reply.status = "active" =>
          \A op \in made \ given :
            op.dev = d /\ op.of = cache'[d].of /\ op \notin ToSet(outbox'[d]) =>
              op \in ToSet(SubSeq(log[op.of], 1, cache'[d].changes))
<1>1. Inv => Shown
  BY AnswerShows
<1>2. ReconcileShows <=> [][Shown]_vars
  BY DEF ReconcileShows
<1> HIDE DEF Shown
<1> QED
  BY <1>1, <1>2, InvInit, InvStep, PTL DEF Spec

(* Each change takes effect at most once, in its profile, and those of a   *)
(* device to one delivery in the learner's order, although batches are     *)
(* repeated, overtaken and arrive after their caller gave them up.         *)
THEOREM LearnerSyncImplementsLearnerLog == Spec => ImplementsLearnerLog
BY InvInit, InvStep, LogInit, StepMaps, PTL DEF Spec, ImplementsLearnerLog, Log!LogSpec
==============================================================================
