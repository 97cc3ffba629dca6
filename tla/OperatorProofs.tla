----------------------------- MODULE OperatorProofs ----------------------------
(***************************************************************************)
(* Lemmas about the operators that several modules are built from: the     *)
(* least element of a set of numbers, the parts of a sequence, and the     *)
(* acknowledgment windows, for every window length; and theorems that the  *)
(* bits and pages of src/window.rs stand for these windows, for every      *)
(* length of a window and of a page.                                       *)
(***************************************************************************)
EXTENDS BitWindow, Subsequences, SequencesExt, FiniteSetTheorems,
        WellFoundedInduction, TLAPS

-----------------------------------------------------------------------------
(* The least element of a set of natural numbers *)

\* A relation that contains < and is well founded has a minimal element in
\* every set of naturals, and that element is the least one.
LEMMA LeastOfWellFounded ==
    ASSUME NEW S, S \subseteq Nat, S # {},
           NEW R, IsWellFoundedOn(R, Nat),
           \A x, y \in Nat : y < x => <<y, x>> \in R
    PROVE  \E x \in S : \A y \in S : x <= y
<1>1. PICK x \in S : \A y \in S : ~ (<<y, x>> \in R)
  BY WFMin
<1>2. ASSUME NEW y \in S PROVE x <= y
  <2>1. x \in Nat /\ y \in Nat
    OBVIOUS
  <2>2. ~ (y < x)
    BY <1>1, <2>1
  <2> QED
    BY <2>1, <2>2
<1> QED
  BY <1>2

\* Every set of naturals that is not empty has a least element.
LEMMA NatLeast ==
    ASSUME NEW S, S \subseteq Nat, S # {}
    PROVE  \E x \in S : \A y \in S : x <= y
<1>1. \A x, y \in Nat : y < x => <<y, x>> \in OpToRel(<, Nat)
  BY DEF OpToRel
<1>2. \E R : /\ IsWellFoundedOn(R, Nat)
             /\ \A x, y \in Nat : y < x => <<y, x>> \in R
  BY <1>1, NatLessThanWellFounded
<1> QED
  BY <1>2, LeastOfWellFounded

\* The operator Min gives that element.
LEMMA MinIsLeast ==
    ASSUME NEW S, S \subseteq Nat, S # {}
    PROVE  Min(S) \in S /\ \A y \in S : Min(S) <= y
BY NatLeast DEF Min

-----------------------------------------------------------------------------
(* Functions defined by recursion on a number *)

\* A function on 0 .. n that begins at base and whose every value comes from
\* the one before.
Iterates(f, base, step, n) ==
    /\ f[0] = base
    /\ \A i \in 1 .. n : f[i] = step[<<i, f[i - 1]>>]

\* There is one, and it stays where the steps do: the shortest part without
\* would have one.
LEMMA RecursionExists ==
    ASSUME NEW C, NEW n \in Nat, NEW base \in C,
           NEW step \in [(1 .. n) \X C -> C]
    PROVE  \A k \in 0 .. n : \E f \in [0 .. k -> C] : Iterates(f, base, step, k)
<1> DEFINE Has(k) == \E f \in [0 .. k -> C] : Iterates(f, base, step, k)
           Bad == {k \in 0 .. n : ~ Has(k)}
<1> SUFFICES ASSUME Bad # {} PROVE FALSE
  OBVIOUS
<1>1. PICK k \in Bad : \A y \in Bad : k <= y
  <2>1. Bad \subseteq Nat
    OBVIOUS
  <2> HIDE DEF Bad
  <2> QED
    BY <2>1, NatLeast
<1>2. k \in 0 .. n /\ ~ Has(k)
  OBVIOUS
<1>3. k # 0
  <2> DEFINE f == [i \in 0 .. 0 |-> base]
  <2>1. f \in [0 .. 0 -> C] /\ Iterates(f, base, step, 0)
    BY DEF Iterates
  <2>2. Has(0)
    BY <2>1
  <2> QED
    BY <1>2, <2>2
<1>4. k - 1 \in 0 .. n /\ k \in 1 .. n /\ k - 1 \in 0 .. (k - 1)
  BY <1>2, <1>3
<1>5. Has(k - 1)
  <2>1. ~ (k <= k - 1)
    BY <1>4
  <2>2. k - 1 \notin Bad
    <3> HIDE DEF Bad
    <3> QED
      BY <1>1, <2>1
  <2> QED
    BY <1>4, <2>2
<1>6. PICK f \in [0 .. (k - 1) -> C] : Iterates(f, base, step, k - 1)
  BY <1>5
<1> DEFINE last == step[<<k, f[k - 1]>>]
           g == [i \in 0 .. k |-> IF i = k THEN last ELSE f[i]]
<1>7. last \in C
  BY <1>4, <1>6
<1> HIDE DEF last
<1>8. \A i \in 0 .. k : i # k => i \in 0 .. (k - 1)
  BY <1>4
<1>9. g \in [0 .. k -> C]
  BY <1>6, <1>7, <1>8
<1>10. g[0] = base
  BY <1>3, <1>4, <1>6 DEF Iterates
<1>11. ASSUME NEW i \in 1 .. k PROVE g[i] = step[<<i, g[i - 1]>>]
  <2>1. i - 1 \in 0 .. k /\ i - 1 # k /\ i \in 0 .. k /\ g[i - 1] = f[i - 1]
    BY <1>4
  <2>2. CASE i = k
    BY <2>1, <2>2 DEF last
  <2>3. CASE i # k
    <3>1. i \in 1 .. (k - 1)
      BY <1>4, <2>3
    <3> QED
      BY <1>6, <2>1, <2>3, <3>1 DEF Iterates
  <2> QED
    BY <2>2, <2>3
<1> HIDE DEF g
<1>12. Has(k)
  BY <1>9, <1>10, <1>11 DEF Iterates
<1> QED
  BY <1>2, <1>12

-----------------------------------------------------------------------------
(* Sequences and their parts *)

\* What Append does to a sequence, with the domains spelled out.
LEMMA AppendFacts ==
    ASSUME NEW S, NEW s \in Seq(S), NEW m \in S
    PROVE  /\ Append(s, m) \in Seq(S)
           /\ Len(s) \in Nat
           /\ DOMAIN s = 1 .. Len(s)
           /\ DOMAIN Append(s, m) = 1 .. (Len(s) + 1)
           /\ \A i \in 1 .. Len(s) : Append(s, m)[i] = s[i]
           /\ Append(s, m)[Len(s) + 1] = m
OBVIOUS

\* What Tail does to a sequence that is not empty.
LEMMA TailFacts ==
    ASSUME NEW S, NEW s \in Seq(S), s # <<>>
    PROVE  /\ Head(s) \in S /\ Tail(s) \in Seq(S)
           /\ Len(s) \in Nat /\ Len(s) > 0
           /\ DOMAIN s = 1 .. Len(s)
           /\ DOMAIN Tail(s) = 1 .. (Len(s) - 1)
           /\ Head(s) = s[1]
           /\ \A i \in 1 .. (Len(s) - 1) : Tail(s)[i] = s[i + 1]
OBVIOUS

\* Sequences of one length with the same elements are equal.
LEMMA SeqEqual ==
    ASSUME NEW S, NEW s \in Seq(S), NEW t \in Seq(S), Len(s) = Len(t),
           \A i \in 1 .. Len(s) : s[i] = t[i]
    PROVE  s = t
OBVIOUS

\* What \o makes of two sequences.
LEMMA ConcatFacts ==
    ASSUME NEW S, NEW t \in Seq(S), NEW u \in Seq(S)
    PROVE  /\ t \o u \in Seq(S) /\ Len(t \o u) = Len(t) + Len(u)
           /\ \A j \in 1 .. (Len(t) + Len(u)) :
                (t \o u)[j] = IF j <= Len(t) THEN t[j] ELSE u[j - Len(t)]
OBVIOUS

\* A sequence without one of its elements.
LEMMA RemoveAtFacts ==
    ASSUME NEW S, NEW s \in Seq(S), NEW i \in DOMAIN s
    PROVE  /\ RemoveAt(s, i) \in Seq(S) /\ Len(RemoveAt(s, i)) = Len(s) - 1
           /\ \A j \in 1 .. (i - 1) : RemoveAt(s, i)[j] = s[j]
           /\ \A j \in i .. (Len(s) - 1) : RemoveAt(s, i)[j] = s[j + 1]
<1> DEFINE t == SubSeq(s, 1, i - 1)
           u == SubSeq(s, i + 1, Len(s))
<1>1. Len(s) \in Nat /\ i \in 1 .. Len(s)
  OBVIOUS
<1>2. /\ t \in Seq(S) /\ Len(t) = i - 1
      /\ \A j \in 1 .. (i - 1) : t[j] = s[j]
  BY <1>1
<1>3. /\ u \in Seq(S) /\ Len(u) = Len(s) - i
      /\ \A j \in 1 .. (Len(s) - i) : u[j] = s[i + j]
  BY <1>1
<1>4. RemoveAt(s, i) = t \o u
  BY DEF RemoveAt
<1> HIDE DEF t, u
<1>5. /\ t \o u \in Seq(S) /\ Len(t \o u) = Len(s) - 1
      /\ \A j \in 1 .. (i - 1) : (t \o u)[j] = t[j]
      /\ \A j \in i .. (Len(s) - 1) : (t \o u)[j] = u[j - (i - 1)]
  <2>1. /\ t \o u \in Seq(S) /\ Len(t \o u) = Len(t) + Len(u)
        /\ \A j \in 1 .. (Len(t) + Len(u)) :
              (t \o u)[j] = IF j <= Len(t) THEN t[j] ELSE u[j - Len(t)]
    BY <1>2, <1>3, ConcatFacts
  <2>2. Len(t) = i - 1 /\ Len(t) + Len(u) = Len(s) - 1
    BY <1>1, <1>2, <1>3
  <2>3. ASSUME NEW j \in 1 .. (i - 1) PROVE (t \o u)[j] = t[j]
    <3>1. j \in 1 .. (Len(s) - 1) /\ j <= i - 1
      BY <1>1
    <3> QED
      BY <2>1, <2>2, <3>1
  <2>4. ASSUME NEW j \in i .. (Len(s) - 1) PROVE (t \o u)[j] = u[j - (i - 1)]
    <3>1. j \in 1 .. (Len(s) - 1) /\ ~ (j <= i - 1)
      BY <1>1
    <3> QED
      BY <2>1, <2>2, <3>1
  <2> QED
    BY <2>1, <2>2, <2>3, <2>4
<1>6. ASSUME NEW j \in i .. (Len(s) - 1) PROVE (t \o u)[j] = s[j + 1]
  <2>1. j - (i - 1) \in 1 .. (Len(s) - i) /\ i + (j - (i - 1)) = j + 1
    BY <1>1
  <2> QED
    BY <1>3, <1>5, <2>1
<1> QED
  BY <1>2, <1>4, <1>5, <1>6

\* And at those of a sequence with one element more.
LEMMA AppendPlaces ==
    ASSUME NEW S, NEW s \in Seq(S), NEW e \in S
    PROVE  /\ Append(s, e) \in Seq(S)
           /\ DOMAIN Append(s, e) = DOMAIN s \cup {Len(s) + 1}
           /\ \A i \in DOMAIN s : i < Len(s) + 1 /\ Append(s, e)[i] = s[i]
           /\ Append(s, e)[Len(s) + 1] = e
OBVIOUS

\* How many of the places are at or below one of them grows from place to
\* place.
LEMMA RankGrows ==
    ASSUME NEW n \in Nat, NEW is \in SUBSET (1 .. n)
    PROVE  /\ IsFiniteSet(is) /\ Cardinality(is) \in Nat
           /\ \A i \in is : Cardinality(is \cap 1 .. i) \in 1 .. Cardinality(is)
           /\ \A i, j \in is : i < j =>
                Cardinality(is \cap 1 .. i) < Cardinality(is \cap 1 .. j)
<1>1. IsFiniteSet(1 .. n)
  BY FS_Interval
<1>2. IsFiniteSet(is) /\ Cardinality(is) \in Nat
  BY <1>1, FS_Subset, FS_CardinalityType
<1>3. \A S \in SUBSET is : IsFiniteSet(S) /\ Cardinality(S) \in Nat
                              /\ Cardinality(S) <= Cardinality(is)
  BY <1>2, FS_Subset, FS_CardinalityType
<1>4. ASSUME NEW i \in is
      PROVE  Cardinality(is \cap 1 .. i) \in 1 .. Cardinality(is)
  <2>1. i \in is \cap 1 .. i
    OBVIOUS
  <2>2. Cardinality(is \cap 1 .. i) # 0
    BY <1>3, <2>1, FS_EmptySet
  <2> QED
    BY <1>2, <1>3, <2>2
<1>5. ASSUME NEW i \in is, NEW j \in is, i < j
      PROVE  Cardinality(is \cap 1 .. i) < Cardinality(is \cap 1 .. j)
  <2> DEFINE I == is \cap 1 .. i
             J == is \cap 1 .. j
  <2>1. I \in SUBSET J /\ I # J
    BY <1>5
  <2>2. IsFiniteSet(J) /\ Cardinality(I) \in Nat /\ Cardinality(J) \in Nat
    BY <1>3
  <2> HIDE DEF I, J
  <2>3. Cardinality(I) <= Cardinality(J) /\ Cardinality(I) # Cardinality(J)
    BY <2>1, <2>2, FS_Subset
  <2>4. Cardinality(I) < Cardinality(J)
    BY <2>2, <2>3
  <2> QED
    BY <2>4 DEF I, J
<1> QED
  BY <1>2, <1>4, <1>5

\* Place counts a set of places out, from the lowest.
CountsOut(is) ==
    /\ Cardinality(is) \in Nat
    /\ \A k \in 1 .. Cardinality(is) : Place(is, k) \in is
    /\ \A i \in is : \E k \in 1 .. Cardinality(is) : Place(is, k) = i
    /\ \A i \in is, k \in 1 .. Cardinality(is) :
         Place(is, k) = i <=> Cardinality(is \cap 1 .. i) = k
    /\ \A k, l \in 1 .. Cardinality(is) : k < l => Place(is, k) < Place(is, l)

LEMMA PlaceFacts ==
    ASSUME NEW n \in Nat, NEW is \in SUBSET (1 .. n)
    PROVE  CountsOut(is)
<1> DEFINE m == Cardinality(is)
           rank == [i \in is |-> Cardinality(is \cap 1 .. i)]
<1>1. IsFiniteSet(is) /\ m \in Nat
  BY RankGrows
<1>2. /\ \A i \in is : rank[i] \in 1 .. m
      /\ \A i, j \in is : i < j => rank[i] < rank[j]
  BY RankGrows
<1>3. rank \in [is -> 1 .. m]
  BY <1>2
<1>4. \A i, j \in is : rank[i] = rank[j] => i = j
  <2> SUFFICES ASSUME NEW i \in is, NEW j \in is, rank[i] = rank[j], i # j
               PROVE  FALSE
    OBVIOUS
  <2>1. i \in Int /\ j \in Int /\ rank[i] \in Int /\ rank[j] \in Int
    BY <1>2
  <2>2. i < j \/ j < i
    BY <2>1
  <2> HIDE DEF rank
  <2> QED
    BY <1>2, <2>1, <2>2
<1>5. rank \in Injection(is, 1 .. m)
  BY <1>3, <1>4 DEF Injection, IsInjective
<1>6. IsFiniteSet(1 .. m) /\ Cardinality(1 .. m) = m
  BY <1>1, FS_Interval
<1>7. rank \in Surjection(is, 1 .. m)
  BY <1>1, <1>5, <1>6, FS_Injection
<1>8. \A k \in 1 .. m : \E i \in is : rank[i] = k
  BY <1>7 DEF Surjection
<1>9. \A k \in 1 .. m : Place(is, k) \in is /\ rank[Place(is, k)] = k
  <2> SUFFICES ASSUME NEW k \in 1 .. m
               PROVE  Place(is, k) \in is /\ rank[Place(is, k)] = k
    OBVIOUS
  <2>1. \E i \in is : Cardinality(is \cap 1 .. i) = k
    BY <1>8
  <2> QED
    BY <2>1 DEF Place
<1> HIDE DEF rank, m
<1>10. \A i \in is : Place(is, rank[i]) = i
  BY <1>2, <1>4, <1>9
<1>11. ASSUME NEW k \in 1 .. m, NEW l \in 1 .. m, k < l
       PROVE  Place(is, k) < Place(is, l)
  <2>1. Place(is, k) \in Int /\ Place(is, l) \in Int
    <3>1. Place(is, k) \in is /\ Place(is, l) \in is
      BY <1>9
    <3>2. \A i \in is : i \in Int
      OBVIOUS
    <3> QED
      BY <3>1, <3>2
  <2>2. rank[Place(is, k)] < rank[Place(is, l)]
    BY <1>9, <1>11
  <2>3. CASE Place(is, l) < Place(is, k)
    <3>1. rank[Place(is, l)] < rank[Place(is, k)]
      BY <1>2, <1>9, <2>3
    <3> QED
      BY <2>2, <3>1, <1>9, <1>11
  <2>4. CASE Place(is, l) = Place(is, k)
    BY <1>9, <1>11, <2>4
  <2> QED
    BY <2>1, <2>3, <2>4
<1>12. \A i \in is, k \in 1 .. m :
          Place(is, k) = i <=> Cardinality(is \cap 1 .. i) = k
  BY <1>9, <1>10 DEF rank
<1> QED
  BY <1>1, <1>2, <1>9, <1>10, <1>11, <1>12 DEF m, CountsOut

\* A subsequence has the elements of its places, each once, in their order.
LEMMA SubsequenceFacts ==
    ASSUME NEW S, NEW s \in Seq(S), NEW is \in SUBSET DOMAIN s
    PROVE  LET t == Subsequence(s, is) IN
           /\ t \in Seq(S)
           /\ \A k \in DOMAIN t : Place(is, k) \in is /\ t[k] = s[Place(is, k)]
           /\ \A i \in is : \E k \in DOMAIN t : Place(is, k) = i
           /\ \A k, l \in DOMAIN t : k < l => Place(is, k) < Place(is, l)
<1> DEFINE m == Cardinality(is)
           t == Subsequence(s, is)
<1>1. is \in SUBSET (1 .. Len(s)) /\ Len(s) \in Nat
  OBVIOUS
<1>2. /\ m \in Nat
      /\ \A k \in 1 .. m : Place(is, k) \in is
      /\ \A i \in is : \E k \in 1 .. m : Place(is, k) = i
      /\ \A k, l \in 1 .. m : k < l => Place(is, k) < Place(is, l)
  <2>1. CountsOut(is)
    BY <1>1, PlaceFacts
  <2> QED
    BY <2>1 DEF CountsOut
<1>3. t = [k \in 1 .. m |-> s[Place(is, k)]]
  BY DEF Subsequence
<1>4. DOMAIN t = 1 .. m /\ \A k \in 1 .. m : t[k] = s[Place(is, k)]
  BY <1>3
<1>5. \A k \in 1 .. m : s[Place(is, k)] \in S
  BY <1>2
<1>6. t \in Seq(S)
  BY <1>2, <1>3, <1>5
<1> HIDE DEF t, m
<1>7. /\ t \in Seq(S)
      /\ \A k \in DOMAIN t : Place(is, k) \in is /\ t[k] = s[Place(is, k)]
      /\ \A i \in is : \E k \in DOMAIN t : Place(is, k) = i
      /\ \A k, l \in DOMAIN t : k < l => Place(is, k) < Place(is, l)
  BY <1>2, <1>4, <1>6
<1> QED
  BY <1>7 DEF t

\* Without its last place a set of places counts out the same.
LEMMA PlacesBelow ==
    ASSUME NEW n \in Nat, NEW is \in SUBSET (1 .. n), NEW l \in is,
           \A i \in is : i <= l
    PROVE  /\ Cardinality(is) = Cardinality(is \cap 1 .. (l - 1)) + 1
           /\ Place(is, Cardinality(is)) = l
           /\ \A k \in 1 .. Cardinality(is \cap 1 .. (l - 1)) :
                Place(is \cap 1 .. (l - 1), k) = Place(is, k)
<1> DEFINE js == is \cap 1 .. (l - 1)
           m == Cardinality(is)
<1>1. l \in 1 .. n /\ \A i \in is : i \in Int /\ i >= 1
  OBVIOUS
<1>2. js = is \ {l} /\ is \cap 1 .. l = is
  <2>1. ASSUME NEW i \in is PROVE i \in Int /\ i >= 1 /\ i <= l /\ l \in Int
    BY <1>1
  <2>2. \A i \in is : i \in 1 .. (l - 1) <=> i # l
    BY <2>1
  <2>3. \A i \in is : i \in 1 .. l
    BY <2>1
  <2> QED
    BY <2>2, <2>3
<1>3. IsFiniteSet(is) /\ m \in Nat /\ js \in SUBSET (1 .. n)
  BY RankGrows
<1>4. Cardinality(js) = m - 1
  BY <1>2, <1>3, FS_RemoveElement
<1>5. /\ \A i \in is, k \in 1 .. m : Place(is, k) = i <=> Cardinality(is \cap 1 .. i) = k
      /\ \A k \in 1 .. m : Place(is, k) \in is
  BY PlaceFacts DEF CountsOut
<1>6. /\ \A i \in js, k \in 1 .. Cardinality(js) :
            Place(js, k) = i <=> Cardinality(js \cap 1 .. i) = k
      /\ \A k \in 1 .. Cardinality(js) : Place(js, k) \in js
  <2> HIDE DEF js
  <2> QED
    BY <1>3, PlaceFacts DEF CountsOut
<1>7. m # 0
  BY <1>3, FS_EmptySet
<1>8. Place(is, m) = l
  <2>1. m \in 1 .. m
    BY <1>3, <1>7
  <2> QED
    BY <1>2, <1>5, <2>1
<1>9. ASSUME NEW k \in 1 .. Cardinality(js) PROVE Place(js, k) = Place(is, k)
  <2> DEFINE i == Place(js, k)
  <2>1. i \in js /\ Cardinality(js \cap 1 .. i) = k
    BY <1>6
  <2>2. js \cap 1 .. i = is \cap 1 .. i
    BY <1>1, <1>2, <2>1
  <2>3. k \in 1 .. m
    BY <1>3, <1>4
  <2> HIDE DEF i, js
  <2>4. i \in is
    BY <2>1 DEF js
  <2>5. Place(is, k) = i
    BY <1>5, <2>1, <2>2, <2>3, <2>4
  <2> QED
    BY <2>5 DEF i
<1> HIDE DEF js
<1>10. m = Cardinality(js) + 1
  BY <1>3, <1>4
<1> QED
  BY <1>8, <1>9, <1>10 DEF js

\* A subsequence that is not empty is one with a place less, and one element.
LEMMA SubsequenceLast ==
    ASSUME NEW S, NEW s \in Seq(S), NEW is \in SUBSET DOMAIN s, is # {}
    PROVE  \E l \in is :
             /\ \A i \in is : i <= l
             /\ Subsequence(s, is)
                  = Append(Subsequence(s, is \cap 1 .. (l - 1)), s[l])
<1>1. is \in SUBSET (1 .. Len(s)) /\ Len(s) \in Nat
  OBVIOUS
<1> DEFINE n == Cardinality(is)
<1>3. /\ n \in Nat
      /\ \A k \in 1 .. n : Place(is, k) \in is
      /\ \A i \in is : \E k \in 1 .. n : Place(is, k) = i
      /\ \A k, l \in 1 .. n : k < l => Place(is, k) < Place(is, l)
  <2>1. CountsOut(is)
    BY <1>1, PlaceFacts
  <2> QED
    BY <2>1 DEF CountsOut
<1> DEFINE l == Place(is, n)
           js == is \cap 1 .. (l - 1)
           m == Cardinality(js)
<1>2. IsFiniteSet(is) /\ n \in Nat /\ n # 0
  BY <1>1, RankGrows, FS_EmptySet
<1>4. n \in 1 .. n
  BY <1>2
<1>5. l \in is /\ \A i \in is : i <= l
  <2>1. l \in is
    BY <1>3, <1>4
  <2>2. ASSUME NEW i \in is PROVE i <= l
    <3>1. PICK k \in 1 .. n : Place(is, k) = i
      BY <1>3
    <3>2. k = n \/ k < n
      BY <1>2
    <3>3. i \in Int /\ l \in Int
      BY <1>1, <2>1
    <3>4. i = l \/ i < l
      BY <1>3, <1>4, <3>1, <3>2
    <3> QED
      BY <3>3, <3>4
  <2> QED
    BY <2>1, <2>2
<1>6. /\ n = m + 1
      /\ \A k \in 1 .. m : Place(js, k) = Place(is, k)
  <2> HIDE DEF l
  <2> QED
    BY <1>1, <1>5, PlacesBelow
<1>7. js \in SUBSET (1 .. Len(s))
  BY <1>1
<1>8. m \in Nat
  <2> HIDE DEF js
  <2> QED
    BY <1>1, <1>7, RankGrows
<1>9. Subsequence(s, is) = [k \in 1 .. n |-> s[Place(is, k)]]
  BY DEF Subsequence
<1>10. Subsequence(s, js) = [k \in 1 .. m |-> s[Place(js, k)]]
  BY DEF Subsequence
<1> DEFINE t == Subsequence(s, js)
<1>11. t \in Seq(S)
  <2>1. js \in SUBSET DOMAIN s
    BY <1>7
  <2> HIDE DEF js
  <2> QED
    BY <2>1, SubsequenceFacts
<1>12. l = Place(is, n)
  OBVIOUS
<1> HIDE DEF l, js, m, n
<1>13. Len(t) = m
  BY <1>8, <1>10
<1>14. Append(t, s[l]) = [k \in 1 .. (m + 1) |-> IF k = m + 1 THEN s[l] ELSE t[k]]
  BY <1>11, <1>13
<1>15. \A k \in 1 .. (m + 1) :
          s[Place(is, k)] = IF k = m + 1 THEN s[l] ELSE t[k]
  <2> SUFFICES ASSUME NEW k \in 1 .. (m + 1)
               PROVE  s[Place(is, k)] = IF k = m + 1 THEN s[l] ELSE t[k]
    OBVIOUS
  <2>1. CASE k = m + 1
    BY <1>6, <1>12, <2>1
  <2>2. CASE k # m + 1
    <3>1. k \in 1 .. m
      BY <1>8, <2>2
    <3> QED
      BY <1>6, <1>10, <2>2, <3>1
  <2> QED
    BY <2>1, <2>2
<1>16. Subsequence(s, is) = Append(t, s[l])
  BY <1>6, <1>9, <1>14, <1>15
<1> QED
  BY <1>5, <1>16 DEF js

\* With a place behind the others, a subsequence has one element more.
LEMMA SubsequenceGrows ==
    ASSUME NEW S, NEW s \in Seq(S), NEW n \in Nat, n < Len(s),
           NEW is \in SUBSET (1 .. n)
    PROVE  Subsequence(s, is \cup {n + 1}) = Append(Subsequence(s, is), s[n + 1])
<1> DEFINE js == is \cup {n + 1}
<1>1. js \in SUBSET DOMAIN s /\ js # {} /\ n + 1 \in js
  OBVIOUS
<1>2. \A i \in is : i \in Int /\ i >= 1 /\ i <= n
  OBVIOUS
<1>3. PICK l \in js : /\ \A i \in js : i <= l
                      /\ Subsequence(s, js)
                           = Append(Subsequence(s, js \cap 1 .. (l - 1)), s[l])
  <2> HIDE DEF js
  <2> QED
    BY <1>1, SubsequenceLast
<1>4. l = n + 1
  <2>1. n + 1 <= l /\ (l \in is \/ l = n + 1)
    BY <1>1, <1>3
  <2> QED
    BY <1>2, <2>1
<1>5. js \cap 1 .. (l - 1) = is
  <2>1. (n + 1) - 1 = n /\ n + 1 \notin 1 .. n
    OBVIOUS
  <2> QED
    BY <1>4, <2>1
<1> QED
  BY <1>3, <1>4, <1>5

\* A subsequence depends on the elements at its places only.
LEMMA SubsequenceAgrees ==
    ASSUME NEW n \in Nat, NEW is \in SUBSET (1 .. n), NEW s, NEW t,
           \A i \in is : s[i] = t[i]
    PROVE  Subsequence(s, is) = Subsequence(t, is)
<1>1. \A k \in 1 .. Cardinality(is) : Place(is, k) \in is
  BY PlaceFacts DEF CountsOut
<1> QED
  BY <1>1 DEF Subsequence

\* What is behind the first n elements, and how it grows and shrinks.
LEMMA SuffixFacts ==
    ASSUME NEW S, NEW s \in Seq(S), NEW n \in 0 .. Len(s)
    PROVE  LET suffix == SubSeq(s, n + 1, Len(s)) IN
           /\ suffix \in Seq(S) /\ Len(suffix) = Len(s) - n
           /\ \A i \in 1 .. (Len(s) - n) : suffix[i] = s[n + i]
OBVIOUS

LEMMA SuffixGrows ==
    ASSUME NEW S, NEW s \in Seq(S), NEW n \in 0 .. Len(s), NEW e \in S
    PROVE  SubSeq(Append(s, e), n + 1, Len(s) + 1)
             = Append(SubSeq(s, n + 1, Len(s)), e)
<1> DEFINE t == Append(s, e)
           u == SubSeq(t, n + 1, Len(t))
           v == SubSeq(s, n + 1, Len(s))
<1>1. /\ t \in Seq(S) /\ Len(t) = Len(s) + 1 /\ n \in 0 .. Len(t)
      /\ Len(s) \in Nat
      /\ t[Len(s) + 1] = e /\ \A i \in 1 .. Len(s) : t[i] = s[i]
  OBVIOUS
<1> HIDE DEF t
<1>2. /\ u \in Seq(S) /\ Len(u) = Len(s) + 1 - n
      /\ \A i \in 1 .. (Len(s) + 1 - n) : u[i] = t[n + i]
  BY <1>1, SuffixFacts
<1>3. /\ v \in Seq(S) /\ Len(v) = Len(s) - n
      /\ \A i \in 1 .. (Len(s) - n) : v[i] = s[n + i]
  BY SuffixFacts
<1> HIDE DEF u, v
<1>4. /\ Append(v, e) \in Seq(S) /\ Len(Append(v, e)) = Len(s) + 1 - n
      /\ Append(v, e)[Len(s) + 1 - n] = e
      /\ \A i \in 1 .. (Len(s) - n) : Append(v, e)[i] = v[i]
  BY <1>1, <1>3
<1>5. ASSUME NEW i \in 1 .. (Len(s) + 1 - n) PROVE u[i] = Append(v, e)[i]
  <2>1. CASE i = Len(s) + 1 - n
    <3>1. n + i = Len(s) + 1
      BY <1>1, <2>1
    <3> QED
      BY <1>1, <1>2, <1>4, <2>1, <3>1
  <2>2. CASE i # Len(s) + 1 - n
    <3>1. i \in 1 .. (Len(s) - n) /\ n + i \in 1 .. Len(s)
      BY <1>1, <2>2
    <3> QED
      BY <1>1, <1>2, <1>3, <1>4, <3>1
  <2> QED
    BY <2>1, <2>2
<1>6. u = Append(v, e)
  BY <1>2, <1>4, <1>5, SeqEqual
<1> QED
  BY <1>1, <1>6 DEF t, u, v

LEMMA SuffixShrinks ==
    ASSUME NEW S, NEW s \in Seq(S), NEW n \in 0 .. (Len(s) - 1)
    PROVE  LET suffix == SubSeq(s, n + 1, Len(s)) IN
           /\ suffix # <<>> /\ Head(suffix) = s[n + 1]
           /\ Tail(suffix) = SubSeq(s, n + 2, Len(s))
<1> DEFINE v == SubSeq(s, n + 1, Len(s))
           u == SubSeq(s, (n + 1) + 1, Len(s))
<1>1. Len(s) \in Nat /\ n \in 0 .. Len(s) /\ n + 1 \in 0 .. Len(s)
  OBVIOUS
<1>2. /\ v \in Seq(S) /\ Len(v) = Len(s) - n
      /\ \A i \in 1 .. (Len(s) - n) : v[i] = s[n + i]
  BY <1>1, SuffixFacts
<1>3. /\ u \in Seq(S) /\ Len(u) = Len(s) - (n + 1)
      /\ \A i \in 1 .. (Len(s) - (n + 1)) : u[i] = s[(n + 1) + i]
  BY <1>1, SuffixFacts
<1>4. (n + 1) + 1 = n + 2
  BY <1>1
<1> HIDE DEF u, v
<1>5. v # <<>> /\ Head(v) = s[n + 1]
  <2>1. Len(v) # 0 /\ 1 \in 1 .. (Len(s) - n)
    BY <1>1, <1>2
  <2> QED
    BY <1>2, <2>1
<1>6. /\ Tail(v) \in Seq(S) /\ Len(Tail(v)) = Len(s) - (n + 1)
      /\ \A i \in 1 .. (Len(s) - (n + 1)) : Tail(v)[i] = v[i + 1]
  BY <1>1, <1>2, <1>5
<1>7. ASSUME NEW i \in 1 .. (Len(s) - (n + 1)) PROVE u[i] = Tail(v)[i]
  <2>1. i + 1 \in 1 .. (Len(s) - n) /\ (n + 1) + i = n + (i + 1)
    BY <1>1
  <2> QED
    BY <1>2, <1>3, <1>6, <2>1
<1>8. u = Tail(v)
  BY <1>3, <1>6, <1>7, SeqEqual
<1> QED
  BY <1>4, <1>5, <1>8 DEF u, v

-----------------------------------------------------------------------------
(* SlidingAckWindow *)

\* A fresh window is well formed and covers nothing.
LEMMA NewSlidingWindowFacts ==
    NewSlidingWindow \in SlidingWindows /\ Covered(NewSlidingWindow) = {}
BY DEF NewSlidingWindow, SlidingWindows, Covered

\* What a covered id is, and that it is a natural number below the reach.
LEMMA CoveredFacts ==
    ASSUME NEW w \in SlidingWindows
    PROVE  /\ w.pos \in Nat
           /\ w.pos \notin Covered(w)
           /\ \A i \in Covered(w) : i \in Nat /\ i < w.pos + MessageWindowLen
           /\ \A i \in Nat : i < w.pos => i \in Covered(w)
           /\ \A i \in Nat : i \in Covered(w) <=> i < w.pos \/ i \in w.marked
BY WindowAssumption DEF SlidingWindows, Covered

\* Marking an id in reach keeps the window well formed, adds exactly that id
\* to what the window covers, and moves it forward only.
LEMMA SlidingMarkInReach ==
    ASSUME NEW w \in SlidingWindows, NEW id \in Reach(w)
    PROVE  /\ SlidingMark(w, id) \in SlidingWindows
           /\ Covered(SlidingMark(w, id)) = Covered(w) \cup {id}
           /\ w.pos <= SlidingMark(w, id).pos
<1> DEFINE all  == w.marked \cup {id}
           free == (w.pos .. (w.pos + MessageWindowLen)) \ all
           base == Min(free)
<1>1. /\ w.pos \in Nat
      /\ w.marked \subseteq (w.pos + 1) .. (w.pos + MessageWindowLen - 1)
      /\ id \in w.pos .. (w.pos + MessageWindowLen - 1)
      /\ MessageWindowLen \in Nat
  BY WindowAssumption DEF SlidingWindows, Reach
<1>2. free \subseteq Nat /\ w.pos + MessageWindowLen \in free
  BY <1>1
<1>3. base \in free /\ \A y \in free : base <= y
  BY <1>2, MinIsLeast
<1>4. SlidingMark(w, id) = [pos |-> base, marked |-> {i \in all : i > base}]
  BY DEF SlidingMark
<1>5. base \in Nat /\ w.pos <= base /\ base \notin all
  BY <1>1, <1>3
<1>6. \A i \in w.pos .. (base - 1) : i \in all
  <2> HIDE DEF base
  <2> SUFFICES ASSUME NEW i \in w.pos .. (base - 1), i \notin all
               PROVE  FALSE
    OBVIOUS
  <2>1. i \in w.pos .. (w.pos + MessageWindowLen) /\ i < base /\ base \in Nat
    BY <1>1, <1>3, <1>5
  <2>2. i \in free
    BY <2>1
  <2> QED
    BY <1>3, <1>1, <2>1, <2>2
<1> HIDE DEF base
<1>7. SlidingMark(w, id) \in SlidingWindows
  <2>1. {i \in all : i > base} \in SUBSET Nat
    BY <1>1
  <2>2. {i \in all : i > base}
            \subseteq (base + 1) .. (base + MessageWindowLen - 1)
    BY <1>1, <1>5
  <2> QED
    BY <1>4, <1>5, <2>1, <2>2 DEF SlidingWindows
<1>8. Covered(SlidingMark(w, id)) = Covered(w) \cup {id}
  <2>1. Covered(SlidingMark(w, id))
            = (0 .. (base - 1)) \cup {i \in all : i > base}
    BY <1>4 DEF Covered
  <2>2. Covered(w) \cup {id} = (0 .. (w.pos - 1)) \cup all
    BY DEF Covered
  <2>3. (0 .. (base - 1)) = (0 .. (w.pos - 1)) \cup (w.pos .. (base - 1))
    BY <1>1, <1>5
  <2>4. \A i \in all : i \in (w.pos .. (base - 1)) \/ i > base
    BY <1>1, <1>5
  <2> QED
    BY <1>6, <2>1, <2>2, <2>3, <2>4
<1> QED
  BY <1>4, <1>5, <1>7, <1>8

\* To mark an id that is marked changes nothing.
LEMMA SlidingMarkAgain ==
    ASSUME NEW w \in SlidingWindows, NEW id \in w.marked
    PROVE  SlidingMark(w, id) = w
<1> DEFINE free == (w.pos .. (w.pos + MessageWindowLen)) \ (w.marked \cup {id})
<1>1. /\ w.pos \in Nat
      /\ w.marked \subseteq (w.pos + 1) .. (w.pos + MessageWindowLen - 1)
      /\ w = [pos |-> w.pos, marked |-> w.marked]
      /\ MessageWindowLen \in Nat
  BY WindowAssumption DEF SlidingWindows
<1>2. w.marked \cup {id} = w.marked /\ {i \in w.marked : i > w.pos} = w.marked
  BY <1>1
<1>3. w.pos \in free /\ free \subseteq Nat /\ \A y \in free : w.pos <= y
  BY <1>1
<1>4. Min(free) = w.pos
  <2>1. Min(free) \in free /\ Min(free) <= w.pos
    BY <1>3, MinIsLeast
  <2> HIDE DEF free
  <2> QED
    BY <1>1, <1>3, <2>1
<1>5. SlidingMark(w, id) = IF id \in Reach(w)
                           THEN [pos |-> Min(free),
                                 marked |-> {i \in w.marked \cup {id} : i > Min(free)}]
                           ELSE w
  BY DEF SlidingMark
<1> HIDE DEF free
<1> QED
  BY <1>1, <1>2, <1>4, <1>5

\* Whatever the id, a mark keeps the window well formed and never makes it
\* forget or go back.
LEMMA SlidingMarkFacts ==
    ASSUME NEW w \in SlidingWindows, NEW id
    PROVE  /\ SlidingMark(w, id) \in SlidingWindows
           /\ Covered(w) \subseteq Covered(SlidingMark(w, id))
           /\ w.pos <= SlidingMark(w, id).pos
<1>1. CASE id \in Reach(w)
  BY <1>1, SlidingMarkInReach
<1>2. CASE id \notin Reach(w)
  <2>1. SlidingMark(w, id) = w
    BY <1>2 DEF SlidingMark
  <2> QED
    BY <2>1 DEF SlidingWindows
<1> QED
  BY <1>1, <1>2

\* Of two windows one of which covers all the other does, the same holds after
\* the same id is marked in both: the window that is ahead takes every id the
\* other one takes.
LEMMA SlidingMarkMonotone ==
    ASSUME NEW v \in SlidingWindows, NEW w \in SlidingWindows, NEW id \in Nat,
           Covered(v) \subseteq Covered(w)
    PROVE  Covered(SlidingMark(v, id)) \subseteq Covered(SlidingMark(w, id))
<1>1. v.pos <= w.pos
  BY CoveredFacts
<1>2. CASE id \in Reach(v)
  <2>1. Covered(SlidingMark(v, id)) = Covered(v) \cup {id}
    BY <1>2, SlidingMarkInReach
  <2>2. CASE id \in Reach(w)
    BY <2>1, <2>2, SlidingMarkInReach
  <2>3. CASE id \notin Reach(w)
    <3>1. id \in Covered(w)
      BY <1>1, <1>2, <2>3, CoveredFacts, WindowAssumption
         DEF Reach, SlidingWindows
    <3> QED
      BY <2>1, <2>3, <3>1 DEF SlidingMark
  <2> QED
    BY <2>2, <2>3
<1>3. CASE id \notin Reach(v)
  <2>1. SlidingMark(v, id) = v
    BY <1>3 DEF SlidingMark
  <2> QED
    BY <2>1, SlidingMarkFacts
<1> QED
  BY <1>2, <1>3

-----------------------------------------------------------------------------
(* LeadingAckWindow *)

\* What makes a record a leading window.
LEMMA LeadingWindowOf ==
    ASSUME NEW p \in Nat, NEW m \in SUBSET Nat, p >= PacketWindowLen,
           m \subseteq (p - PacketWindowLen) .. (p - 1)
    PROVE  [pos |-> p, marked |-> m] \in LeadingWindows
<1>1. [pos |-> p, marked |-> m] \in [pos : Nat, marked : SUBSET Nat]
  OBVIOUS
<1> QED
  BY <1>1 DEF LeadingWindows, LeadingBase

\* A leading window is well formed after any mark of an id; a mark moves
\* the window up to the id and keeps what is at or above the new base.
LEMMA LeadingMarkFacts ==
    ASSUME NEW w \in LeadingWindows, NEW id \in Nat
    PROVE  LET v == LeadingMark(w, id) IN
           /\ v \in LeadingWindows
           /\ v.pos >= w.pos /\ v.pos > id
           /\ v.pos = w.pos \/ v.pos = id + 1
           /\ v.marked = {i \in w.marked \cup {id} : i >= LeadingBase(v)}
<1> DEFINE pos == IF w.pos <= id THEN id + 1 ELSE w.pos
           kept == {i \in w.marked \cup {id} : i >= pos - PacketWindowLen}
<1>1. /\ w.pos \in Nat /\ w.pos >= PacketWindowLen
      /\ w.marked \subseteq (w.pos - PacketWindowLen) .. (w.pos - 1)
      /\ PacketWindowLen \in Nat
  BY WindowAssumption DEF LeadingWindows, LeadingBase
<1>2. /\ pos \in Nat /\ pos >= w.pos /\ pos > id
      /\ pos = w.pos \/ pos = id + 1
  BY <1>1
<1>3. LeadingMark(w, id) = [pos |-> pos, marked |-> kept]
  BY DEF LeadingMark
<1>4. kept \subseteq (pos - PacketWindowLen) .. (pos - 1)
  BY <1>1, <1>2
<1>5. kept \in SUBSET Nat
  BY <1>1
<1> HIDE DEF pos, kept
<1>6. LeadingMark(w, id) \in LeadingWindows
  BY <1>1, <1>2, <1>3, <1>4, <1>5, LeadingWindowOf
<1> QED
  BY <1>2, <1>3, <1>6 DEF LeadingBase, kept

-----------------------------------------------------------------------------
(* Bits in pages *)

\* A number is a whole number of pages and a rest, in one way only.
LEMMA WholeAndRest ==
    ASSUME NEW n \in Nat
    PROVE  /\ n \div PageBits \in Nat /\ n % PageBits \in 0 .. (PageBits - 1)
           /\ n = PageBits * (n \div PageBits) + (n % PageBits)
BY PageAssumption

LEMMA WholeAndRestOf ==
    ASSUME NEW q \in Nat, NEW r \in 0 .. (PageBits - 1)
    PROVE  /\ PageBits * q + r \in Nat
           /\ (PageBits * q + r) \div PageBits = q
           /\ (PageBits * q + r) % PageBits = r
BY PageAssumption

\* The number of pages that hold len bits.
PagesFor(len) == (len + PageBits - 1) \div PageBits

BitSets ==
    {b \in [len : Nat \ {0}, pages : Seq(SUBSET (0 .. (PageBits - 1)))] :
        Len(b.pages) = PagesFor(b.len)}

\* Every bit has its page.
LEMMA PageOfBit ==
    ASSUME NEW len \in Nat, NEW ind \in 0 .. (len - 1)
    PROVE  ind \div PageBits + 1 \in 1 .. PagesFor(len)
<1> DEFINE q == ind \div PageBits
           k == PagesFor(len)
<1>1. /\ q \in Nat /\ ind = PageBits * q + (ind % PageBits)
      /\ ind % PageBits \in 0 .. (PageBits - 1)
  BY WholeAndRest
<1>2. /\ k \in Nat
      /\ len + PageBits - 1 = PageBits * k + ((len + PageBits - 1) % PageBits)
      /\ (len + PageBits - 1) % PageBits \in 0 .. (PageBits - 1)
  <2>1. len + PageBits - 1 \in Nat
    BY PageAssumption
  <2> QED
    BY <2>1, WholeAndRest DEF PagesFor
<1> HIDE DEF q, k
<1>3. PageBits * q < PageBits * k
  BY <1>1, <1>2, PageAssumption
<1>4. q < k
  BY <1>1, <1>2, <1>3, PageAssumption
<1> QED
  BY <1>1, <1>2, <1>4 DEF q, k

LEMMA NewBitsFacts ==
    ASSUME NEW len \in Nat \ {0}
    PROVE  /\ NewBits(len) \in BitSets /\ NewBits(len).len = len
           /\ \A ind \in 0 .. (len - 1) : ~ Get(NewBits(len), ind)
<1> DEFINE k == PagesFor(len)
           pages == [i \in 1 .. k |-> {}]
<1>1. k \in Nat
  <2>1. len + PageBits - 1 \in Nat
    BY PageAssumption
  <2> QED
    BY <2>1, WholeAndRest DEF PagesFor
<1>2. NewBits(len) = [len |-> len, pages |-> pages]
  BY DEF NewBits, PagesFor
<1>3. \A ind \in 0 .. (len - 1) : ind \div PageBits + 1 \in 1 .. k
  BY PageOfBit
<1>4. pages \in Seq(SUBSET (0 .. (PageBits - 1))) /\ Len(pages) = k
  <2> HIDE DEF k
  <2> QED
    BY <1>1
<1>5. NewBits(len) \in BitSets /\ NewBits(len).len = len
  <2> HIDE DEF pages
  <2> QED
    BY <1>2, <1>4 DEF BitSets
<1>6. ASSUME NEW ind \in 0 .. (len - 1) PROVE ~ Get(NewBits(len), ind)
  <2> HIDE DEF k
  <2>1. pages[ind \div PageBits + 1] = {}
    BY <1>3
  <2> HIDE DEF pages
  <2> QED
    BY <1>2, <2>1 DEF Get
<1> QED
  BY <1>5, <1>6

\* To set a bit changes that bit only.
LEMMA SetBitFacts ==
    ASSUME NEW b \in BitSets, NEW ind \in 0 .. (b.len - 1), NEW to \in BOOLEAN
    PROVE  /\ SetBit(b, ind, to) \in BitSets
           /\ SetBit(b, ind, to).len = b.len
           /\ \A j \in 0 .. (b.len - 1) :
                Get(SetBit(b, ind, to), j) <=> IF j = ind THEN to ELSE Get(b, j)
<1> DEFINE p == ind \div PageBits + 1
           o == ind % PageBits
           page == IF to THEN b.pages[p] \cup {o} ELSE b.pages[p] \ {o}
           pages == [b.pages EXCEPT ![p] = page]
<1>1. /\ b.len \in Nat \ {0} /\ b.pages \in Seq(SUBSET (0 .. (PageBits - 1)))
      /\ Len(b.pages) = PagesFor(b.len)
      /\ b = [len |-> b.len, pages |-> b.pages]
  BY DEF BitSets
<1>2. \A j \in 0 .. (b.len - 1) :
        /\ j \div PageBits + 1 \in 1 .. Len(b.pages)
        /\ j % PageBits \in 0 .. (PageBits - 1)
        /\ j = PageBits * (j \div PageBits) + (j % PageBits)
  BY <1>1, PageOfBit, WholeAndRest
<1>3. p \in DOMAIN b.pages /\ o \in 0 .. (PageBits - 1)
  BY <1>1, <1>2
<1>4. SetBit(b, ind, to) = [len |-> b.len, pages |-> pages]
  <2>1. SetBit(b, ind, to) = [b EXCEPT !.pages[p] = page]
    BY DEF SetBit
  <2> HIDE DEF page, p
  <2> QED
    BY <1>1, <2>1
<1>5. b.pages[p] \in SUBSET (0 .. (PageBits - 1))
  BY <1>1, <1>3
<1>6. page \in SUBSET (0 .. (PageBits - 1))
  BY <1>3, <1>5
<1>7. pages \in Seq(SUBSET (0 .. (PageBits - 1))) /\ Len(pages) = Len(b.pages)
  <2> HIDE DEF page, p
  <2> QED
    BY <1>1, <1>3, <1>6
<1>8. ASSUME NEW j \in 0 .. (b.len - 1)
      PROVE  Get(SetBit(b, ind, to), j) <=> IF j = ind THEN to ELSE Get(b, j)
  <2> DEFINE q == j \div PageBits + 1
             r == j % PageBits
  <2>1. Get(SetBit(b, ind, to), j) <=> r \in pages[q]
    <3> HIDE DEF pages
    <3> QED
      BY <1>4 DEF Get
  <2>2. Get(b, j) <=> r \in b.pages[q]
    BY DEF Get
  <2>3. j = ind <=> q = p /\ r = o
    <3>1. /\ j = PageBits * (j \div PageBits) + r
          /\ ind = PageBits * (ind \div PageBits) + o
          /\ j \div PageBits \in Nat /\ ind \div PageBits \in Nat
      BY <1>2, WholeAndRest
    <3>2. q = p => j \div PageBits = ind \div PageBits
      BY <3>1
    <3> HIDE DEF r, o
    <3>3. q = p /\ r = o => j = ind
      BY <3>1, <3>2
    <3> QED
      BY <3>3 DEF r, o
  <2>4. q \in DOMAIN b.pages
    BY <1>1, <1>2
  <2> HIDE DEF p, o, q, r
  <2> QED
    BY <2>1, <2>2, <2>3, <2>4
<1>9. SetBit(b, ind, to) \in BitSets /\ SetBit(b, ind, to).len = b.len
  <2> HIDE DEF pages
  <2> QED
    BY <1>1, <1>4, <1>7 DEF BitSets
<1> QED
  BY <1>8, <1>9

\* What moving whole pages gives.
LEMMA MovePagesFacts ==
    ASSUME NEW b \in BitSets, NEW whole \in Nat
    PROVE  /\ MovePages(b.pages, whole) \in Seq(SUBSET (0 .. (PageBits - 1)))
           /\ Len(MovePages(b.pages, whole)) = Len(b.pages)
           /\ \A i \in 1 .. Len(b.pages) :
                MovePages(b.pages, whole)[i]
                    = IF i > whole THEN b.pages[i - whole] ELSE {}
<1> DEFINE S == SUBSET (0 .. (PageBits - 1))
           k == Len(b.pages)
           moved == [i \in 1 .. k |-> IF i > whole THEN b.pages[i - whole] ELSE {}]
<1>1. b.pages \in Seq(S) /\ k \in Nat /\ DOMAIN b.pages = 1 .. k /\ {} \in S
  BY DEF BitSets
<1>2. \A i \in 1 .. k : i > whole => i - whole \in 1 .. k
  BY <1>1
<1> HIDE DEF S
<1>3. \A i \in 1 .. k : (IF i > whole THEN b.pages[i - whole] ELSE {}) \in S
  BY <1>1, <1>2
<1>4. MovePages(b.pages, whole) = moved
  BY <1>1 DEF MovePages
<1> HIDE DEF k
<1>5. moved \in Seq(S) /\ Len(moved) = k
  BY <1>1, <1>3
<1> QED
  BY <1>4, <1>5 DEF S, k

\* What moving bits within and between the pages gives.
LEMMA MoveBitsFacts ==
    ASSUME NEW pages \in Seq(SUBSET (0 .. (PageBits - 1))),
           NEW rest \in 0 .. (PageBits - 1), Len(pages) = 1 \/ rest # 0
    PROVE  /\ MoveBits(pages, rest) \in Seq(SUBSET (0 .. (PageBits - 1)))
           /\ Len(MoveBits(pages, rest)) = Len(pages)
           /\ \A i \in 1 .. Len(pages), o \in 0 .. (PageBits - 1) :
                o \in MoveBits(pages, rest)[i]
                <=> IF o >= rest THEN o - rest \in pages[i]
                    ELSE i # 1 /\ o + PageBits - rest \in pages[i - 1]
<1> DEFINE B == 0 .. (PageBits - 1)
           k == Len(pages)
           Moved(i) == PageShr(pages[i], rest) \cup
                       (IF i = 1 THEN {} ELSE PageShl(pages[i - 1], PageBits - rest))
           moved == [i \in 1 .. k |-> Moved(i)]
<1>1. PageBits \in Nat /\ PageBits > 0 /\ rest \in Nat /\ rest < PageBits
  BY PageAssumption
<1>2. /\ k \in Nat /\ DOMAIN pages = 1 .. k
      /\ \A i \in 1 .. k : pages[i] \in SUBSET B
      /\ \A i \in 1 .. k : i # 1 => i - 1 \in 1 .. k
  OBVIOUS
<1>3. ASSUME NEW page \in SUBSET B, NEW o
      PROVE  o \in PageShr(page, rest) <=> o \in B /\ o >= rest /\ o - rest \in page
  <2>1. o \in PageShr(page, rest) <=> o \in B /\ \E p \in page : o = p + rest
    BY DEF PageShr
  <2>2. \A p \in page : p \in Nat
    BY <1>1
  <2>3. ASSUME o \in B, NEW p \in page, o = p + rest
        PROVE  o >= rest /\ o - rest \in page
    <3>1. p \in Nat /\ o - rest = p /\ o >= rest
      BY <1>1, <2>2, <2>3
    <3> QED
      BY <2>3, <3>1
  <2>4. ASSUME o \in B, o >= rest, o - rest \in page
        PROVE  \E p \in page : o = p + rest
    <3>1. o = (o - rest) + rest
      BY <1>1, <2>4
    <3> QED
      BY <2>4, <3>1
  <2> QED
    BY <2>1, <2>3, <2>4
<1>4. ASSUME NEW page \in SUBSET B, NEW o, rest # 0
      PROVE  o \in PageShl(page, PageBits - rest)
             <=> o \in B /\ o < rest /\ o + PageBits - rest \in page
  <2> DEFINE d == PageBits - rest
  <2>1. d \in 1 .. (PageBits - 1) /\ d % PageBits = d
    <3>1. d \in 1 .. (PageBits - 1)
      BY <1>1, <1>4
    <3>2. 0 \in Nat /\ PageBits * 0 + d = d
      BY <1>1, <3>1
    <3> HIDE DEF d
    <3> QED
      BY <1>1, <3>1
  <2>2. o \in PageShl(page, d) <=> \E p \in page : p >= d /\ o = p - d
    BY <2>1 DEF PageShl
  <2>3. \A p \in page : p \in Nat /\ p < PageBits
    BY <1>1
  <2>4. ASSUME NEW p \in page, p >= d, o = p - d
        PROVE  o \in B /\ o < rest /\ o + PageBits - rest \in page
    <3>1. p \in Nat /\ o \in B /\ o < rest /\ o + PageBits - rest = p
      BY <1>1, <2>1, <2>3, <2>4
    <3> QED
      BY <3>1
  <2>5. ASSUME o \in B, o < rest, o + PageBits - rest \in page
        PROVE  \E p \in page : p >= d /\ o = p - d
    <3>1. o + PageBits - rest >= d /\ o = (o + PageBits - rest) - d
      BY <1>1, <2>5
    <3> QED
      BY <2>5, <3>1
  <2> QED
    BY <2>2, <2>4, <2>5
<1>5. ASSUME NEW i \in 1 .. k
      PROVE  /\ Moved(i) \in SUBSET B
             /\ \A o \in B :
                  o \in Moved(i)
                  <=> IF o >= rest THEN o - rest \in pages[i]
                      ELSE i # 1 /\ o + PageBits - rest \in pages[i - 1]
  <2> DEFINE low == PageShr(pages[i], rest)
             high == IF i = 1 THEN {} ELSE PageShl(pages[i - 1], PageBits - rest)
  <2>1. \A o : o \in low <=> o \in B /\ o >= rest /\ o - rest \in pages[i]
    BY <1>2, <1>3
  <2>2. \A o : o \in high <=> /\ i # 1 /\ o \in B /\ o < rest
                              /\ o + PageBits - rest \in pages[i - 1]
    <3>1. CASE i = 1
      BY <3>1
    <3>2. CASE i # 1
      <4>1. rest # 0 /\ pages[i - 1] \in SUBSET B
        <5>1. k # 1 /\ i - 1 \in 1 .. k
          BY <1>2, <3>2
        <5> QED
          BY <1>2, <5>1
      <4> QED
        BY <1>4, <3>2, <4>1
    <3> QED
      BY <3>1, <3>2
  <2>3. Moved(i) = low \cup high
    OBVIOUS
  <2>4. \A o \in B : o < rest <=> ~ (o >= rest)
    BY <1>1
  <2> HIDE DEF low, high, Moved
  <2>5. Moved(i) \subseteq B
    BY <2>1, <2>2, <2>3
  <2> HIDE DEF B
  <2>6. ASSUME NEW o \in B
        PROVE  o \in Moved(i)
               <=> IF o >= rest THEN o - rest \in pages[i]
                   ELSE i # 1 /\ o + PageBits - rest \in pages[i - 1]
    BY <2>1, <2>2, <2>3, <2>4
  <2> QED
    BY <2>5, <2>6
<1>6. MoveBits(pages, rest) = moved
  BY <1>2 DEF MoveBits
<1> HIDE DEF Moved, B, k
<1>7. moved \in Seq(SUBSET B) /\ Len(moved) = k
  BY <1>2, <1>5
<1>8. \A i \in 1 .. k : moved[i] = Moved(i)
  OBVIOUS
<1> HIDE DEF moved
<1> QED
  BY <1>5, <1>6, <1>7, <1>8 DEF B, k

\* shr moves every bit by the distance, and what comes in is zero, for all the
\* distances that it can shift by.
LEMMA ShrMovesBits ==
    ASSUME NEW b \in BitSets, NEW by \in Nat, CanShift(b, by)
    PROVE  /\ Shr(b, by) \in BitSets /\ Shr(b, by).len = b.len
           /\ \A ind \in 0 .. (b.len - 1) :
                Get(Shr(b, by), ind) <=> ind >= by /\ Get(b, ind - by)
<1> DEFINE S == SUBSET (0 .. (PageBits - 1))
           k == Len(b.pages)
           whole == by \div PageBits
           rest == by % PageBits
           moved == MovePages(b.pages, whole)
           pages == MoveBits(moved, rest)
<1>1. /\ b.len \in Nat \ {0} /\ b.pages \in Seq(S) /\ k \in Nat
      /\ k = PagesFor(b.len) /\ b = [len |-> b.len, pages |-> b.pages]
  BY DEF BitSets
<1>2. /\ whole \in Nat /\ rest \in 0 .. (PageBits - 1)
      /\ by = PageBits * whole + rest
      /\ PageBits \in Nat /\ PageBits > 0
  BY WholeAndRest, PageAssumption
<1>3. /\ moved \in Seq(S) /\ Len(moved) = k
      /\ \A i \in 1 .. k :
            moved[i] = IF i > whole THEN b.pages[i - whole] ELSE {}
  BY <1>2, MovePagesFacts
<1>4. k = 1 \/ rest # 0
  BY DEF CanShift
<1> HIDE DEF moved
<1>5. /\ pages \in Seq(S) /\ Len(pages) = k
      /\ \A i \in 1 .. k, o \in 0 .. (PageBits - 1) :
            o \in pages[i]
            <=> IF o >= rest THEN o - rest \in moved[i]
                ELSE i # 1 /\ o + PageBits - rest \in moved[i - 1]
  BY <1>2, <1>3, <1>4, MoveBitsFacts
<1>6. Shr(b, by) = [len |-> b.len, pages |-> pages]
  <2>1. Shr(b, by) = [b EXCEPT !.pages = pages]
    BY DEF Shr, moved
  <2> HIDE DEF pages
  <2> QED
    BY <1>1, <2>1
<1> HIDE DEF pages
<1>7. Shr(b, by) \in BitSets /\ Shr(b, by).len = b.len
  BY <1>1, <1>5, <1>6 DEF BitSets
<1>8. ASSUME NEW ind \in 0 .. (b.len - 1)
      PROVE  Get(Shr(b, by), ind) <=> ind >= by /\ Get(b, ind - by)
  <2> DEFINE q == ind \div PageBits
             o == ind % PageBits
  <2>1. /\ q \in Nat /\ q + 1 \in 1 .. k /\ o \in 0 .. (PageBits - 1)
        /\ ind = PageBits * q + o
    BY <1>1, WholeAndRest, PageOfBit
  <2>2. Get(Shr(b, by), ind) <=> o \in pages[q + 1]
    BY <1>6 DEF Get
  <2> HIDE DEF q, o, k, whole, rest
  <2>0. k \in Nat /\ q \in Nat /\ whole \in Nat /\ q + 1 \in 1 .. k
    BY <1>1, <1>2, <2>1
  <2>3. CASE o >= rest
    <3>1. Get(Shr(b, by), ind) <=> o - rest \in moved[q + 1]
      BY <1>5, <2>1, <2>2, <2>3
    <3>2. CASE q >= whole
      <4>1. moved[q + 1] = b.pages[q - whole + 1]
        <5>1. q + 1 > whole /\ (q + 1) - whole = q - whole + 1
          BY <1>2, <2>1, <3>2
        <5> QED
          BY <1>3, <2>1, <5>1
      <4>2. q - whole \in Nat /\ o - rest \in 0 .. (PageBits - 1)
        BY <1>2, <2>1, <2>3, <3>2
      <4>3. ind - by = PageBits * (q - whole) + (o - rest)
        BY <1>2, <2>1, <4>2
      <4>4. ind >= by
        <5>1. PageBits * (q - whole) + (o - rest) \in Nat
          BY <4>2, WholeAndRestOf
        <5>2. ind \in Int /\ by \in Int
          OBVIOUS
        <5> QED
          BY <4>3, <5>1, <5>2
      <4>5. /\ (ind - by) \div PageBits = q - whole
            /\ (ind - by) % PageBits = o - rest
        BY <4>2, <4>3, WholeAndRestOf
      <4>6. Get(b, ind - by) <=> o - rest \in b.pages[q - whole + 1]
        BY <4>5 DEF Get
      <4> QED
        BY <3>1, <4>1, <4>4, <4>6
    <3>3. CASE q < whole
      <4>1. moved[q + 1] = {}
        <5>1. ~ (q + 1 > whole)
          BY <1>2, <2>1, <3>3
        <5> QED
          BY <1>3, <2>1, <5>1
      <4>2. ind < by
        BY <1>2, <2>1, <3>3
      <4>3. ~ (ind >= by)
        BY <4>2
      <4> QED
        BY <3>1, <4>1, <4>3
    <3> QED
      BY <1>2, <2>1, <3>2, <3>3
  <2>4. CASE o < rest
    <3>1. Get(Shr(b, by), ind) <=> q # 0 /\ o + PageBits - rest \in moved[q]
      <4>1. ~ (o >= rest) /\ (q + 1 # 1 <=> q # 0) /\ (q + 1) - 1 = q
        BY <1>2, <2>1, <2>4
      <4> QED
        BY <1>5, <2>1, <2>2, <4>1
    <3>2. CASE q > whole
      <4>1. q # 0 /\ moved[q] = b.pages[q - whole]
        <5>1. q \in 1 .. k /\ q # 0
          BY <2>0, <3>2
        <5> QED
          BY <1>3, <3>2, <5>1
      <4>2. /\ q - whole - 1 \in Nat
            /\ o + PageBits - rest \in 0 .. (PageBits - 1)
        BY <1>2, <2>1, <2>4, <3>2
      <4>3. ind - by = PageBits * (q - whole - 1) + (o + PageBits - rest)
        BY <1>2, <2>1, <4>2
      <4>4. ind >= by
        <5>1. PageBits * (q - whole - 1) + (o + PageBits - rest) \in Nat
          BY <4>2, WholeAndRestOf
        <5>2. ind \in Int /\ by \in Int
          OBVIOUS
        <5> QED
          BY <4>3, <5>1, <5>2
      <4>5. /\ (ind - by) \div PageBits = q - whole - 1
            /\ (ind - by) % PageBits = o + PageBits - rest
        BY <4>2, <4>3, WholeAndRestOf
      <4>6. Get(b, ind - by) <=> o + PageBits - rest \in b.pages[q - whole]
        <5>1. q - whole - 1 + 1 = q - whole
          BY <1>2, <2>1
        <5> QED
          BY <4>5, <5>1 DEF Get
      <4> QED
        BY <3>1, <4>1, <4>4, <4>6
    <3>3. CASE q <= whole
      <4>1. ~ (q # 0 /\ o + PageBits - rest \in moved[q])
        <5>1. ASSUME q # 0 PROVE moved[q] = {}
          <6>1. q \in 1 .. k /\ ~ (q > whole)
            BY <2>0, <3>3, <5>1
          <6> QED
            BY <1>3, <6>1
        <5> QED
          BY <5>1
      <4>2. ind < by
        BY <1>2, <2>1, <2>4, <3>3
      <4>3. ~ (ind >= by)
        BY <4>2
      <4> QED
        BY <3>1, <4>1, <4>3
    <3> QED
      BY <1>2, <2>1, <3>2, <3>3
  <2> QED
    BY <1>2, <2>1, <2>3, <2>4
<1> QED
  BY <1>7, <1>8

\* The pages hold exactly the bits that were set and not shifted out, whatever
\* the length of a page and across their borders: what new, set and shr do to
\* the ones.
THEOREM PagesKeepBits ==
    /\ \A len \in Nat \ {0} : NewBits(len) \in BitSets /\ Ones(NewBits(len)) = {}
    /\ \A b \in BitSets : \A ind \in 0 .. (b.len - 1), to \in BOOLEAN :
         /\ SetBit(b, ind, to) \in BitSets
         /\ Ones(SetBit(b, ind, to)) = IF to THEN Ones(b) \cup {ind}
                                             ELSE Ones(b) \ {ind}
    /\ \A b \in BitSets, by \in Nat :
         CanShift(b, by) =>
            /\ Shr(b, by) \in BitSets
            /\ Ones(Shr(b, by)) = {i + by : i \in Ones(b)} \cap 0 .. (b.len - 1)
<1>1. ASSUME NEW len \in Nat \ {0}
      PROVE  NewBits(len) \in BitSets /\ Ones(NewBits(len)) = {}
  <2>1. /\ NewBits(len) \in BitSets /\ NewBits(len).len = len
        /\ \A ind \in 0 .. (len - 1) : ~ Get(NewBits(len), ind)
    BY NewBitsFacts
  <2> QED
    BY <2>1 DEF Ones
<1>2. ASSUME NEW b \in BitSets, NEW ind \in 0 .. (b.len - 1), NEW to \in BOOLEAN
      PROVE  /\ SetBit(b, ind, to) \in BitSets
             /\ Ones(SetBit(b, ind, to)) = IF to THEN Ones(b) \cup {ind}
                                                 ELSE Ones(b) \ {ind}
  <2> DEFINE c == SetBit(b, ind, to)
  <2>1. /\ c \in BitSets /\ c.len = b.len
        /\ \A j \in 0 .. (b.len - 1) : Get(c, j) <=> IF j = ind THEN to ELSE Get(b, j)
    BY SetBitFacts
  <2> HIDE DEF c
  <2>2. CASE to
    <3>1. Ones(c) = Ones(b) \cup {ind}
      BY <2>1, <2>2 DEF Ones
    <3> QED
      BY <2>1, <2>2, <3>1 DEF c
  <2>3. CASE ~ to
    <3>1. Ones(c) = Ones(b) \ {ind}
      BY <2>1, <2>3 DEF Ones
    <3> QED
      BY <2>1, <2>3, <3>1 DEF c
  <2> QED
    BY <2>2, <2>3
<1>3. ASSUME NEW b \in BitSets, NEW by \in Nat, CanShift(b, by)
      PROVE  /\ Shr(b, by) \in BitSets
             /\ Ones(Shr(b, by)) = {i + by : i \in Ones(b)} \cap 0 .. (b.len - 1)
  <2> DEFINE c == Shr(b, by)
             moved == {i + by : i \in Ones(b)}
  <2>1. /\ c \in BitSets /\ c.len = b.len
        /\ \A ind \in 0 .. (b.len - 1) : Get(c, ind) <=> ind >= by /\ Get(b, ind - by)
    BY <1>3, ShrMovesBits
  <2>2. b.len \in Nat
    BY DEF BitSets
  <2> HIDE DEF c
  <2>3. \A i : i \in Ones(b) <=> i \in 0 .. (b.len - 1) /\ Get(b, i)
    BY DEF Ones
  <2>4. ASSUME NEW ind \in 0 .. (b.len - 1)
        PROVE  ind \in moved <=> ind >= by /\ Get(b, ind - by)
    <3>1. ASSUME ind \in moved PROVE ind >= by /\ Get(b, ind - by)
      <4>1. PICK i \in Ones(b) : ind = i + by
        BY <3>1
      <4>2. i \in 0 .. (b.len - 1) /\ Get(b, i)
        BY <2>3
      <4>3. ind >= by /\ ind - by = i
        BY <2>2, <4>1, <4>2
      <4> QED
        BY <4>2, <4>3
    <3>2. ASSUME ind >= by, Get(b, ind - by) PROVE ind \in moved
      <4>1. ind - by \in 0 .. (b.len - 1) /\ ind = (ind - by) + by
        BY <2>2, <3>2
      <4>2. ind - by \in Ones(b)
        BY <2>3, <3>2, <4>1
      <4> QED
        BY <4>1, <4>2
    <3> QED
      BY <3>1, <3>2
  <2> HIDE DEF moved
  <2>5. \A i : i \in Ones(c) <=> i \in 0 .. (b.len - 1) /\ Get(c, i)
    BY <2>1 DEF Ones
  <2>6. Ones(c) = moved \cap 0 .. (b.len - 1)
    BY <2>1, <2>4, <2>5
  <2> QED
    BY <2>1, <2>6 DEF c, moved
<1> QED
  BY <1>1, <1>2, <1>3

-----------------------------------------------------------------------------
(* The windows made of bits are the windows made of sets *)

\* Which ids the bits stand for.
LEMMA InFramesFacts ==
    ASSUME NEW b \in BitSets, NEW base \in Nat
    PROVE  /\ InFrames(b, base) \subseteq base .. (base + b.len - 1)
           /\ \A id \in base .. (base + b.len - 1) :
                /\ BitIndex(b, base, id) \in 0 .. (b.len - 1)
                /\ BitIndex(b, base, id) = b.len - 1 - (id - base)
                /\ id \in InFrames(b, base) <=> Get(b, BitIndex(b, base, id))
           /\ base \in InFrames(b, base) <=> Get(b, b.len - 1)
<1>1. b.len \in Nat /\ b.len > 0
  BY DEF BitSets
<1>2. BitIndex(b, base, base) = b.len - 1 /\ base \in base .. (base + b.len - 1)
  BY <1>1 DEF BitIndex
<1>3. \A id \in base .. (base + b.len - 1) : BitIndex(b, base, id) \in 0 .. (b.len - 1)
  BY <1>1 DEF BitIndex
<1> QED
  BY <1>2, <1>3 DEF InFrames, BitIndex

\* A shift forgets the lowest ids, and with the base moved up the others stay.
LEMMA InFramesShr ==
    ASSUME NEW b \in BitSets, NEW base \in Nat, NEW by \in Nat, CanShift(b, by)
    PROVE  InFrames(Shr(b, by), base + by)
               = {id \in InFrames(b, base) : id >= base + by}
<1> DEFINE c == Shr(b, by)
<1>1. /\ c \in BitSets /\ c.len = b.len /\ b.len \in Nat
      /\ \A ind \in 0 .. (b.len - 1) :
            Get(c, ind) <=> ind >= by /\ Get(b, ind - by)
  BY ShrMovesBits DEF BitSets
<1> HIDE DEF c
<1>2. ASSUME NEW id \in InFrames(c, base + by)
      PROVE  id \in InFrames(b, base) /\ id >= base + by
  <2>1. id \in (base + by) .. (base + by + b.len - 1)
    BY <1>1, InFramesFacts
  <2> DEFINE ind == b.len - 1 - (id - (base + by))
  <2>2. ind \in 0 .. (b.len - 1) /\ Get(c, ind)
    BY <1>1, <2>1, InFramesFacts
  <2>3. ind >= by /\ Get(b, ind - by)
    BY <1>1, <2>2
  <2>4. id \in base .. (base + b.len - 1) /\ ind - by = b.len - 1 - (id - base)
    BY <1>1, <2>1, <2>3
  <2>5. id \in InFrames(b, base)
    BY <2>3, <2>4, InFramesFacts
  <2> QED
    BY <2>1, <2>5
<1>3. ASSUME NEW id \in InFrames(b, base), id >= base + by
      PROVE  id \in InFrames(c, base + by)
  <2>1. id \in base .. (base + b.len - 1)
    BY InFramesFacts
  <2> DEFINE ind == b.len - 1 - (id - (base + by))
  <2>2. /\ id \in (base + by) .. (base + by + b.len - 1)
        /\ ind \in 0 .. (b.len - 1) /\ ind >= by
        /\ ind - by = b.len - 1 - (id - base)
    BY <1>1, <1>3, <2>1
  <2>3. Get(b, ind - by)
    BY <2>1, <2>2, InFramesFacts
  <2>4. Get(c, ind)
    BY <1>1, <2>2, <2>3
  <2>5. /\ id \in InFrames(c, base + by) <=> Get(c, BitIndex(c, base + by, id))
        /\ BitIndex(c, base + by, id) = ind
    <3>1. base + by \in Nat /\ id \in (base + by) .. (base + by + c.len - 1)
      BY <1>1, <2>2
    <3> QED
      BY <1>1, <3>1, InFramesFacts
  <2> QED
    BY <2>4, <2>5
<1>4. InFrames(c, base + by) = {id \in InFrames(b, base) : id >= base + by}
  BY <1>2, <1>3
<1> QED
  BY <1>4 DEF c

\* To set the bit of an id adds the id.
LEMMA InFramesSet ==
    ASSUME NEW b \in BitSets, NEW base \in Nat,
           NEW id \in base .. (base + b.len - 1)
    PROVE  /\ SetBit(b, BitIndex(b, base, id), TRUE) \in BitSets
           /\ SetBit(b, BitIndex(b, base, id), TRUE).len = b.len
           /\ InFrames(SetBit(b, BitIndex(b, base, id), TRUE), base)
                 = InFrames(b, base) \cup {id}
<1> DEFINE i == BitIndex(b, base, id)
           c == SetBit(b, i, TRUE)
<1>1. b.len \in Nat /\ i \in 0 .. (b.len - 1) /\ i = b.len - 1 - (id - base)
  BY InFramesFacts DEF BitSets
<1>2. /\ c \in BitSets /\ c.len = b.len
      /\ \A j \in 0 .. (b.len - 1) : Get(c, j) <=> IF j = i THEN TRUE ELSE Get(b, j)
  <2>1. i \in 0 .. (b.len - 1) /\ TRUE \in BOOLEAN
    BY <1>1
  <2> HIDE DEF i
  <2> QED
    BY <2>1, SetBitFacts
<1> HIDE DEF c, i
<1>3. ASSUME NEW k \in base .. (base + b.len - 1)
      PROVE  k \in InFrames(c, base) <=> k \in InFrames(b, base) \cup {id}
  <2> DEFINE j == b.len - 1 - (k - base)
  <2>1. j \in 0 .. (b.len - 1) /\ (j = i <=> k = id)
    BY <1>1
  <2>2. k \in InFrames(c, base) <=> Get(c, j)
    <3>1. c \in BitSets /\ c.len = b.len /\ k \in base .. (base + c.len - 1)
      BY <1>2
    <3>2. /\ k \in InFrames(c, base) <=> Get(c, BitIndex(c, base, k))
          /\ BitIndex(c, base, k) = c.len - 1 - (k - base)
      BY <3>1, InFramesFacts
    <3> QED
      BY <3>1, <3>2
  <2>3. k \in InFrames(b, base) <=> Get(b, j)
    BY InFramesFacts
  <2> QED
    BY <1>2, <2>1, <2>2, <2>3
<1>4. /\ InFrames(c, base) \subseteq base .. (base + b.len - 1)
      /\ InFrames(b, base) \subseteq base .. (base + b.len - 1)
  BY <1>2, InFramesFacts
<1>5. InFrames(c, base) = InFrames(b, base) \cup {id}
  BY <1>3, <1>4
<1> QED
  BY <1>2, <1>5 DEF c, i

\* The windows of message ids a receiver or sender can hold.
BitSlidings ==
    {w \in [pos : Nat, frames : BitSets] :
        w.frames.len = MessageWindowLen /\ w.pos \notin SlidingSet(w).marked}

\* What is left of the ids in all after n passes of the loop.
Slides(v, all, from, n) ==
    /\ v \in [pos : Nat, frames : BitSets] /\ v.frames.len = MessageWindowLen
    /\ v.pos \in from .. (from + n)
    /\ InFrames(v.frames, v.pos) = {i \in all : i >= v.pos}
    /\ \A i \in from .. (v.pos - 1) : i \in all
    /\ v.pos = from + n \/ v.pos \notin all

LEMMA SlideOnceSlides ==
    ASSUME NEW v, NEW all \in SUBSET Nat, NEW from \in Nat, NEW n \in Nat,
           PageBits # 1, Slides(v, all, from, n)
    PROVE  Slides(SlideOnce(v), all, from, n + 1)
<1> DEFINE b == v.frames
           c == Shr(b, 1)
<1>1. /\ v \in [pos : Nat, frames : BitSets] /\ b \in BitSets /\ v.pos \in Nat
      /\ b.len = MessageWindowLen
      /\ v.pos \in from .. (from + n)
      /\ InFrames(b, v.pos) = {i \in all : i >= v.pos}
      /\ \A i \in from .. (v.pos - 1) : i \in all
      /\ v.pos = from + n \/ v.pos \notin all
  BY DEF Slides
<1>2. Get(b, b.len - 1) <=> v.pos \in all
  <2>1. Get(b, b.len - 1) <=> v.pos \in InFrames(b, v.pos)
    BY <1>1, InFramesFacts
  <2> QED
    BY <1>1, <2>1
<1>3. CASE v.pos \notin all
  <2>1. SlideOnce(v) = v
    BY <1>2, <1>3 DEF SlideOnce
  <2>2. v.pos \in from .. (from + (n + 1))
    BY <1>1
  <2> QED
    BY <1>1, <1>3, <2>1, <2>2 DEF Slides
<1>4. CASE v.pos \in all
  <2>1. SlideOnce(v) = [pos |-> v.pos + 1, frames |-> c]
    BY <1>2, <1>4 DEF SlideOnce
  <2>2. CanShift(b, 1)
    <3>1. 1 % PageBits = 1
      <4>1. 1 \in 0 .. (PageBits - 1) /\ 0 \in Nat /\ PageBits * 0 + 1 = 1
        BY PageAssumption
      <4> QED
        BY <4>1, PageAssumption
    <3> QED
      BY <3>1 DEF CanShift
  <2>3. /\ c \in BitSets /\ c.len = MessageWindowLen
        /\ InFrames(c, v.pos + 1) = {i \in InFrames(b, v.pos) : i >= v.pos + 1}
    BY <1>1, <2>2, ShrMovesBits, InFramesShr
  <2> HIDE DEF c, b
  <2>4. InFrames(c, v.pos + 1) = {i \in all : i >= v.pos + 1}
    <3>1. \A i \in all : i >= v.pos + 1 => i >= v.pos
      BY <1>1
    <3> QED
      BY <1>1, <2>3, <3>1
  <2>5. \A i \in from .. ((v.pos + 1) - 1) : i \in all
    <3>1. \A i \in from .. ((v.pos + 1) - 1) : i = v.pos \/ i \in from .. (v.pos - 1)
      BY <1>1
    <3> QED
      BY <1>1, <1>4, <3>1
  <2>6. v.pos + 1 \in from .. (from + (n + 1)) /\ v.pos + 1 = from + (n + 1)
    BY <1>1, <1>4
  <2> QED
    BY <1>1, <2>1, <2>3, <2>4, <2>5, <2>6 DEF Slides
<1> QED
  BY <1>3, <1>4

\* The loop stops at the lowest id that is not marked.
LEMMA SlideSlides ==
    ASSUME NEW w, NEW all \in SUBSET Nat, PageBits # 1, w.pos \in Nat,
           Slides(w, all, w.pos, 0)
    PROVE  Slides(Slide(w), all, w.pos, MessageWindowLen)
<1> DEFINE n == MessageWindowLen
           from == w.pos
           C == {v \in [pos : Nat, frames : BitSets] :
                    \E i \in Nat : Slides(v, all, from, i)}
           step == [p \in (1 .. n) \X C |-> SlideOnce(p[2])]
           Run(g) == [i \in 0 .. n |-> IF i = 0 THEN w ELSE SlideOnce(g[i - 1])]
           h == CHOOSE g : g = Run(g)
<1>1. /\ n \in Nat /\ w.frames.len = n /\ from \in Nat /\ 0 \in Nat
      /\ w \in [pos : Nat, frames : BitSets]
  BY WindowAssumption DEF Slides
<1>2. w \in C
  BY <1>1
<1>3. \A v \in C : SlideOnce(v) \in C
  <2> SUFFICES ASSUME NEW v \in C PROVE SlideOnce(v) \in C
    OBVIOUS
  <2>1. PICK i \in Nat : Slides(v, all, from, i)
    OBVIOUS
  <2>2. Slides(SlideOnce(v), all, from, i + 1) /\ i + 1 \in Nat
    BY <1>1, <2>1, SlideOnceSlides
  <2>3. SlideOnce(v) \in [pos : Nat, frames : BitSets]
    BY <2>2 DEF Slides
  <2> QED
    BY <2>2, <2>3
<1>4. Slide(w) = h[n]
  BY <1>1 DEF Slide
<1> HIDE DEF C
<1>5. step \in [(1 .. n) \X C -> C]
  BY <1>3
<1>6. \A v \in C, i \in 1 .. n : step[<<i, v>>] = SlideOnce(v)
  OBVIOUS
<1> HIDE DEF step, n, from
<1>7. PICK f \in [0 .. n -> C] : Iterates(f, w, step, n)
  <2>1. n \in Nat /\ n \in 0 .. n
    BY <1>1
  <2>2. \A k \in 0 .. n : \E f \in [0 .. k -> C] : Iterates(f, w, step, k)
    BY <1>2, <1>5, <2>1, RecursionExists
  <2> QED
    BY <2>1, <2>2
<1>8. f = Run(f)
  <2>1. \A i \in 1 .. n : f[i - 1] \in C
    BY <1>1, <1>7
  <2>2. f[0] = w /\ \A i \in 1 .. n : f[i] = SlideOnce(f[i - 1])
    BY <1>6, <1>7, <2>1 DEF Iterates
  <2>3. \A i \in 0 .. n : i = 0 \/ i \in 1 .. n
    BY <1>1
  <2>4. \A i \in 0 .. n : f[i] = IF i = 0 THEN w ELSE SlideOnce(f[i - 1])
    BY <2>2, <2>3
  <2> QED
    BY <1>7, <2>4
<1>9. h = Run(h)
  BY <1>8
<1> HIDE DEF h
<1>10. h[0] = w /\ \A i \in 1 .. n : h[i] = SlideOnce(h[i - 1])
  <2>1. \A i \in 0 .. n : h[i] = IF i = 0 THEN w ELSE SlideOnce(h[i - 1])
    BY <1>9, Zenon
  <2>2. 0 \in 0 .. n /\ \A i \in 1 .. n : i \in 0 .. n /\ i # 0
    BY <1>1
  <2> QED
    BY <2>1, <2>2
<1> DEFINE Bad == {i \in 0 .. n : ~ Slides(h[i], all, from, i)}
<1>11. Bad = {}
  <2> SUFFICES ASSUME Bad # {} PROVE FALSE
    OBVIOUS
  <2>1. PICK i \in Bad : \A j \in Bad : i <= j
    <3>1. Bad \subseteq Nat
      BY <1>1
    <3> HIDE DEF Bad
    <3> QED
      BY <3>1, NatLeast
  <2>2. i \in 0 .. n /\ ~ Slides(h[i], all, from, i)
    OBVIOUS
  <2>3. i # 0
    BY <1>10, <2>2 DEF from
  <2>4. i - 1 \in 0 .. n /\ i - 1 \in Nat /\ i \in 1 .. n /\ (i - 1) + 1 = i /\ ~ (i <= i - 1)
    BY <1>1, <2>2, <2>3
  <2>5. Slides(h[i - 1], all, from, i - 1)
    <3>1. i - 1 \notin Bad
      <4> HIDE DEF Bad
      <4> QED
        BY <2>1, <2>4
    <3> QED
      BY <2>4, <3>1
  <2>6. Slides(SlideOnce(h[i - 1]), all, from, (i - 1) + 1)
    <3>1. from \in Nat /\ i - 1 \in Nat
      BY <1>1, <2>4
    <3> QED
      BY <2>5, <3>1, SlideOnceSlides
  <2> QED
    BY <1>10, <2>2, <2>4, <2>6
<1>12. Slides(h[n], all, from, n)
  BY <1>1, <1>11
<1> QED
  BY <1>4, <1>12 DEF n, from

\* mark on the bits is SlidingMark on the ids they stand for, whatever the
\* lengths of a window and of a page: the loop that shifts by one until the
\* topmost bit is zero ends at the lowest id that is not marked.
THEOREM SlidingBitsAreTheWindow ==
    ASSUME PageBits # 1
    PROVE  /\ NewBitSliding \in BitSlidings
           /\ SlidingSet(NewBitSliding) = NewSlidingWindow
           /\ \A w \in BitSlidings, id \in Nat :
                /\ BitSlidingMark(w, id) \in BitSlidings
                /\ SlidingSet(BitSlidingMark(w, id)) = SlidingMark(SlidingSet(w), id)
                /\ SlidingSet(w) \in SlidingWindows
<1>1. MessageWindowLen \in Nat \ {0}
  BY WindowAssumption
<1>2. /\ NewBitSliding \in BitSlidings
      /\ SlidingSet(NewBitSliding) = NewSlidingWindow
  <2> DEFINE b == NewBits(MessageWindowLen)
  <2>1. /\ b \in BitSets /\ b.len = MessageWindowLen
        /\ \A ind \in 0 .. (MessageWindowLen - 1) : ~ Get(b, ind)
    BY <1>1, NewBitsFacts
  <2> HIDE DEF b
  <2>2. InFrames(b, 0) = {}
    <3>1. InFrames(b, 0) \subseteq 0 .. (0 + b.len - 1) /\ 0 \in Nat
      BY <2>1, InFramesFacts
    <3>2. \A id \in 0 .. (0 + b.len - 1) :
            /\ BitIndex(b, 0, id) \in 0 .. (b.len - 1)
            /\ id \in InFrames(b, 0) <=> Get(b, BitIndex(b, 0, id))
      BY <2>1, <3>1, InFramesFacts
    <3> QED
      BY <2>1, <3>1, <3>2
  <2>3. NewBitSliding = [pos |-> 0, frames |-> b]
    BY DEF NewBitSliding, b
  <2> QED
    BY <2>1, <2>2, <2>3 DEF BitSlidings, SlidingSet, NewSlidingWindow
<1>3. ASSUME NEW w \in BitSlidings, NEW id \in Nat
      PROVE  /\ BitSlidingMark(w, id) \in BitSlidings
             /\ SlidingSet(BitSlidingMark(w, id)) = SlidingMark(SlidingSet(w), id)
             /\ SlidingSet(w) \in SlidingWindows
  <2> DEFINE n == MessageWindowLen
             b == w.frames
             marked == InFrames(b, w.pos)
             v == [pos |-> w.pos, marked |-> marked]
             all == marked \cup {id}
             free == (w.pos .. (w.pos + n)) \ all
  <2>1. /\ w.pos \in Nat /\ b \in BitSets /\ b.len = n
        /\ w = [pos |-> w.pos, frames |-> b]
        /\ w.pos \notin marked
    BY DEF BitSlidings, SlidingSet
  <2>2. marked \subseteq (w.pos .. (w.pos + n - 1))
    BY <2>1, InFramesFacts
  <2>3. SlidingSet(w) = v
    BY DEF SlidingSet
  <2>4. v \in SlidingWindows
    <3> HIDE DEF marked
    <3>1. marked \subseteq (w.pos + 1) .. (w.pos + n - 1)
      BY <1>1, <2>1, <2>2
    <3>2. marked \in SUBSET Nat
      BY <1>1, <2>1, <2>2
    <3> QED
      BY <2>1, <3>1, <3>2 DEF SlidingWindows
  <2>5. CASE id \notin w.pos .. (w.pos + n - 1)
    <3>1. id < w.pos \/ id - w.pos >= n
      BY <1>1, <2>1, <2>5
    <3>2. BitSlidingMark(w, id) = w
      BY <2>1, <3>1 DEF BitSlidingMark
    <3>3. SlidingMark(v, id) = v
      BY <2>5 DEF SlidingMark, Reach
    <3> QED
      BY <2>3, <2>4, <3>2, <3>3
  <2>6. CASE id \in w.pos .. (w.pos + n - 1)
    <3> DEFINE c == SetBit(b, BitIndex(b, w.pos, id), TRUE)
               u == [w EXCEPT !.frames = c]
               s == Slide(u)
    <3>1. /\ c \in BitSets /\ c.len = n
          /\ InFrames(c, w.pos) = all
      <4>1. b \in BitSets /\ w.pos \in Nat /\ id \in w.pos .. (w.pos + b.len - 1)
        BY <2>1, <2>6
      <4> HIDE DEF b
      <4>2. /\ c \in BitSets /\ c.len = b.len
            /\ InFrames(c, w.pos) = InFrames(b, w.pos) \cup {id}
        BY <4>1, InFramesSet
      <4> QED
        BY <2>1, <4>2
    <3>2. u = [pos |-> w.pos, frames |-> c]
      <4> HIDE DEF c
      <4> QED
        BY <2>1
    <3>3. ~ (id < w.pos) /\ ~ (id - w.pos >= n)
      BY <1>1, <2>1, <2>6
    <3>4. BitSlidingMark(w, id) = s
      BY <2>1, <3>3 DEF BitSlidingMark
    <3> HIDE DEF c, u
    <3>5. all \in SUBSET Nat /\ all \subseteq (w.pos .. (w.pos + n - 1))
      BY <1>1, <2>1, <2>2, <2>6
    <3>6. u.pos = w.pos /\ Slides(u, all, w.pos, 0)
      <4>1. {i \in all : i >= w.pos} = all
        BY <2>1, <3>5
      <4> HIDE DEF all
      <4>2. \A i \in w.pos .. (w.pos - 1) : FALSE
        BY <2>1
      <4>3. w.pos \in w.pos .. (w.pos + 0) /\ w.pos = w.pos + 0
        BY <2>1
      <4> QED
        BY <2>1, <3>1, <3>2, <4>1, <4>2, <4>3 DEF Slides
    <3>7. Slides(s, all, w.pos, n)
      <4> HIDE DEF all
      <4> QED
        BY <2>1, <3>5, <3>6, SlideSlides
    <3> HIDE DEF s, marked
    <3>8. /\ s \in [pos : Nat, frames : BitSets] /\ s.frames.len = n
          /\ s.pos \in Nat /\ s.pos \in w.pos .. (w.pos + n)
          /\ InFrames(s.frames, s.pos) = {i \in all : i >= s.pos}
          /\ \A i \in w.pos .. (s.pos - 1) : i \in all
          /\ s.pos \notin all
      <4>1. s.pos = w.pos + n => s.pos \notin all
        BY <1>1, <2>1, <3>5
      <4> HIDE DEF all
      <4> QED
        BY <3>7, <4>1 DEF Slides
    <3>9. Min(free) = s.pos
      <4>1. s.pos \in free /\ free \subseteq Nat
        BY <1>1, <2>1, <3>8
      <4>2. Min(free) \in free /\ Min(free) <= s.pos
        BY <4>1, MinIsLeast
      <4>3. \A i \in free : ~ (i < s.pos)
        <5> SUFFICES ASSUME NEW i \in free, i < s.pos PROVE FALSE
          OBVIOUS
        <5>1. i \in w.pos .. (s.pos - 1) /\ i \notin all
          BY <1>1, <2>1, <3>8
        <5> QED
          BY <3>8, <5>1
      <4> HIDE DEF free
      <4>4. Min(free) \in Nat /\ ~ (Min(free) < s.pos) /\ Min(free) <= s.pos
        BY <4>1, <4>2, <4>3
      <4> HIDE DEF all
      <4> QED
        BY <3>8, <4>4
    <3>10. SlidingMark(v, id) = [pos |-> s.pos, marked |-> {i \in all : i > s.pos}]
      <4>1. SlidingMark(v, id)
              = [pos |-> Min(free), marked |-> {i \in all : i > Min(free)}]
        BY <2>6 DEF SlidingMark, Reach
      <4> HIDE DEF free, all
      <4> QED
        BY <3>9, <4>1
    <3>11. {i \in all : i > s.pos} = {i \in all : i >= s.pos}
      BY <3>5, <3>8
    <3> HIDE DEF all, free
    <3>12. SlidingSet(s) = [pos |-> s.pos, marked |-> {i \in all : i > s.pos}]
      BY <3>8, <3>11 DEF SlidingSet
    <3>13. s \in BitSlidings
      BY <3>8, <3>12 DEF BitSlidings
    <3> QED
      BY <2>3, <2>4, <3>4, <3>10, <3>12, <3>13
  <2> QED
    BY <2>5, <2>6
<1> QED
  BY <1>2, <1>3

\* The windows of packet ids.
BitLeadings ==
    {w \in [pos : Nat, frames : BitSets] :
        w.frames.len = PacketWindowLen /\ w.pos >= PacketWindowLen}

\* A mark on the bits is LeadingMark on the ids they stand for, in a window of
\* one page (build_ack_map's has 32 bits); with more pages, for ids in or below
\* the window, and above it for the distances that shr can shift by.
THEOREM LeadingBitsAreTheWindow ==
    /\ NewBitLeading \in BitLeadings
    /\ LeadingSet(NewBitLeading) = NewLeadingWindow
    /\ \A w \in BitLeadings, id \in Nat :
         (\/ PacketWindowLen <= PageBits
          \/ id < w.pos
          \/ CanShift(w.frames, 1 + id - w.pos)) =>
            /\ BitLeadingMark(w, id) \in BitLeadings
            /\ LeadingSet(BitLeadingMark(w, id)) = LeadingMark(LeadingSet(w), id)
            /\ LeadingSet(w) \in LeadingWindows
<1> DEFINE n == PacketWindowLen
<1>1. n \in Nat \ {0}
  BY WindowAssumption
<1>2. /\ NewBitLeading \in BitLeadings
      /\ LeadingSet(NewBitLeading) = NewLeadingWindow
  <2> DEFINE b == NewBits(n)
  <2>1. /\ b \in BitSets /\ b.len = n
        /\ \A ind \in 0 .. (n - 1) : ~ Get(b, ind)
    BY <1>1, NewBitsFacts
  <2>2. NewBitLeading = [pos |-> n, frames |-> b]
    BY DEF NewBitLeading
  <2> HIDE DEF b
  <2>3. InFrames(b, 0) = {}
    <3>1. InFrames(b, 0) \subseteq 0 .. (0 + b.len - 1) /\ 0 \in Nat
      BY <2>1, InFramesFacts
    <3>2. \A id \in 0 .. (0 + b.len - 1) :
            /\ BitIndex(b, 0, id) \in 0 .. (b.len - 1)
            /\ id \in InFrames(b, 0) <=> Get(b, BitIndex(b, 0, id))
      BY <2>1, <3>1, InFramesFacts
    <3> QED
      BY <2>1, <3>1, <3>2
  <2>4. BitLeadingBase(NewBitLeading) = 0
    BY <1>1, <2>1, <2>2 DEF BitLeadingBase
  <2> QED
    BY <1>1, <2>1, <2>2, <2>3, <2>4
    DEF BitLeadings, LeadingSet, NewLeadingWindow
<1>3. ASSUME NEW w \in BitLeadings, NEW id \in Nat,
             \/ PacketWindowLen <= PageBits
             \/ id < w.pos
             \/ CanShift(w.frames, 1 + id - w.pos)
      PROVE  /\ BitLeadingMark(w, id) \in BitLeadings
             /\ LeadingSet(BitLeadingMark(w, id)) = LeadingMark(LeadingSet(w), id)
             /\ LeadingSet(w) \in LeadingWindows
  <2> DEFINE b == w.frames
             base == w.pos - n
             marked == InFrames(b, base)
             v == [pos |-> w.pos, marked |-> marked]
             lead == Lead(w, id)
             from == lead.pos - n
             kept == InFrames(lead.frames, from)
             c == SetBit(lead.frames, BitIndex(lead.frames, from, id), TRUE)
  <2>1. /\ w.pos \in Nat /\ w.pos >= n /\ b \in BitSets /\ b.len = n
        /\ w = [pos |-> w.pos, frames |-> b] /\ base \in Nat
    BY <1>1 DEF BitLeadings
  <2>2. marked \subseteq base .. (base + n - 1)
    BY <2>1, InFramesFacts
  <2>3. LeadingSet(w) = v /\ v \in LeadingWindows
    <3>1. LeadingSet(w) = v
      BY <2>1 DEF LeadingSet, BitLeadingBase
    <3> HIDE DEF marked
    <3>2. marked \subseteq (w.pos - n) .. (w.pos - 1) /\ marked \in SUBSET Nat
      BY <1>1, <2>1, <2>2
    <3> QED
      BY <2>1, <3>1, <3>2, LeadingWindowOf
  <2>4. /\ lead = [pos |-> lead.pos, frames |-> lead.frames]
        /\ lead.pos = IF w.pos <= id THEN id + 1 ELSE w.pos
        /\ lead.frames \in BitSets /\ lead.frames.len = n
        /\ kept = {i \in marked : i >= from}
    <3>1. CASE w.pos <= id
      <4> DEFINE by == 1 + id - w.pos
      <4>1. by \in Nat /\ base + by = id + 1 - n
        BY <1>1, <2>1, <3>1
      <4>2. CanShift(b, by)
        <5>1. ASSUME n <= PageBits PROVE Len(b.pages) = 1
          <6>1. Len(b.pages) = (n + PageBits - 1) \div PageBits
            BY <2>1 DEF BitSets, PagesFor
          <6>2. /\ n - 1 \in 0 .. (PageBits - 1) /\ 1 \in Nat
                /\ PageBits * 1 + (n - 1) = n + PageBits - 1
            BY <1>1, <5>1, PageAssumption
          <6>3. (PageBits * 1 + (n - 1)) \div PageBits = 1
            BY <6>2, WholeAndRestOf
          <6> QED
            BY <6>1, <6>2, <6>3
        <5>2. ~ (id < w.pos)
          BY <2>1, <3>1
        <5> QED
          BY <1>3, <5>1, <5>2 DEF CanShift
      <4>3. lead = [pos |-> id + 1, frames |-> Shr(b, by)]
        BY <3>1 DEF Lead
      <4>4. /\ Shr(b, by) \in BitSets /\ Shr(b, by).len = n
            /\ InFrames(Shr(b, by), base + by)
                  = {i \in InFrames(b, base) : i >= base + by}
        BY <2>1, <4>1, <4>2, ShrMovesBits, InFramesShr
      <4>5. lead.pos = id + 1 /\ lead.frames = Shr(b, by)
        BY <4>3
      <4> HIDE DEF by, base, b, lead
      <4>6. from = base + by
        BY <1>1, <4>1, <4>5
      <4> HIDE DEF from
      <4> QED
        BY <3>1, <4>3, <4>4, <4>5, <4>6
    <3>2. CASE ~ (w.pos <= id)
      <4>1. lead = w
        BY <3>2 DEF Lead
      <4>2. {i \in marked : i >= base} = marked
        BY <2>1, <2>2
      <4> QED
        BY <2>1, <3>2, <4>1, <4>2
    <3> QED
      BY <3>1, <3>2
  <2>5. lead.pos \in Nat /\ lead.pos >= n /\ from \in Nat
    BY <1>1, <2>1, <2>4
  <2>6. BitLeadingMark(w, id)
          = IF id >= from THEN [lead EXCEPT !.frames = c] ELSE lead
    BY <2>4 DEF BitLeadingMark, BitLeadingBase
  <2>7. LeadingMark(v, id) = [pos |-> lead.pos,
                              marked |-> {i \in marked \cup {id} : i >= from}]
    <3> HIDE DEF marked
    <3> QED
      BY <2>4 DEF LeadingMark
  <2>8. CASE id >= from
    <3>1. id \in from .. (from + lead.frames.len - 1)
      BY <1>1, <2>1, <2>4, <2>5, <2>8
    <3>2. /\ c \in BitSets /\ c.len = n
          /\ InFrames(c, from) = kept \cup {id}
      <4> DEFINE f == lead.frames
      <4> HIDE DEF lead, from, c, marked
      <4>1. lead.frames \in BitSets /\ lead.frames.len = n /\ from \in Nat
        BY <2>4, <2>5
      <4>2. /\ f \in BitSets /\ from \in Nat
            /\ id \in from .. (from + f.len - 1)
        BY <3>1, <4>1
      <4>3. c = SetBit(f, BitIndex(f, from, id), TRUE)
        BY DEF c
      <4> HIDE DEF f
      <4>4. /\ SetBit(f, BitIndex(f, from, id), TRUE) \in BitSets
            /\ SetBit(f, BitIndex(f, from, id), TRUE).len = f.len
            /\ InFrames(SetBit(f, BitIndex(f, from, id), TRUE), from)
                  = InFrames(f, from) \cup {id}
        BY <4>2, InFramesSet
      <4> QED
        BY <4>1, <4>3, <4>4 DEF f
    <3> HIDE DEF c
    <3>3. BitLeadingMark(w, id) = [pos |-> lead.pos, frames |-> c]
      <4> HIDE DEF lead, from
      <4> QED
        BY <2>4, <2>6, <2>8
    <3> HIDE DEF lead, marked, kept
    <3>4. kept \cup {id} = {i \in marked \cup {id} : i >= from}
      BY <2>4, <2>8
    <3>5. LeadingSet(BitLeadingMark(w, id))
            = [pos |-> lead.pos, marked |-> kept \cup {id}]
      BY <3>2, <3>3 DEF LeadingSet, BitLeadingBase
    <3>6. BitLeadingMark(w, id) \in BitLeadings
      BY <2>5, <3>2, <3>3 DEF BitLeadings
    <3> HIDE DEF kept, from
    <3>7. LeadingSet(BitLeadingMark(w, id)) = LeadingMark(v, id)
      BY <2>7, <3>4, <3>5
    <3> QED
      BY <2>3, <3>6, <3>7
  <2>9. CASE ~ (id >= from)
    <3>1. BitLeadingMark(w, id) = lead
      BY <2>6, <2>9
    <3> HIDE DEF lead, marked
    <3>2. kept = {i \in marked \cup {id} : i >= from}
      BY <2>4, <2>9
    <3>3. LeadingSet(lead) = [pos |-> lead.pos, marked |-> kept]
      BY <2>4 DEF LeadingSet, BitLeadingBase
    <3> QED
      BY <2>3, <2>4, <2>5, <2>7, <3>1, <3>2, <3>3 DEF BitLeadings
  <2> QED
    BY <2>8, <2>9
<1> QED
  BY <1>2, <1>3
=============================================================================
