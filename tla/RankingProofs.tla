---------------------------- MODULE RankingProofs ----------------------------
(***************************************************************************)
(* What Ranking returns, for every finite set and every numbering of it:   *)
(* ranks are the numbers from 0, in the order of the keys.  And what       *)
(* becomes of an order when one of its elements moves to the end.          *)
(***************************************************************************)
EXTENDS Ranking, Sequences, SequencesExt, SequenceTheorems, FiniteSetTheorems, TLAPS

\* a finite set whose elements have different keys
Keyed(key, S) ==
    /\ IsFiniteSet(S)
    /\ \A x \in S : key[x] \in Int
    /\ \A x, y \in S : key[x] = key[y] => x = y

\* Part of a keyed set is keyed.
LEMMA KeyedSubset ==
    ASSUME NEW key, NEW S, Keyed(key, S), NEW T, T \subseteq S
    PROVE  Keyed(key, T)
BY FS_Subset DEF Keyed

\* A rank is a number below the size of the set, and ranks follow keys.
LEMMA RankType ==
    ASSUME NEW key, NEW S, Keyed(key, S)
    PROVE  /\ Cardinality(S) \in Nat
           /\ \A x \in S : Rank(key, S, x) \in 0..(Cardinality(S) - 1)
           /\ \A x, y \in S : key[x] < key[y] => Rank(key, S, x) < Rank(key, S, y)
<1>1. Cardinality(S) \in Nat /\ IsFiniteSet(S)
  BY FS_CardinalityType DEF Keyed
<1> DEFINE B(x) == {z \in S : key[z] < key[x]}
<1>2. ASSUME NEW x \in S
      PROVE  IsFiniteSet(B(x)) /\ Cardinality(B(x)) \in Nat /\ Cardinality(B(x)) < Cardinality(S)
  <2>1. B(x) \subseteq S /\ x \notin B(x)
    BY DEF Keyed
  <2>2. /\ IsFiniteSet(B(x)) /\ Cardinality(B(x)) <= Cardinality(S)
        /\ Cardinality(B(x)) = Cardinality(S) => B(x) = S
    BY <1>1, <2>1, FS_Subset
  <2>3. Cardinality(B(x)) \in Nat
    BY <2>2, FS_CardinalityType
  <2> QED
    BY <1>1, <2>1, <2>2, <2>3
<1>3. ASSUME NEW x \in S, NEW y \in S, key[x] < key[y]
      PROVE  Cardinality(B(x)) < Cardinality(B(y))
  <2>1. B(x) \subseteq B(y) /\ x \in B(y) /\ x \notin B(x)
    BY <1>3 DEF Keyed
  <2>2. Cardinality(B(x)) <= Cardinality(B(y)) /\ (Cardinality(B(x)) = Cardinality(B(y)) => B(x) = B(y))
    BY <1>2, <2>1, FS_Subset
  <2> QED
    BY <1>2, <2>1, <2>2
<1>4. \A x \in S : Rank(key, S, x) = Cardinality(B(x))
  BY DEF Rank
<1> HIDE DEF B
<1> QED
  BY <1>1, <1>2, <1>3, <1>4

\* Different elements have different ranks.
LEMMA RankInjective ==
    ASSUME NEW key, NEW S, Keyed(key, S), NEW x \in S, NEW y \in S,
           Rank(key, S, x) = Rank(key, S, y)
    PROVE  x = y
<1>1. Rank(key, S, x) \in Int
  BY RankType
<1>2. ~(key[x] < key[y]) /\ ~(key[y] < key[x])
  BY <1>1, RankType
<1> QED
  BY <1>2 DEF Keyed

\* Every number below the size of the set is a rank.
LEMMA RankOnto ==
    ASSUME NEW key, NEW S, Keyed(key, S), NEW k \in Nat, k < Cardinality(S)
    PROVE  \E x \in S : Rank(key, S, x) = k
<1> DEFINE n == Cardinality(S)
           f == [x \in S |-> Rank(key, S, x)]
<1>1. n \in Nat /\ \A x \in S : Rank(key, S, x) \in 0..(n - 1)
  BY RankType
<1>2. f \in Injection(S, 0..(n - 1))
  BY <1>1, RankInjective DEF Injection, IsInjective
<1>3. IsFiniteSet(0..(n - 1)) /\ Cardinality(0..(n - 1)) = n
  <2>1. 0 \in Int /\ n - 1 \in Int
    BY <1>1
  <2>2. IsFiniteSet(0..(n - 1)) /\ Cardinality(0..(n - 1)) = IF 0 > n - 1 THEN 0 ELSE (n - 1) - 0 + 1
    BY <2>1, FS_Interval
  <2> QED
    BY <1>1, <2>2
<1>4. f \in Surjection(S, 0..(n - 1))
  BY <1>2, <1>3, FS_Injection
<1>5. k \in 0..(n - 1)
  BY <1>1
<1> QED
  BY <1>4, <1>5 DEF Surjection

\* The ranks below n, as many as there are.
LEMMA LowestCount ==
    ASSUME NEW key, NEW S, Keyed(key, S), NEW n \in Nat
    PROVE  /\ IsFiniteSet(Lowest(key, S, n))
           /\ Cardinality(Lowest(key, S, n)) = IF Cardinality(S) < n THEN Cardinality(S) ELSE n
<1> DEFINE T == Lowest(key, S, n)
           m == IF Cardinality(S) < n THEN Cardinality(S) ELSE n
           f == [x \in T |-> Rank(key, S, x)]
<1>1. Cardinality(S) \in Nat /\ \A x \in S : Rank(key, S, x) \in 0..(Cardinality(S) - 1)
  BY RankType
<1>2. T \subseteq S /\ \A x \in S : x \in T <=> Rank(key, S, x) < n
  BY DEF Lowest
<1>3. m \in Nat /\ m <= n /\ m <= Cardinality(S)
  BY <1>1
<1>4. \A x \in T : Rank(key, S, x) \in 0..(m - 1)
  BY <1>1, <1>2
<1>5. \A k \in 0..(m - 1) : \E x \in T : Rank(key, S, x) = k
  <2> SUFFICES ASSUME NEW k \in 0..(m - 1) PROVE \E x \in T : Rank(key, S, x) = k
    OBVIOUS
  <2>1. k \in Nat /\ k < Cardinality(S) /\ k < n
    BY <1>1, <1>3
  <2>2. PICK x \in S : Rank(key, S, x) = k
    BY <2>1, RankOnto
  <2> QED
    BY <1>2, <2>1, <2>2
<1>6. f \in Injection(T, 0..(m - 1))
  BY <1>2, <1>4, RankInjective DEF Injection, IsInjective
<1>7. f \in Surjection(T, 0..(m - 1))
  BY <1>4, <1>5 DEF Surjection
<1>8. IsFiniteSet(0..(m - 1)) /\ Cardinality(0..(m - 1)) = m
  <2>1. 0 \in Int /\ m - 1 \in Int
    BY <1>3
  <2>2. IsFiniteSet(0..(m - 1)) /\ Cardinality(0..(m - 1)) = IF 0 > m - 1 THEN 0 ELSE (m - 1) - 0 + 1
    BY <2>1, FS_Interval
  <2> HIDE DEF m
  <2> QED
    BY <1>3, <2>2
<1> HIDE DEF f, m, T
<1>9. IsFiniteSet(T) /\ Cardinality(T) = Cardinality(0..(m - 1))
  BY <1>6, <1>7, <1>8, FS_Injection
<1> QED
  BY <1>8, <1>9 DEF T, m

\* What is among the n lowest has those before it there too.
LEMMA LowestClosed ==
    ASSUME NEW key, NEW S, Keyed(key, S), NEW n \in Nat,
           NEW x \in Lowest(key, S, n), NEW y \in S, key[y] < key[x]
    PROVE  y \in Lowest(key, S, n)
<1>1. x \in S /\ Rank(key, S, x) < n
  BY DEF Lowest
<1>2. Rank(key, S, y) < Rank(key, S, x) /\ Rank(key, S, y) \in Int /\ Rank(key, S, x) \in Int
  BY <1>1, RankType
<1> QED
  BY <1>1, <1>2 DEF Lowest

\* The sequence has every element of the set, each once.
LEMMA RankedSequence ==
    ASSUME NEW key, NEW S, Keyed(key, S)
    PROVE  /\ Ranked(key, S) \in Seq(S)
           /\ Len(Ranked(key, S)) = Cardinality(S)
           /\ \A i, j \in DOMAIN Ranked(key, S) : Ranked(key, S)[i] = Ranked(key, S)[j] => i = j
           /\ {Ranked(key, S)[i] : i \in DOMAIN Ranked(key, S)} = S
<1> DEFINE s == Ranked(key, S)
           n == Cardinality(S)
<1>1. n \in Nat /\ \A x \in S : Rank(key, S, x) \in 0..(n - 1)
  BY RankType
<1>2. DOMAIN s = 1..n
  BY DEF Ranked
<1>3. \A k \in 1..n : s[k] \in S /\ Rank(key, S, s[k]) = k - 1
  <2> SUFFICES ASSUME NEW k \in 1..n PROVE s[k] \in S /\ Rank(key, S, s[k]) = k - 1
    OBVIOUS
  <2>1. k - 1 \in Nat /\ k - 1 < Cardinality(S)
    BY <1>1
  <2>2. \E x \in S : Rank(key, S, x) = k - 1
    BY <2>1, RankOnto
  <2>3. s[k] = CHOOSE x \in S : Rank(key, S, x) = k - 1
    BY DEF Ranked
  <2> QED
    BY <2>2, <2>3
<1>4. s = [k \in 1..n |-> s[k]]
  BY DEF Ranked
<1> HIDE DEF s
<1>5. s \in Seq(S) /\ Len(s) = n
  BY <1>1, <1>3, <1>4
<1>6. \A i, j \in 1..n : s[i] = s[j] => i = j
  BY <1>1, <1>3
<1>7. \A x \in S : \E i \in 1..n : s[i] = x
  <2> SUFFICES ASSUME NEW x \in S PROVE \E i \in 1..n : s[i] = x
    OBVIOUS
  <2>1. Rank(key, S, x) + 1 \in 1..n
    BY <1>1
  <2>2. s[Rank(key, S, x) + 1] = x
    BY <1>1, <1>3, <2>1, RankInjective
  <2> QED
    BY <2>1, <2>2
<1>8. {s[i] : i \in 1..n} = S
  BY <1>3, <1>7
<1> QED
  BY <1>2, <1>5, <1>6, <1>8 DEF s

\* Moving an element of a sequence to its end loses none.
LEMMA MovedToEnd ==
    ASSUME NEW S, NEW s \in Seq(S), NEW k \in DOMAIN s
    PROVE  LET t == Append(RemoveAt(s, k), s[k])
           IN  /\ t \in Seq(S)
               /\ Len(t) = Len(s)
               /\ \A i \in DOMAIN s : \E j \in DOMAIN t : t[j] = s[i]
<1> DEFINE a == SubSeq(s, 1, k - 1)
           b == SubSeq(s, k + 1, Len(s))
           t == Append(a \o b, s[k])
<1>1. Len(s) \in Nat /\ k \in 1..Len(s) /\ DOMAIN s = 1..Len(s)
  OBVIOUS
<1>2. a \in Seq(S) /\ Len(a) = k - 1 /\ \A i \in 1..(k - 1) : a[i] = s[i]
  BY <1>1
<1>3. b \in Seq(S) /\ Len(b) = Len(s) - k /\ \A i \in 1..(Len(s) - k) : b[i] = s[i + k]
  BY <1>1
<1> HIDE DEF a, b
<1>4. /\ a \o b \in Seq(S) /\ Len(a \o b) = Len(s) - 1
      /\ \A i \in 1..(Len(s) - 1) : (a \o b)[i] = IF i <= k - 1 THEN a[i] ELSE b[i - (k - 1)]
  <2>1. /\ a \o b \in Seq(S) /\ Len(a \o b) = Len(a) + Len(b)
        /\ \A i \in 1..(Len(a) + Len(b)) : (a \o b)[i] =
              IF i <= Len(a) THEN a[i] ELSE b[i - Len(a)]
    BY <1>2, <1>3, ConcatProperties
  <2>2. Len(a) + Len(b) = Len(s) - 1
    BY <1>1, <1>2, <1>3
  <2> QED
    BY <1>2, <2>1, <2>2
<1>5. /\ t \in Seq(S) /\ Len(t) = Len(s) /\ DOMAIN t = 1..Len(s)
      /\ t[Len(s)] = s[k]
      /\ \A i \in 1..(Len(s) - 1) : t[i] = (a \o b)[i]
  <2> DEFINE c == a \o b
  <2>1. s[k] \in S
    OBVIOUS
  <2>2. c \in Seq(S) /\ Len(c) = Len(s) - 1
    BY <1>4
  <2> HIDE DEF c
  <2>3. /\ Append(c, s[k]) \in Seq(S) /\ Len(Append(c, s[k])) = Len(c) + 1
        /\ \A i \in 1..Len(c) : Append(c, s[k])[i] = c[i]
        /\ Append(c, s[k])[Len(c) + 1] = s[k]
    BY <2>1, <2>2, AppendProperties
  <2>4. Len(c) + 1 = Len(s)
    BY <1>1, <2>2
  <2>5. Append(c, s[k]) = t
    BY DEF c
  <2>6. DOMAIN t = 1..Len(t)
    BY <2>3, <2>5
  <2> QED
    BY <2>2, <2>3, <2>4, <2>5, <2>6 DEF c
<1> HIDE DEF t
<1>6. ASSUME NEW i \in DOMAIN s PROVE \E j \in DOMAIN t : t[j] = s[i]
  <2>1. CASE i < k
    <3>1. i \in 1..(k - 1) /\ i \in 1..(Len(s) - 1) /\ i <= k - 1
      BY <1>1, <2>1
    <3>2. t[i] = s[i]
      BY <1>2, <1>4, <1>5, <3>1
    <3> QED
      BY <1>1, <1>5, <3>2
  <2>2. CASE i = k
    BY <1>1, <1>5, <2>2
  <2>3. CASE i > k
    <3>1. /\ i - k \in 1..(Len(s) - k) /\ i - 1 \in 1..(Len(s) - 1) /\ ~(i - 1 <= k - 1)
          /\ (i - 1) - (k - 1) = i - k /\ (i - k) + k = i
      BY <1>1, <2>3
    <3>2. t[i - 1] = s[i]
      BY <1>3, <1>4, <1>5, <3>1
    <3> QED
      BY <1>1, <1>5, <3>1, <3>2
  <2> QED
    BY <1>1, <2>1, <2>2, <2>3
<1> QED
  BY <1>5, <1>6 DEF RemoveAt, a, b, t
=============================================================================
