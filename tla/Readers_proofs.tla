----------------------------- MODULE Readers_proofs -----------------------------
(***************************************************************************)
(* Theorems about Readers, for lists and pages of every length, and any    *)
(* number of changes while they are read.                                  *)
(***************************************************************************)
EXTENDS Readers, SequenceTheorems, FiniteSetTheorems, TLAPS

-----------------------------------------------------------------------------
(* Finite sets of numbers, and the sequences and pages made of them.       *)

\* Entries come in finite sets.
Finite(S) == S \in SUBSET Int /\ IsFiniteSet(S)

\* What is below an entry is finite, and counted.
LEMMA BelowType ==
    ASSUME NEW S, Finite(S), NEW x \in Int
    PROVE  /\ Below(S, x) \subseteq S
           /\ Finite(Below(S, x))
           /\ Cardinality(Below(S, x)) \in Nat
<1>1. Below(S, x) \in SUBSET S
  BY DEF Below
<1>2. IsFiniteSet(Below(S, x))
  BY <1>1, FS_Subset DEF Finite
<1> QED
  BY <1>1, <1>2, FS_CardinalityType DEF Finite

\* The number of entries below one is less than that of all, and grows with the entry.
LEMMA RankGrows ==
    ASSUME NEW S, Finite(S), NEW x \in S
    PROVE  /\ Cardinality(Below(S, x)) \in 0..(Cardinality(S) - 1)
           /\ \A y \in S : x < y => Cardinality(Below(S, x)) < Cardinality(Below(S, y))
<1>0. x \in Int /\ IsFiniteSet(S) /\ Cardinality(S) \in Nat
  BY FS_CardinalityType DEF Finite
<1>1. ASSUME NEW T, T \in SUBSET S, Below(S, x) \subseteq T, x \in T
      PROVE  Cardinality(Below(S, x)) < Cardinality(T)
  <2>1. IsFiniteSet(T)
    BY <1>1, FS_Subset DEF Finite
  <2>2. x \notin Below(S, x) /\ Below(S, x) \in SUBSET T
    BY <1>0, <1>1 DEF Below
  <2>3. Cardinality(Below(S, x)) <= Cardinality(T)
    BY <2>1, <2>2, FS_Subset
  <2>4. Cardinality(Below(S, x)) # Cardinality(T)
    BY <1>1, <2>1, <2>2, FS_Subset
  <2>5. Cardinality(Below(S, x)) \in Nat /\ Cardinality(T) \in Nat
    BY <1>0, <2>1, BelowType, FS_CardinalityType
  <2> QED
    BY <2>3, <2>4, <2>5
<1>2. Cardinality(Below(S, x)) \in 0..(Cardinality(S) - 1)
  <2>1. Cardinality(Below(S, x)) < Cardinality(S)
    BY <1>1 DEF Below
  <2> QED
    BY <1>0, <2>1, BelowType
<1>3. ASSUME NEW y \in S, x < y
      PROVE  Cardinality(Below(S, x)) < Cardinality(Below(S, y))
  <2>1. Below(S, y) \in SUBSET S /\ x \in Below(S, y)
    BY <1>3 DEF Below
  <2>2. \A z \in S : z < x => z < y
    BY <1>3 DEF Finite
  <2>3. Below(S, x) \subseteq Below(S, y)
    BY <2>2 DEF Below
  <2> QED
    BY <2>1, <2>3, <1>1, Zenon
<1> QED
  BY <1>2, <1>3

\* Every number up to that of the entries is the number below one of them.
LEMMA RankOnto ==
    ASSUME NEW S, Finite(S), NEW k \in 0..(Cardinality(S) - 1)
    PROVE  \E x \in S : Cardinality(Below(S, x)) = k
<1> DEFINE n == Cardinality(S)
           f == [x \in S |-> Cardinality(Below(S, x))]
<1>1. n \in Nat /\ IsFiniteSet(S)
  BY FS_CardinalityType DEF Finite
<1>2. f \in [S -> 0..(n - 1)]
  BY RankGrows
<1>3. \A x, y \in S : f[x] = f[y] => x = y
  <2> SUFFICES ASSUME NEW x \in S, NEW y \in S, f[x] = f[y], x # y
               PROVE  FALSE
    OBVIOUS
  <2>1. x < y \/ y < x
    BY DEF Finite
  <2>2. f[x] < f[y] \/ f[y] < f[x]
    BY <2>1, RankGrows
  <2>3. f[x] \in Int /\ f[y] \in Int
    BY <1>2
  <2> QED
    BY <2>2, <2>3
<1>4. f \in Injection(S, 0..(n - 1))
  BY <1>2, <1>3 DEF Injection, IsInjective
<1>5. IsFiniteSet(0..(n - 1)) /\ Cardinality(0..(n - 1)) = n
  BY <1>1, FS_Interval
<1>6. f \in Surjection(S, 0..(n - 1))
  BY <1>4, <1>5, FS_Injection
<1> QED
  BY <1>6 DEF Surjection

\* A set of entries that is not empty has a first and a last.
LEMMA Extremes ==
    ASSUME NEW S, Finite(S), S # {}
    PROVE  /\ Bottom(S) \in S /\ \A y \in S : Bottom(S) <= y
           /\ Top(S) \in S /\ \A y \in S : Top(S) >= y
<1>1. IsFiniteSet(S) /\ Cardinality(S) \in Nat /\ Cardinality(S) # 0
  BY FS_CardinalityType, FS_EmptySet DEF Finite
<1>2. \E x \in S : \A y \in S : x <= y
  <2>1. PICK x \in S : Cardinality(Below(S, x)) = 0
    BY <1>1, RankOnto
  <2>2. Below(S, x) = {}
    BY <2>1, BelowType, FS_EmptySet DEF Finite
  <2> QED
    BY <2>2 DEF Below, Finite
<1>3. \E x \in S : \A y \in S : x >= y
  <2>1. PICK x \in S : Cardinality(Below(S, x)) = Cardinality(S) - 1
    BY <1>1, RankOnto
  <2>2. ASSUME NEW y \in S, x < y PROVE FALSE
    <3>1. Cardinality(Below(S, x)) < Cardinality(Below(S, y))
      BY <2>2, RankGrows
    <3>2. Cardinality(Below(S, y)) \in 0..(Cardinality(S) - 1)
      BY RankGrows
    <3> QED
      BY <1>1, <2>1, <3>1, <3>2
  <2> QED
    BY <2>2 DEF Finite
<1> QED
  BY <1>2, <1>3 DEF Bottom, Top

\* Increasing, and decreasing, sequences.
Increasing(seq) == \A i, j \in 1..Len(seq) : i < j => seq[i] < seq[j]
Decreasing(seq) == \A i, j \in 1..Len(seq) : i < j => seq[i] > seq[j]

\* Sorted lists the entries of a set, each once and in their order.
LEMMA SortedLists ==
    ASSUME NEW S, Finite(S)
    PROVE  /\ Sorted(S) \in Seq(S) /\ Sorted(S) \in Seq(Int)
           /\ Len(Sorted(S)) = Cardinality(S)
           /\ Increasing(Sorted(S))
           /\ {Sorted(S)[i] : i \in 1..Len(Sorted(S))} = S
<1> DEFINE n == Cardinality(S)
           At0(i) == CHOOSE x \in S : Cardinality(Below(S, x)) = i - 1
<1>0. n \in Nat /\ S \in SUBSET Int
  BY FS_CardinalityType DEF Finite
<1>1. \A i \in 1..n : At0(i) \in S /\ Cardinality(Below(S, At0(i))) = i - 1
  <2> TAKE i \in 1..n
  <2>1. i - 1 \in 0..(n - 1)
    BY <1>0
  <2> QED
    BY <2>1, RankOnto
<1> HIDE DEF At0
<1>2. Sorted(S) = [i \in 1..n |-> At0(i)]
  BY DEF Sorted, At0
<1>3. /\ Sorted(S) \in [1..n -> S]
      /\ \A i \in 1..n : Sorted(S)[i] = At0(i)
  BY <1>1, <1>2
<1>4. Sorted(S) \in Seq(S) /\ Len(Sorted(S)) = n
  BY <1>0, <1>3, SeqDef, LenProperties
<1>5. Sorted(S) \in Seq(Int)
  BY <1>0, <1>4, SeqMonotonic
<1>6. Increasing(Sorted(S))
  <2> SUFFICES ASSUME NEW i \in 1..n, NEW j \in 1..n, i < j
               PROVE  At0(i) < At0(j)
    BY <1>3, <1>4 DEF Increasing
  <2>1. Cardinality(Below(S, At0(i))) < Cardinality(Below(S, At0(j)))
    BY <1>0, <1>1
  <2>2. At0(j) < At0(i) => Cardinality(Below(S, At0(j))) < Cardinality(Below(S, At0(i)))
    BY <1>1, RankGrows
  <2>3. Cardinality(Below(S, At0(i))) \in Int /\ Cardinality(Below(S, At0(j))) \in Int
    BY <1>0, <1>1
  <2>4. At0(i) # At0(j) /\ ~(At0(j) < At0(i))
    BY <2>1, <2>2, <2>3
  <2>5. At0(i) \in Int /\ At0(j) \in Int
    BY <1>0, <1>1
  <2> QED
    BY <2>4, <2>5
<1>7. S \subseteq {Sorted(S)[i] : i \in 1..n}
  <2> SUFFICES ASSUME NEW x \in S PROVE \E i \in 1..n : At0(i) = x
    BY <1>3
  <2>1. Cardinality(Below(S, x)) \in 0..(n - 1)
    BY RankGrows
  <2>2. PICK i \in 1..n : i - 1 = Cardinality(Below(S, x))
    <3>1. Cardinality(Below(S, x)) + 1 \in 1..n
      BY <1>0, <2>1
    <3>2. (Cardinality(Below(S, x)) + 1) - 1 = Cardinality(Below(S, x))
      BY <1>0, <2>1
    <3> QED
      BY <3>1, <3>2
  <2>3. Cardinality(Below(S, At0(i))) = Cardinality(Below(S, x))
    BY <1>1, <2>2
  <2>4. ~(At0(i) < x) /\ ~(x < At0(i))
    <3>1. At0(i) < x => Cardinality(Below(S, At0(i))) < Cardinality(Below(S, x))
      BY <1>1, RankGrows
    <3>2. x < At0(i) => Cardinality(Below(S, x)) < Cardinality(Below(S, At0(i)))
      BY <1>1, RankGrows
    <3> QED
      BY <1>0, <2>1, <2>3, <3>1, <3>2
  <2>5. At0(i) \in Int /\ x \in Int
    BY <1>0, <1>1
  <2> QED
    BY <2>4, <2>5
<1> QED
  BY <1>3, <1>4, <1>5, <1>6, <1>7

\* Downwards lists them from the last to the first.
LEMMA DownwardsLists ==
    ASSUME NEW S, Finite(S)
    PROVE  /\ Downwards(S) \in Seq(Int)
           /\ Len(Downwards(S)) = Cardinality(S)
           /\ Decreasing(Downwards(S))
           /\ {Downwards(S)[i] : i \in 1..Len(Downwards(S))} = S
<1> DEFINE n == Cardinality(S)
<1>0. n \in Nat /\ S \in SUBSET Int
  BY FS_CardinalityType DEF Finite
<1>1. /\ Sorted(S) \in [1..n -> S]
      /\ Increasing(Sorted(S)) /\ Len(Sorted(S)) = n
      /\ {Sorted(S)[i] : i \in 1..n} = S
  BY SortedLists, LenProperties
<1> DEFINE s == Sorted(S)
<1> HIDE DEF s
<1>2. Downwards(S) = [i \in 1..n |-> s[n + 1 - i]]
  BY DEF Downwards, s
<1>3. \A i \in 1..n : n + 1 - i \in 1..n
  BY <1>0
<1>4. /\ Downwards(S) \in [1..n -> S]
      /\ \A i \in 1..n : Downwards(S)[i] = s[n + 1 - i]
  BY <1>1, <1>2, <1>3 DEF s
<1>5. Downwards(S) \in Seq(S) /\ Len(Downwards(S)) = n
  BY <1>0, <1>4, SeqDef, LenProperties
<1>6. Downwards(S) \in Seq(Int)
  BY <1>0, <1>5, SeqMonotonic
<1>7. Decreasing(Downwards(S))
  <2> SUFFICES ASSUME NEW i \in 1..n, NEW j \in 1..n, i < j
               PROVE  s[n + 1 - i] > s[n + 1 - j]
    BY <1>4, <1>5 DEF Decreasing
  <2>1. n + 1 - j < n + 1 - i
    BY <1>0
  <2>2. s[n + 1 - j] < s[n + 1 - i]
    BY <1>1, <1>3, <2>1 DEF s, Increasing
  <2>3. s[n + 1 - i] \in Int /\ s[n + 1 - j] \in Int
    BY <1>0, <1>1, <1>3 DEF s
  <2> QED
    BY <2>2, <2>3
<1>8. S \subseteq {Downwards(S)[i] : i \in 1..n}
  <2> SUFFICES ASSUME NEW x \in S PROVE \E i \in 1..n : s[n + 1 - i] = x
    BY <1>4
  <2>1. PICK j \in 1..n : s[j] = x
    BY <1>1 DEF s
  <2>2. n + 1 - j \in 1..n /\ n + 1 - (n + 1 - j) = j
    BY <1>0
  <2> QED
    BY <2>1, <2>2
<1> QED
  BY <1>4, <1>5, <1>6, <1>7, <1>8

\* The first n of the entries: all of them, or n.
LEMMA LowestTakes ==
    ASSUME NEW S, Finite(S), NEW n \in Int
    PROVE  /\ Lowest(S, n) \subseteq S /\ Finite(Lowest(S, n))
           /\ \A x \in S, y \in Lowest(S, n) : x < y => x \in Lowest(S, n)
           /\ Cardinality(Lowest(S, n)) =
                 IF n <= 0 THEN 0 ELSE IF n < Cardinality(S) THEN n ELSE Cardinality(S)
           /\ Cardinality(S) <= n => Lowest(S, n) = S
<1> DEFINE P == Lowest(S, n)
           r(x) == Cardinality(Below(S, x))
           m == IF n <= 0 THEN 0 ELSE IF n < Cardinality(S) THEN n ELSE Cardinality(S)
           f == [x \in P |-> r(x)]
<1>0. IsFiniteSet(S) /\ Cardinality(S) \in Nat /\ S \in SUBSET Int
  BY FS_CardinalityType DEF Finite
<1>1. P \in SUBSET S /\ (\A x \in S : x \in P <=> r(x) < n)
  BY DEF Lowest
<1>2. IsFiniteSet(P) /\ Finite(P)
  BY <1>0, <1>1, FS_Subset DEF Finite
<1>3. \A x \in S : r(x) \in 0..(Cardinality(S) - 1)
  BY RankGrows
<1>4. \A x \in S, y \in P : x < y => x \in P
  <2> SUFFICES ASSUME NEW x \in S, NEW y \in P, x < y
               PROVE  r(x) < n
    BY <1>1
  <2>1. r(x) < r(y)
    BY <1>1, RankGrows
  <2>2. r(x) \in Int /\ r(y) \in Int /\ r(y) < n
    BY <1>1, <1>3
  <2> QED
    BY <2>1, <2>2
<1> HIDE DEF r, P
<1>5. f \in [P -> 0..(m - 1)]
  <2> SUFFICES ASSUME NEW x \in P PROVE r(x) \in 0..(m - 1)
    OBVIOUS
  <2>1. x \in S /\ r(x) < n /\ r(x) \in 0..(Cardinality(S) - 1)
    BY <1>1, <1>3
  <2> QED
    BY <1>0, <2>1
<1>6. f \in Injection(P, 0..(m - 1))
  <2> SUFFICES ASSUME NEW x \in P, NEW y \in P, r(x) = r(y), x # y
               PROVE  FALSE
    BY <1>5 DEF Injection, IsInjective
  <2>1. x \in S /\ y \in S /\ r(x) \in Int /\ r(y) \in Int
    BY <1>1, <1>3
  <2>2. x < y \/ y < x
    BY <1>0, <2>1
  <2>3. r(x) < r(y) \/ r(y) < r(x)
    BY <2>1, <2>2, RankGrows DEF r
  <2> QED
    BY <2>1, <2>3
<1>7. f \in Surjection(P, 0..(m - 1))
  <2> SUFFICES ASSUME NEW k \in 0..(m - 1) PROVE \E x \in P : r(x) = k
    BY <1>5 DEF Surjection
  <2>1. k \in 0..(Cardinality(S) - 1) /\ k < n
    BY <1>0
  <2>2. PICK x \in S : r(x) = k
    BY <2>1, RankOnto DEF r
  <2> QED
    BY <1>1, <2>1, <2>2
<1>8. Cardinality(P) = m
  <2>1. m \in Nat
    BY <1>0
  <2> HIDE DEF m
  <2>2. IsFiniteSet(0..(m - 1)) /\ Cardinality(0..(m - 1)) = m
    <3>1. m - 1 \in Int
      BY <2>1
    <3>2. /\ IsFiniteSet(0..(m - 1))
          /\ Cardinality(0..(m - 1)) = IF 0 > m - 1 THEN 0 ELSE (m - 1) - 0 + 1
      BY <3>1, FS_Interval
    <3> QED
      BY <2>1, <3>2
  <2> QED
    BY <1>6, <1>7, <2>2, FS_Injection
<1>9. Cardinality(S) <= n => P = S
  <2> SUFFICES ASSUME Cardinality(S) <= n, NEW x \in S PROVE x \in P
    BY <1>1
  <2> QED
    BY <1>0, <1>1, <1>3
<1> QED
  BY <1>1, <1>2, <1>4, <1>8, <1>9 DEF P

LEMMA LowestFits ==
    ASSUME NEW S, Finite(S), NEW n \in Nat
    PROVE  Cardinality(Lowest(S, n)) <= n
<1>1. Cardinality(S) \in Nat
  BY FS_CardinalityType DEF Finite
<1>2. Cardinality(Lowest(S, n)) = IF n <= 0 THEN 0 ELSE IF n < Cardinality(S) THEN n ELSE Cardinality(S)
  BY LowestTakes
<1> QED
  BY <1>1, <1>2

\* A page without its first entry.
LEMMA AfterFirstDrops ==
    ASSUME NEW S, Finite(S)
    PROVE  /\ AfterFirst(S) \subseteq S /\ Finite(AfterFirst(S))
           /\ \A x \in AfterFirst(S) : \E y \in S : y < x
           /\ S # {} => AfterFirst(S) = S \ {Bottom(S)}
           /\ S # {} => Cardinality(AfterFirst(S)) = Cardinality(S) - 1
<1>1. AfterFirst(S) \in SUBSET S /\ \A x \in AfterFirst(S) : \E y \in S : y < x
  BY DEF AfterFirst, Below
<1>2. Finite(AfterFirst(S))
  BY <1>1, FS_Subset DEF Finite
<1>3. ASSUME S # {} PROVE AfterFirst(S) = S \ {Bottom(S)}
  <2>1. Bottom(S) \in S /\ \A y \in S : Bottom(S) <= y
    BY <1>3, Extremes
  <2>2. ASSUME NEW x \in S PROVE (\E y \in S : y < x) <=> x # Bottom(S)
    <3>1. x \in Int /\ Bottom(S) \in Int /\ Bottom(S) <= x /\ S \in SUBSET Int
      BY <2>1 DEF Finite
    <3>2. x # Bottom(S) => Bottom(S) < x
      BY <3>1
    <3>3. \A y \in S : y < x => x # Bottom(S)
      BY <2>1, <3>1
    <3> QED
      BY <2>1, <3>2, <3>3
  <2> QED
    BY <2>2 DEF AfterFirst, Below
<1>4. ASSUME S # {} PROVE Cardinality(AfterFirst(S)) = Cardinality(S) - 1
  <2>1. Bottom(S) \in S
    BY <1>4, Extremes
  <2> QED
    BY <1>3, <1>4, <2>1, FS_RemoveElement DEF Finite
<1> QED
  BY <1>1, <1>2, <1>3, <1>4

\* What is returned after lesser entries keeps the order.
LEMMA ReturnInOrder ==
    ASSUME NEW s \in Seq(Int), Increasing(s), NEW S, Finite(S),
           \A i \in 1..Len(s) : \A y \in S : s[i] < y
    PROVE  /\ s \o Sorted(S) \in Seq(Int) /\ Increasing(s \o Sorted(S))
           /\ Len(s \o Sorted(S)) = Len(s) + Cardinality(S)
           /\ {(s \o Sorted(S))[i] : i \in 1..Len(s \o Sorted(S))} =
                 {s[i] : i \in 1..Len(s)} \cup S
<1> DEFINE t == Sorted(S)
           n == Len(s)
           c == s \o t
<1>1. /\ t \in Seq(Int) /\ Len(t) = Cardinality(S) /\ Increasing(t)
      /\ {t[i] : i \in 1..Len(t)} = S
  BY SortedLists
<1> HIDE DEF t
<1>2. /\ c \in Seq(Int) /\ Len(c) = n + Len(t)
      /\ \A i \in 1..(n + Len(t)) : c[i] = IF i <= n THEN s[i] ELSE t[i - n]
  BY <1>1, ConcatProperties
<1> HIDE DEF c
<1>3. n \in Nat /\ Len(t) \in Nat
  BY <1>1, LenProperties
<1>4. \A i \in 1..n : s[i] \in Int
  BY ElementOfSeq
<1>5. \A i \in 1..Len(t) : t[i] \in S /\ t[i] \in Int
  BY <1>1, ElementOfSeq
<1>6. Increasing(c)
  <2> SUFFICES ASSUME NEW i \in 1..(n + Len(t)), NEW j \in 1..(n + Len(t)), i < j
               PROVE  c[i] < c[j]
    BY <1>2 DEF Increasing
  <2>1. CASE j <= n
    BY <1>2, <1>3, <2>1 DEF Increasing
  <2>2. CASE i <= n /\ j > n
    <3>1. i \in 1..n /\ j - n \in 1..Len(t) /\ ~(j <= n)
      BY <1>3, <2>2
    <3>2. c[i] = s[i] /\ c[j] = t[j - n] /\ t[j - n] \in S
      BY <1>2, <1>5, <2>2, <3>1
    <3> QED
      BY <3>1, <3>2
  <2>3. CASE i > n
    <3>1. i - n \in 1..Len(t) /\ j - n \in 1..Len(t) /\ i - n < j - n /\ ~(i <= n) /\ ~(j <= n)
      BY <1>3, <2>3
    <3> QED
      BY <1>1, <1>2, <3>1 DEF Increasing
  <2> QED
    BY <1>3, <2>1, <2>2, <2>3
<1>7. {c[i] : i \in 1..Len(c)} = {s[i] : i \in 1..n} \cup S
  <2>1. ASSUME NEW i \in 1..Len(c) PROVE c[i] \in {s[j] : j \in 1..n} \cup S
    <3>1. CASE i <= n
      BY <1>2, <1>3, <3>1
    <3>2. CASE ~(i <= n)
      <4>1. i - n \in 1..Len(t)
        BY <1>2, <1>3, <3>2
      <4> QED
        BY <1>2, <1>5, <3>2, <4>1
    <3> QED
      BY <3>1, <3>2
  <2>2. ASSUME NEW j \in 1..n PROVE s[j] \in {c[i] : i \in 1..Len(c)}
    <3>1. j \in 1..Len(c) /\ c[j] = s[j]
      BY <1>2, <1>3
    <3> QED
      BY <3>1
  <2>3. ASSUME NEW y \in S PROVE y \in {c[i] : i \in 1..Len(c)}
    <3>1. PICK k \in 1..Len(t) : t[k] = y
      BY <1>1
    <3>2. k + n \in 1..Len(c) /\ ~(k + n <= n) /\ (k + n) - n = k
      BY <1>2, <1>3
    <3>3. c[k + n] = y
      BY <1>2, <3>1, <3>2
    <3> QED
      BY <3>2, <3>3
  <2> QED
    BY <2>1, <2>2, <2>3
<1> QED
  BY <1>1, <1>2, <1>6, <1>7 DEF c, t

\* What is returned downwards, after greater entries, keeps that order.
LEMMA ReturnDownwards ==
    ASSUME NEW s \in Seq(Int), Decreasing(s), NEW S, Finite(S),
           \A i \in 1..Len(s) : \A y \in S : s[i] > y
    PROVE  /\ s \o Downwards(S) \in Seq(Int) /\ Decreasing(s \o Downwards(S))
           /\ \A i \in 1..Len(s \o Downwards(S)) :
                  \/ (s \o Downwards(S))[i] \in S
                  \/ \E j \in 1..Len(s) : (s \o Downwards(S))[i] = s[j]
<1> DEFINE t == Downwards(S)
           n == Len(s)
           c == s \o t
<1>1. /\ t \in Seq(Int) /\ Len(t) = Cardinality(S) /\ Decreasing(t)
      /\ {t[i] : i \in 1..Len(t)} = S
  BY DownwardsLists
<1> HIDE DEF t
<1>2. /\ c \in Seq(Int) /\ Len(c) = n + Len(t)
      /\ \A i \in 1..(n + Len(t)) : c[i] = IF i <= n THEN s[i] ELSE t[i - n]
  BY <1>1, ConcatProperties
<1> HIDE DEF c
<1>3. n \in Nat /\ Len(t) \in Nat
  BY <1>1, LenProperties
<1>4. \A i \in 1..Len(t) : t[i] \in S
  BY <1>1
<1>5. Decreasing(c)
  <2> SUFFICES ASSUME NEW i \in 1..(n + Len(t)), NEW j \in 1..(n + Len(t)), i < j
               PROVE  c[i] > c[j]
    BY <1>2 DEF Decreasing
  <2>1. CASE j <= n
    <3>1. i \in 1..n /\ j \in 1..n /\ i <= n
      BY <1>3, <2>1
    <3>2. c[i] = s[i] /\ c[j] = s[j]
      BY <1>2, <2>1, <3>1
    <3>3. s[i] > s[j]
      BY <3>1 DEF Decreasing
    <3> QED
      BY <3>2, <3>3
  <2>2. CASE i <= n /\ j > n
    <3>1. i \in 1..n /\ j - n \in 1..Len(t) /\ ~(j <= n)
      BY <1>3, <2>2
    <3>2. c[i] = s[i] /\ c[j] = t[j - n] /\ t[j - n] \in S
      BY <1>2, <1>4, <2>2, <3>1
    <3> QED
      BY <3>1, <3>2
  <2>3. CASE i > n
    <3>1. i - n \in 1..Len(t) /\ j - n \in 1..Len(t) /\ i - n < j - n /\ ~(i <= n) /\ ~(j <= n)
      BY <1>3, <2>3
    <3> QED
      BY <1>1, <1>2, <3>1 DEF Decreasing
  <2> QED
    BY <1>3, <2>1, <2>2, <2>3
<1>6. ASSUME NEW i \in 1..Len(c)
      PROVE  c[i] \in S \/ \E j \in 1..n : c[i] = s[j]
  <2>1. CASE i <= n
    BY <1>2, <1>3, <2>1
  <2>2. CASE ~(i <= n)
    <3>1. i - n \in 1..Len(t)
      BY <1>2, <1>3, <2>2
    <3> QED
      BY <1>2, <1>4, <2>2, <3>1
  <2> QED
    BY <2>1, <2>2
<1> QED
  BY <1>2, <1>5, <1>6 DEF c, t

-----------------------------------------------------------------------------
(* The list and the query.                                                 *)

\* What is read has come from one of the cases, whatever has changed since.
Origin ==
    \E c \in Cases :
        /\ c.q = q /\ c.blank = blank
        /\ q.reader \notin Positional => c.list = stay

\* Entries are finitely many, and those that have been there all the time are there.
ListInv == list \in SUBSET Nat /\ IsFiniteSet(list) /\ stay \subseteq list

OfPages == q.reader \in OfPosts \cup OfNames

LEMMA ReadersDiffer ==
    /\ q.reader \in OfPosts => q.reader \notin OfNames /\ q.reader \notin Positional /\ ~OfDate
    /\ q.reader \in OfNames => q.reader \notin OfPosts /\ ~OfDate
    /\ History => ~OfPages /\ ~OfDate /\ q.reader \notin Positional
BY DEF OfPosts, OfNames, Positional, OfDate, History, OfOperations, OfPages

LEMMA ListInit == Init => Origin /\ ListInv
<1> SUFFICES ASSUME Init PROVE Origin /\ ListInv
  OBVIOUS
<1>1. PICK c \in Cases : q = c.q /\ list = c.list /\ blank = c.blank /\ stay = list
  BY DEF Init, Begin
<1>2. IsFiniteSet(c.list) /\ c.list \subseteq Nat
  BY CasesAssumption
<1> QED
  BY <1>1, <1>2 DEF Origin, ListInv

LEMMA PlacesType ==
    ASSUME ListInv
    PROVE  Places \subseteq Nat
<1>1. Cardinality(list) \in Nat
  BY FS_CardinalityType DEF ListInv
<1> QED
  BY <1>1 DEF Places

LEMMA ListStep == Origin /\ ListInv /\ [Next]_vars => Origin' /\ ListInv'
<1> SUFFICES ASSUME Origin, ListInv, [Next]_vars PROVE Origin' /\ ListInv'
  OBVIOUS
<1>1. CASE Appear
  <2>1. PICK x \in Places : list' = list \cup {x}
    BY <1>1 DEF Appear
  <2>2. x \in Nat
    BY PlacesType
  <2>3. list' \in SUBSET Nat /\ IsFiniteSet(list')
    BY <2>1, <2>2, FS_AddElement DEF ListInv
  <2> QED
    BY <1>1, <2>1, <2>3 DEF Appear, Origin, ListInv
<1>2. CASE Disappear
  <2>1. PICK x \in list : list' = list \ {x} /\ stay' = stay \ {x}
    BY <1>2 DEF Disappear
  <2>2. list' \in SUBSET Nat /\ IsFiniteSet(list')
    BY <2>1, FS_RemoveElement DEF ListInv
  <2> QED
    BY <1>2, <2>1, <2>2 DEF Disappear, Origin, ListInv
<1>3. CASE UNCHANGED <<q, list, blank, stay>>
  BY <1>3 DEF Origin, ListInv
<1>4. CASE SwitchNode \/ Read
  <2>1. UNCHANGED <<q, list, blank, stay>>
    BY <1>4 DEF SwitchNode, Read, ReadHistory, Count, FirstIndex, Created, Latest, Search, Back,
                PageUp, PageDown, ReadPage, ReadDiscussions, ReadDates, FirstGuess, NextGuess, world
  <2> QED
    BY <2>1, <1>3
<1> QED
  BY <1>1, <1>2, <1>3, <1>4 DEF Next, World, vars

\* What the cases say of a query for pages.
LEMMA PageQueries ==
    ASSUME Origin, OfPages
    PROVE  /\ q.start \in Nat \cup {None} /\ q.stop \in Nat \cup {None}
           /\ q.stop # None => q.start < q.stop
           /\ q.limit \in (Nat \ {0}) \cup {None} /\ q.batch \in Nat
           /\ q.own \in BOOLEAN /\ q.inclusive \in BOOLEAN
           /\ q.reader # "discussions" =>
                 \E c \in Cases : c.q = q /\ c.blank = blank /\ PageCase(c)
                                  /\ (q.reader \notin Positional => c.list = stay)
           /\ q.reader = "discussions" =>
                 \E c \in Cases : c.q = q /\ c.blank = blank /\ DiscussionCase(c) /\ c.list = stay
<1>1. PICK c \in Cases : /\ c.q = q /\ c.blank = blank
                         /\ q.reader \notin Positional => c.list = stay
  BY DEF Origin
<1>2. q.reader # "discussions" => PageCase(c)
  BY <1>1, CasesAssumption DEF OfPages
<1>3. q.reader = "discussions" => DiscussionCase(c) /\ q.reader \notin Positional
  BY <1>1, CasesAssumption DEF Positional
<1>4. Numbers(c)
  BY <1>2, <1>3 DEF PageCase, DiscussionCase
<1> QED
  BY <1>1, <1>2, <1>3, <1>4, Zenon DEF Numbers

\* A page from the cursor on.
LEMMA PageFromCursor ==
    ASSUME ListInv, h.cursor \in Nat \cup {None}, NEW n \in Int
    PROVE  /\ Finite(Onward) /\ Onward \subseteq list
           /\ FromCursor(n) \subseteq Onward /\ FromCursor(n) \subseteq list
           /\ Finite(FromCursor(n))
           /\ \A x \in FromCursor(n) : x # h.cursor => h.cursor < x
           /\ \A x \in AfterFirst(FromCursor(n)) : h.cursor < x
<1>1. Onward \in SUBSET list /\ list \in SUBSET Int
  BY DEF Onward, ListInv
<1>2. Finite(Onward)
  BY <1>1, FS_Subset DEF Finite, ListInv
<1>3. FromCursor(n) \subseteq Onward /\ Finite(FromCursor(n))
  BY <1>2, LowestTakes DEF FromCursor
<1>4. \A x \in Onward : h.cursor <= x /\ (x # h.cursor => h.cursor < x)
  BY <1>1 DEF Onward, None, ListInv
<1>5. ASSUME NEW x \in AfterFirst(FromCursor(n)) PROVE h.cursor < x
  <2>0. x \in FromCursor(n) /\ \E y \in FromCursor(n) : y < x
    BY <1>3, AfterFirstDrops
  <2>1. PICK y \in FromCursor(n) : y < x
    BY <2>0
  <2>2. y \in Onward /\ x \in Onward
    BY <1>3, <2>0
  <2>3. y \in Int /\ x \in Int
    BY <1>1, <2>2
  <2>4. h.cursor <= y /\ h.cursor \in Int
    BY <1>4, <2>2 DEF None
  <2> QED
    BY <2>1, <2>3, <2>4
<1> QED
  BY <1>1, <1>2, <1>3, <1>4, <1>5

-----------------------------------------------------------------------------
(* Pages come in order.                                                    *)

PageStates ==
    [pc : {"pages", "done", "partial", "failed"}, cursor : Nat \cup {None}, first : BOOLEAN,
     size : Int]

\* Nothing that was returned is behind the cursor, and the last post is the cursor.
PageInv ==
    /\ h \in PageStates
    /\ out \in Seq(Int)
    /\ ~OfTags => Increasing(out)
    /\ ~OfTags /\ At("pages") =>
          /\ \A i \in 1..Len(out) : out[i] <= h.cursor
          /\ h.first => out = <<>>
          /\ q.reader \in {"ranked", "account"} /\ out # <<>> => h.cursor = LastOf(out)

\* A step that returns new entries, and moves the cursor with them.
Moves(new) ==
    /\ Return(new) /\ new \in SUBSET list
    /\ h' \in PageStates
    /\ ~OfTags => \A i \in 1..Len(out), x \in new : out[i] < x
    /\ ~OfTags /\ At("pages")' =>
          /\ ~h'.first
          /\ h.cursor <= h'.cursor /\ \A x \in new : x <= h'.cursor
          /\ q.reader \in {"ranked", "account"} =>
                h'.cursor = IF new # {} THEN Top(new) ELSE h.cursor

LEMMA MovesKeepOrder ==
    ASSUME ListInv, PageInv, At("pages"), NEW new, Moves(new), UNCHANGED <<q, world>>
    PROVE  PageInv'
<1>1. Finite(new) /\ Cardinality(new) \in Nat
  <2>1. new \in SUBSET list /\ IsFiniteSet(list) /\ list \in SUBSET Int
    BY DEF Moves, ListInv
  <2>2. IsFiniteSet(new)
    BY <2>1, FS_Subset
  <2> QED
    BY <2>1, <2>2, FS_CardinalityType DEF Finite
<1>2. out' = out \o Sorted(new) /\ Sorted(new) \in Seq(Int) /\ Len(Sorted(new)) = Cardinality(new)
  BY <1>1, SortedLists DEF Moves, Return
<1>3. out' \in Seq(Int) /\ Len(out') = Len(out) + Cardinality(new) /\ Len(out) \in Nat
  <2>1. out \in Seq(Int)
    BY DEF PageInv
  <2> QED
    BY <1>2, <2>1, ConcatProperties, LenProperties
<1>4. OfTags' <=> OfTags
  BY DEF OfTags
<1>5. ASSUME ~OfTags
      PROVE  /\ Increasing(out')
             /\ {out'[i] : i \in 1..Len(out')} = {out[i] : i \in 1..Len(out)} \cup new
  <2>1. out \in Seq(Int) /\ Increasing(out) /\ \A i \in 1..Len(out) : \A x \in new : out[i] < x
    BY <1>5 DEF PageInv, Moves
  <2>2. /\ Increasing(out \o Sorted(new))
        /\ {(out \o Sorted(new))[i] : i \in 1..Len(out \o Sorted(new))} =
              {out[i] : i \in 1..Len(out)} \cup new
    BY <1>1, <2>1, ReturnInOrder
  <2> QED
    BY <1>2, <2>2
<1>6. ASSUME ~OfTags, At("pages")', NEW i \in 1..Len(out')
      PROVE  out'[i] <= h'.cursor
  <2>1. CASE out'[i] \in new
    BY <1>6, <2>1 DEF Moves
  <2>2. CASE out'[i] \notin new
    <3>1. PICK j \in 1..Len(out) : out'[i] = out[j]
      BY <1>5, <1>6, <2>2
    <3>2. out[j] <= h.cursor /\ out[j] \in Int
      BY <1>6, ElementOfSeq DEF PageInv
    <3>3. h.cursor <= h'.cursor /\ h.cursor \in Int /\ h'.cursor \in Int
      BY <1>6 DEF Moves, PageInv, PageStates, None
    <3> QED
      BY <3>1, <3>2, <3>3
  <2> QED
    BY <2>1, <2>2
<1>7. ASSUME ~OfTags, At("pages")', q.reader \in {"ranked", "account"}, out' # <<>>
      PROVE  h'.cursor = LastOf(out')
  <2>1. CASE new = {}
    <3>1. Cardinality(new) = 0
      BY <2>1, FS_EmptySet
    <3>2. Sorted(new) = <<>>
      BY <1>2, <3>1, EmptySeq
    <3>3. out' = out
      BY <1>2, <3>2, ConcatEmptySeq DEF PageInv
    <3> QED
      BY <1>7, <2>1, <3>3 DEF Moves, PageInv, LastOf
  <2>2. CASE new # {}
    <3>1. Cardinality(new) # 0
      BY <1>1, <2>2, FS_EmptySet DEF Finite
    <3>2. Len(out') \in 1..Len(out') /\ Len(out') > Len(out)
      BY <1>1, <1>3, <3>1
    <3>3. h'.cursor = Top(new) /\ Top(new) \in new
      BY <1>1, <1>7, <2>2, Extremes DEF Moves
    <3>4. PICK k \in 1..Len(out') : out'[k] = Top(new)
      BY <1>5, <1>7, <3>3
    <3>5. out'[k] <= out'[Len(out')]
      BY <1>3, <1>5, <1>7, <3>2, ElementOfSeq DEF Increasing
    <3>6. out'[Len(out')] <= h'.cursor
      BY <1>6, <1>7, <3>2
    <3>7. out'[k] \in Int /\ out'[Len(out')] \in Int
      BY <1>3, <3>2, ElementOfSeq
    <3> QED
      BY <3>3, <3>4, <3>5, <3>6, <3>7 DEF LastOf
  <2> QED
    BY <2>1, <2>2
<1>8. h' \in PageStates /\ (~OfTags /\ At("pages")' => ~h'.first)
  BY DEF Moves
<1> QED
  BY <1>3, <1>4, <1>5, <1>6, <1>7, <1>8, Zenon DEF PageInv

\* An entry that may be returned.
Owed(x) == Asked(x) \/ (q.stop # None /\ q.stop \notin stay)

\* What was returned was asked for, and is no more than was asked for; and the reader has not
\* gone beyond its stop, or out of its thread.
AskedInv ==
    /\ \A i \in 1..Len(out) : Owed(out[i])
    /\ q.reader \notin Positional => \A i \in 1..Len(out) : out[i] \in list
    /\ q.limit # None => Len(out) <= q.limit
    /\ At("pages") =>
          /\ ~OfTags => q.start <= h.cursor
          /\ q.stop \in stay => h.cursor < q.stop
          /\ Threads => h.cursor = q.start \/ h.cursor \in Discussion(q.start)

\* New entries that may be returned.
Fits(new) ==
    /\ \A x \in new : Owed(x)
    /\ q.limit # None => Cardinality(new) <= Left
    /\ At("pages")' =>
          /\ q.stop \in stay => h'.cursor < q.stop
          /\ Threads => h'.cursor \in Discussion(q.start)

LEMMA NothingFits ==
    ASSUME OfPages, Origin, AskedInv, PageInv, h'.pc # "pages"
    PROVE  Fits({})
<1>1. Cardinality({}) = 0
  BY FS_EmptySet
<1>2. q.limit # None => 0 <= Left
  <2>1. q.limit # None => q.limit \in Nat /\ Len(out) <= q.limit
    BY PageQueries DEF AskedInv
  <2>2. Len(out) \in Nat
    BY LenProperties DEF PageInv
  <2> QED
    BY <2>1, <2>2 DEF Left
<1> QED
  BY <1>1, <1>2 DEF Fits, At

\* A reader without a stop.
LEMMA PlainFits ==
    ASSUME Origin, ListInv, PageInv, AskedInv, At("pages"), OfPages, q.reader # "discussions",
           q.stop = None, NEW new \in SUBSET list,
           \A x \in new : h.cursor <= x /\ x \notin blank /\ Wanted(x),
           q.limit # None => Cardinality(new) <= Left
    PROVE  Fits(new)
<1>1. ~Threads /\ ~OfTags /\ ~History /\ q.reader # "reverse"
  BY ReadersDiffer DEF Threads, OfTags, History, OfOperations
<1>2. q.stop \notin stay
  BY DEF None, ListInv
<1>3. q.start <= h.cursor /\ q.start \in Int /\ h.cursor \in Int
  BY <1>1, PageQueries DEF AskedInv, PageInv, PageStates, None
<1>4. ASSUME NEW x \in new PROVE q.start <= x
  <2>1. x \in Int /\ h.cursor <= x
    BY DEF ListInv
  <2> QED
    BY <1>3, <2>1
<1>5. \A x \in new : Asked(x)
  BY <1>1, <1>4 DEF Asked, InRange, Lower, Upper, Key
<1> QED
  BY <1>1, <1>2, <1>5 DEF Fits, Owed

LEMMA StepKeepsAsked ==
    ASSUME Origin, ListInv, PageInv, AskedInv, OfPages, At("pages"), NEW new, Moves(new), Fits(new),
           UNCHANGED <<q, world>>
    PROVE  AskedInv'
<1>1. Finite(new) /\ Cardinality(new) \in Nat
  <2>1. new \in SUBSET list /\ IsFiniteSet(list) /\ list \in SUBSET Int
    BY DEF Moves, ListInv
  <2>2. IsFiniteSet(new)
    BY <2>1, FS_Subset
  <2> QED
    BY <2>1, <2>2, FS_CardinalityType DEF Finite
<1> DEFINE t == Sorted(new)
<1>2. /\ out' = out \o t /\ t \in Seq(Int) /\ Len(t) = Cardinality(new)
      /\ {t[i] : i \in 1..Len(t)} = new
  BY <1>1, SortedLists DEF Moves, Return
<1> HIDE DEF t
<1>3. out \in Seq(Int) /\ Len(out) \in Nat
  BY LenProperties DEF PageInv
<1>4. /\ Len(out') = Len(out) + Len(t)
      /\ \A i \in 1..(Len(out) + Len(t)) : out'[i] = IF i <= Len(out) THEN out[i] ELSE t[i - Len(out)]
  BY <1>2, <1>3, ConcatProperties
<1>5. ASSUME NEW i \in 1..Len(out')
      PROVE  out'[i] \in new \/ \E j \in 1..Len(out) : out'[i] = out[j]
  <2>1. CASE i <= Len(out)
    BY <1>3, <1>4, <2>1
  <2>2. CASE ~(i <= Len(out))
    <3>1. i - Len(out) \in 1..Len(t)
      BY <1>1, <1>2, <1>3, <1>4, <2>2
    <3> QED
      BY <1>1, <1>2, <1>3, <1>4, <2>2, <3>1
  <2> QED
    BY <2>1, <2>2
<1>6. \A i \in 1..Len(out') : Owed(out'[i])
  BY <1>5 DEF AskedInv, Fits
<1>7. ASSUME NEW i \in 1..Len(out') PROVE Owed(out[i])'
  <2>1. list' = list /\ block' = block /\ chosen' = chosen /\ blank' = blank /\ stay' = stay /\ q' = q
    BY DEF world
  <2>2. Discussion(q.start)' = Discussion(q.start)
    BY <2>1 DEF Discussion
  <2>3. Owed(out'[i])
    BY <1>6
  <2> QED
    BY <2>1, <2>2, <2>3
       DEF Owed, Asked, InRange, Lower, Upper, Key, Place, ByIndex, History, OfKind, Wanted
<1>8. q.reader \notin Positional => \A i \in 1..Len(out') : out'[i] \in list'
  BY <1>5 DEF AskedInv, Moves, world
<1>9. q.limit # None => Len(out') <= q.limit
  <2>1. q.limit \in Nat \cup {None}
    BY PageQueries
  <2> QED
    BY <1>1, <1>2, <1>3, <1>4, <2>1 DEF Fits, Left
<1>10. At("pages")' =>
          /\ ~OfTags => q.start <= h'.cursor
          /\ q.stop \in stay => h'.cursor < q.stop
          /\ Threads => h'.cursor \in Discussion(q.start)
  <2>1. q.start \in Int /\ h.cursor \in Int /\ h'.cursor \in Int
    BY PageQueries DEF PageInv, Moves, PageStates, None
  <2> QED
    BY <2>1 DEF AskedInv, Moves, Fits
<1>11. (Threads' <=> Threads) /\ (OfTags' <=> OfTags) /\ Discussion(q.start)' = Discussion(q.start)
  BY DEF Threads, OfTags, Discussion, world
<1>12. q' = q /\ stay' = stay
  BY DEF world
<1>13. At("pages")' =>
          /\ (~OfTags => q.start <= h.cursor)'
          /\ (q.stop \in stay => h.cursor < q.stop)'
          /\ (Threads => h.cursor = q.start \/ h.cursor \in Discussion(q.start))'
  BY <1>10, <1>11, <1>12
<1> QED
  BY <1>7, <1>8, <1>9, <1>12, <1>13 DEF AskedInv

\* New entries that are after the cursor are after all that was returned.
LEMMA AfterCursor ==
    ASSUME PageInv, At("pages"), ~OfTags, NEW new \in SUBSET Nat,
           out = <<>> \/ \A x \in new : h.cursor < x
    PROVE  \A i \in 1..Len(out), x \in new : out[i] < x
<1> SUFFICES ASSUME NEW i \in 1..Len(out), NEW x \in new PROVE out[i] < x
  OBVIOUS
<1>1. out # <<>> /\ out[i] \in Int
  BY ElementOfSeq DEF PageInv
<1>2. out[i] <= h.cursor /\ h.cursor < x /\ h.cursor \in Int /\ x \in Int
  BY <1>1 DEF PageInv, PageStates, None
<1> QED
  BY <1>1, <1>2

\* No entry of a page is before the cursor; and after it are all, when it is not the first.
LEMMA CursorFirst ==
    ASSUME ListInv, h.cursor \in Nat \cup {None}, NEW n \in Int
    PROVE  /\ \A x \in FromCursor(n) : h.cursor <= x
           /\ FromCursor(n) # {} /\ Bottom(FromCursor(n)) # h.cursor =>
                 \A x \in FromCursor(n) : h.cursor < x
<1>1. FromCursor(n) \subseteq list /\ Finite(FromCursor(n))
  BY PageFromCursor
<1>2. \A x \in FromCursor(n) : x # h.cursor => h.cursor < x
  BY PageFromCursor
<1>3. FromCursor(n) \in SUBSET Int /\ h.cursor \in Int
  BY <1>1 DEF None, Finite
<1>4. ASSUME NEW x \in FromCursor(n) PROVE h.cursor <= x
  <2>1. x \in Int /\ h.cursor \in Int
    BY <1>3
  <2>2. x # h.cursor => h.cursor < x
    BY <1>2
  <2> QED
    BY <2>1, <2>2
<1>5. ASSUME FromCursor(n) # {}, Bottom(FromCursor(n)) # h.cursor, NEW x \in FromCursor(n)
      PROVE  h.cursor < x
  <2>1. Bottom(FromCursor(n)) \in FromCursor(n) /\ Bottom(FromCursor(n)) <= x
    BY <1>1, <1>5, Extremes
  <2> QED
    BY <1>2, <1>3, <1>5, <2>1
<1> QED
  BY <1>4, <1>5

\* A reader that ends with this page.
LEMMA LastMoves ==
    ASSUME ListInv, PageInv, At("pages"), NEW new \in SUBSET list,
           OfTags \/ out = <<>> \/ \A x \in new : h.cursor < x,
           Return(new), NEW pc \in {"done", "partial", "failed"}, h' = [h EXCEPT !.pc = pc]
    PROVE  Moves(new)
<1>1. h' \in PageStates /\ h'.pc = pc
  BY DEF PageInv, PageStates
<1>2. new \in SUBSET Nat
  BY DEF ListInv
<1> QED
  BY <1>1, <1>2, AfterCursor DEF Moves, At

\* A reader that may go on: the cursor goes to an entry that is not before it.
LEMMA GoingMoves ==
    ASSUME ListInv, PageInv, At("pages"), NEW new \in SUBSET list,
           OfTags \/ out = <<>> \/ \A x \in new : h.cursor < x,
           NEW more \in BOOLEAN, NEW cursor \in Nat \cup {None}, NEW size \in Int,
           Return(new), GoOn(more, cursor, size),
           more /\ ~OfTags => h.cursor <= cursor /\ \A x \in new : x <= cursor,
           q.reader \in {"ranked", "account"} =>
               cursor = IF new # {} THEN Top(new) ELSE h.cursor
    PROVE  Moves(new)
<1>1. /\ h' \in PageStates /\ h'.cursor = cursor /\ ~h'.first
      /\ h'.pc = "pages" => more
  BY DEF PageInv, PageStates, GoOn, At
<1>2. new \in SUBSET Nat
  BY DEF ListInv
<1> QED
  BY <1>1, <1>2, AfterCursor, Zenon DEF Moves, At

\* A reader that ends with nothing new.
LEMMA EndMoves ==
    ASSUME OfPages, Origin, ListInv, PageInv, AskedInv, At("pages"), Return({}),
           NEW pc \in {"done", "partial", "failed"}, h' = [h EXCEPT !.pc = pc]
    PROVE  \E new : Moves(new) /\ Fits(new)
<1>1. h'.pc # "pages"
  BY DEF PageInv, PageStates
<1>2. Moves({}) /\ Fits({})
  BY <1>1, LastMoves, NothingFits, Zenon
<1> QED
  BY <1>2

\* Of the posts those that are wanted, as many as are left to be returned.
LEMMA TakenFits ==
    ASSUME NEW posts, Finite(posts), q.limit # None => Left \in Nat
    PROVE  /\ Taken(posts) \in SUBSET (posts \ blank)
           /\ q.limit # None => Cardinality({x \in Taken(posts) : Wanted(x)}) <= Left
<1> DEFINE named == posts \ blank
           S == {x \in named : Wanted(x)}
<1>1. Taken(posts) \in SUBSET named
  BY DEF Taken
<1>2. Finite(S)
  <2>1. S \in SUBSET posts
    OBVIOUS
  <2> QED
    BY <2>1, FS_Subset DEF Finite
<1>3. ASSUME q.limit # None
      PROVE  {x \in Taken(posts) : Wanted(x)} = Lowest(S, Left)
  <2>1. \A x : {y \in Below(named, x) : Wanted(y)} = Below(S, x)
    BY DEF Below
  <2>2. Taken(posts) = {x \in named : Cardinality(Below(S, x)) < Left}
    BY <1>3, <2>1 DEF Taken
  <2> QED
    BY <2>2 DEF Lowest
<1>4. ASSUME q.limit # None PROVE Cardinality(Lowest(S, Left)) <= Left
  <2>1. Left \in Nat
    BY <1>4
  <2> QED
    BY <1>2, <2>1, LowestFits
<1> QED
  BY <1>1, <1>3, <1>4

\* What the cases say of a query that is not for discussions.
LEMMA PlainQueries ==
    ASSUME Origin, OfPages, q.reader # "discussions"
    PROVE  /\ q.reader \notin {"accounts", "reputations"} => q.stop = None
           /\ q.reader \in {"ranked", "account", "communities"} => q.limit # None
           /\ q.reader \in Positional => q.limit = None
           /\ q.reader \in Positional \cup {"accounts", "reputations"} => q.batch > 1
           /\ q.reader = "communities" => ~q.inclusive
           /\ q.reader # "blog" => \A x : Wanted(x)
           /\ q.reader \notin {"blog", "replies"} => blank = {}
<1>1. PICK c \in Cases : c.q = q /\ c.blank = blank /\ PageCase(c)
  BY PageQueries
<1> QED
  BY <1>1 DEF PageCase, Wanted

\* What is left to be returned is not less than nothing.
LEMMA LeftType ==
    ASSUME Origin, OfPages, PageInv, AskedInv
    PROVE  q.limit # None => Left \in Nat
<1>1. q.limit \in Nat \cup {None} /\ Len(out) \in Nat
  BY PageQueries, LenProperties DEF PageInv
<1> QED
  BY <1>1 DEF AskedInv, Left

\* Continue, with the page or what is after its first entry.
LEMMA ContinueMoves ==
    ASSUME Origin, ListInv, PageInv, AskedInv, At("pages"), q.reader \in {"blog", "feed", "replies"},
           NEW n \in Int, NEW page, page \in {{}, FromCursor(n)}, NEW rest,
           rest \in SUBSET page, out = <<>> \/ \A x \in rest : h.cursor < x,
           Continue(page, rest)
    PROVE  \E new : Moves(new) /\ Fits(new)
<1> DEFINE taken == Taken(rest)
           new == {x \in taken : Wanted(x)}
<1>0. Page \in Int /\ h.cursor \in Nat \cup {None} /\ h.size \in Int
  BY PageAssumption DEF PageInv, PageStates
<1>1. /\ page \in SUBSET list /\ \A x \in page : h.cursor <= x
  BY <1>0, PageFromCursor, CursorFirst
<1>2. taken \in SUBSET rest
  BY DEF Taken
<1>a. OfPages /\ q.reader # "discussions" /\ q.reader \notin {"ranked", "account"}
  BY DEF OfPages, OfPosts
<1>3. CASE page = {} \/ (h.cursor # None /\ Cardinality(page) = 1)
  <2>1. Done /\ Return({})
    BY <1>3 DEF Continue
  <2> QED
    BY <1>a, <2>1, EndMoves, Zenon DEF Done
<1>4. CASE ~(page = {} \/ (h.cursor # None /\ Cardinality(page) = 1))
  <2> DEFINE cursor == IF taken = {} THEN h.cursor ELSE Top(taken)
  <2>1. Return(new) /\ GoOn(~FullWith(new), cursor, h.size)
    BY <1>4 DEF Continue
  <2>2. taken \in SUBSET list /\ new \in SUBSET taken
    BY <1>1, <1>2
  <2>3. Finite(taken)
    <3>1. list \in SUBSET Int /\ IsFiniteSet(list)
      BY DEF ListInv
    <3>2. taken \in SUBSET Int /\ IsFiniteSet(taken)
      BY <2>2, <3>1, FS_Subset
    <3> QED
      BY <3>2 DEF Finite
  <2>4. /\ cursor \in Nat \cup {None} /\ h.cursor <= cursor
        /\ \A x \in new : x <= cursor
    <3>1. CASE taken = {}
      BY <1>0, <2>2, <3>1 DEF None
    <3>2. CASE taken # {}
      <4>1. Top(taken) \in taken /\ \A x \in taken : Top(taken) >= x
        BY <2>3, <3>2, Extremes
      <4>2. Top(taken) \in Nat /\ h.cursor <= Top(taken)
        BY <1>1, <1>2, <2>2, <4>1 DEF ListInv
      <4> QED
        BY <2>2, <3>2, <4>1, <4>2 DEF ListInv
    <3> QED
      BY <3>1, <3>2
  <2>5. out = <<>> \/ \A x \in new : h.cursor < x
    BY <1>2, <2>2
  <2>6. new \in SUBSET list
    BY <2>2
  <2>a. /\ \A x \in new : h.cursor <= x /\ x \notin blank /\ Wanted(x)
        /\ q.limit # None => Cardinality(new) <= Left
    <3>1. rest \in SUBSET Int /\ rest \in SUBSET list /\ IsFiniteSet(list)
      BY <1>1 DEF ListInv
    <3>2. Finite(rest)
      BY <3>1, FS_Subset DEF Finite
    <3>3. taken \in SUBSET (rest \ blank) /\ (q.limit # None => Cardinality(new) <= Left)
      BY <1>a, <3>2, LeftType, TakenFits
    <3> QED
      BY <1>1, <3>3
  <2> HIDE DEF taken, new, cursor
  <2>7. (~FullWith(new)) \in BOOLEAN
    BY DEF FullWith, Full
  <2>8. Moves(new)
    BY <1>0, <1>a, <2>1, <2>4, <2>5, <2>6, <2>7, GoingMoves
  <2>9. q.stop = None
    BY <1>a, PlainQueries
  <2>10. Fits(new)
    BY <1>a, <2>6, <2>9, <2>a, PlainFits
  <2> QED
    BY <2>8, <2>10
<1> QED
  BY <1>3, <1>4

LEMMA RoomType ==
    ASSUME PageInv, q.limit \in Nat \cup {None}
    PROVE  Room \in Int /\ Page \in Int /\ Len(out) \in Nat /\ (q.limit # None => Left \in Int)
BY PageAssumption, LenProperties DEF PageInv, Room, Left, Least, None

LEMMA BlogMoves ==
    ASSUME Origin, ListInv, PageInv, AskedInv, At("pages"), Blog
    PROVE  \E new : Moves(new) /\ Fits(new)
<1> DEFINE n == IF q.own THEN Page ELSE Room
           page == FromCursor(n)
           rest == IF h.cursor # None THEN AfterFirst(page) ELSE page
<1>1. OfPages /\ q.reader = "blog"
  BY DEF Blog, OfPages, OfPosts
<1>2. n \in Int
  BY <1>1, PageQueries, RoomType
<1>3. h.cursor \in Nat \cup {None}
  BY DEF PageInv, PageStates
<1>4. rest \in SUBSET page /\ \A x \in rest : h.cursor < x
  <2>1. Finite(page) /\ page \subseteq list
    BY <1>2, <1>3, PageFromCursor
  <2>2. AfterFirst(page) \in SUBSET page /\ \A x \in AfterFirst(page) : h.cursor < x
    BY <1>2, <1>3, <2>1, PageFromCursor, AfterFirstDrops
  <2>3. h.cursor = None => \A x \in page : h.cursor < x
    <3>1. \A x \in list : None < x
      BY DEF None, ListInv
    <3> QED
      BY <2>1, <3>1
  <2> QED
    BY <2>2, <2>3
<1>5. Continue(page, rest)
  BY DEF Blog
<1> HIDE DEF n, page, rest
<1> QED
  BY <1>1, <1>2, <1>4, <1>5, ContinueMoves DEF page

LEMMA FeedMoves ==
    ASSUME Origin, ListInv, PageInv, AskedInv, At("pages"), Feed \/ Replies
    PROVE  \E new : Moves(new) /\ Fits(new)
<1> DEFINE page == IF q.reader = "replies" /\ h.cursor = None THEN {} ELSE FromCursor(Room)
           rest == IF out # <<>> THEN AfterFirst(page) ELSE page
<1>1. OfPages /\ q.reader \in {"feed", "replies"}
  BY DEF Feed, Replies, OfPages, OfPosts
<1>2. Room \in Int
  BY <1>1, PageQueries, RoomType
<1>3. h.cursor \in Nat \cup {None}
  BY DEF PageInv, PageStates
<1>4. rest \in SUBSET page /\ (out = <<>> \/ \A x \in rest : h.cursor < x)
  <2>1. Finite(page)
    BY <1>2, <1>3, PageFromCursor, FS_EmptySet DEF Finite
  <2>2. AfterFirst(page) \in SUBSET page
    BY <2>1, AfterFirstDrops
  <2>3. \A x \in AfterFirst(page) : h.cursor < x
    BY <1>2, <1>3, <2>2, PageFromCursor
  <2> QED
    BY <2>2, <2>3
<1>5. Continue(page, rest)
  BY DEF Feed, Replies
<1>6. page \in {{}, FromCursor(Room)}
  OBVIOUS
<1> HIDE DEF page, rest
<1> QED
  BY <1>1, <1>2, <1>4, <1>5, <1>6, ContinueMoves

LEMMA PostsMove ==
    ASSUME Origin, ListInv, PageInv, AskedInv, At("pages"), RankedPosts \/ AccountPosts
    PROVE  \E new : Moves(new) /\ Fits(new)
<1>1. OfPages /\ q.reader \in {"ranked", "account"} /\ ~OfTags
  BY DEF RankedPosts, AccountPosts, OfPages, OfPosts, OfTags
<1>2. q.limit \in Nat \ {0} /\ (MorePosts \/ PostsFail)
  BY <1>1, PageQueries DEF PageCase, RankedPosts, AccountPosts
<1>3. h.cursor \in Nat \cup {None} /\ h.size \in Int /\ Left \in Int /\ Page \in Int
  BY <1>2, RoomType DEF PageInv, PageStates, None
<1>4. CASE PostsFail
  <2>1. PICK pc \in {"done", "partial", "failed"} : h' = [h EXCEPT !.pc = pc]
    BY <1>4 DEF PostsFail
  <2> QED
    BY <1>1, <1>4, <2>1, EndMoves, Zenon DEF PostsFail
<1>5. CASE MorePosts
  <2> DEFINE page == FromCursor(h.size)
             double == page # {} /\ out # <<>> /\ Bottom(page) = LastOf(out)
             other == IF double THEN AfterFirst(page) ELSE page
             new == Lowest(other, Left)
             cursor == IF new # {} THEN Top(new) ELSE h.cursor
             size == Least(Page, Left - Cardinality(new) + 1)
  <2>1. Return(new) /\ GoOn(new # {} /\ ~FullWith(new), cursor, size)
    <3>1. out # <<>> => LastOf(out) = h.cursor
      BY <1>1 DEF PageInv
    <3> QED
      BY <1>5, <3>1 DEF MorePosts
  <2>2. Finite(page) /\ page \subseteq list
    BY <1>3, PageFromCursor
  <2>3. AfterFirst(page) \in SUBSET page /\ Finite(AfterFirst(page))
    BY <2>2, AfterFirstDrops
  <2>4. other \in SUBSET page /\ Finite(other)
    BY <2>2, <2>3
  <2>5. new \in SUBSET other /\ Finite(new)
    BY <1>3, <2>4, LowestTakes
  <2>6. Cardinality(new) \in Nat
    BY <2>5, FS_CardinalityType DEF Finite
  <2>7. size \in Int
    BY <1>3, <2>6 DEF Least
  <2>8. out = <<>> \/ \A x \in other : h.cursor < x
    <3> SUFFICES ASSUME out # <<>> PROVE \A x \in other : h.cursor < x
      OBVIOUS
    <3>1. h.cursor = LastOf(out)
      BY <1>1 DEF PageInv
    <3>2. CASE double
      <4>1. \A x \in AfterFirst(page) : h.cursor < x
        BY <1>3, PageFromCursor
      <4> QED
        BY <3>2, <4>1
    <3>3. CASE ~double
      <4>1. page = {} \/ Bottom(page) # h.cursor
        BY <3>1, <3>3
      <4>2. \A x \in page : h.cursor < x
        BY <1>3, <4>1, CursorFirst
      <4> QED
        BY <3>3, <4>2
    <3> QED
      BY <3>2, <3>3
  <2>9. /\ cursor \in Nat \cup {None} /\ h.cursor <= cursor
        /\ \A x \in new : x <= cursor
    <3>1. CASE new = {}
      BY <1>3, <3>1 DEF None
    <3>2. CASE new # {}
      <4>1. Top(new) \in new /\ \A x \in new : Top(new) >= x
        BY <2>5, <3>2, Extremes
      <4>2. Top(new) \in page
        BY <2>4, <2>5, <4>1
      <4>3. Top(new) \in Nat /\ h.cursor <= Top(new)
        BY <1>3, <2>2, <4>2, CursorFirst DEF ListInv
      <4>4. \A x \in new : x \in Int
        BY <2>5 DEF Finite
      <4> QED
        BY <3>2, <4>1, <4>3, <4>4
    <3> QED
      BY <3>1, <3>2
  <2>10. new \in SUBSET list /\ (out = <<>> \/ \A x \in new : h.cursor < x)
    BY <2>2, <2>4, <2>5, <2>8
  <2>11. cursor = IF new # {} THEN Top(new) ELSE h.cursor
    OBVIOUS
  <2>a. /\ \A x \in new : h.cursor <= x
        /\ q.limit # None => Cardinality(new) <= Left
    <3>1. \A x \in page : h.cursor <= x
      BY <1>3, CursorFirst
    <3>2. Left \in Nat
      BY <1>1, <1>2, LeftType DEF None
    <3> QED
      BY <2>4, <2>5, <3>1, <3>2, LowestFits
  <2> HIDE DEF page, double, other, new, cursor, size
  <2>12. (new # {} /\ ~FullWith(new)) \in BOOLEAN
    OBVIOUS
  <2>13. Moves(new)
    BY <1>3, <2>1, <2>7, <2>9, <2>10, <2>11, <2>12, GoingMoves
  <2>14. q.stop = None /\ blank = {} /\ (\A x : Wanted(x)) /\ q.reader # "discussions"
    BY <1>1, PlainQueries
  <2>15. Fits(new)
    BY <1>1, <2>10, <2>14, <2>a, PlainFits
  <2> QED
    BY <2>13, <2>15
<1> QED
  BY <1>2, <1>4, <1>5

\* A reader whose cursor is the last entry of the page, of which it returns some.
LEMMA PageMoves ==
    ASSUME ListInv, PageInv, At("pages"), q.reader \notin {"ranked", "account"},
           NEW page, Finite(page), page \in SUBSET list, \A x \in page : h.cursor <= x,
           NEW new \in SUBSET page, out = <<>> \/ \A x \in new : h.cursor < x,
           NEW more \in BOOLEAN, NEW size \in Int,
           Return(new), (page # {} /\ GoOn(more, Top(page), size)) \/ Done
    PROVE  Moves(new)
<1>1. CASE Done
  <2>1. new \in SUBSET list
    OBVIOUS
  <2> QED
    BY <1>1, <2>1, LastMoves, Zenon DEF Done
<1>2. CASE page # {} /\ GoOn(more, Top(page), size)
  <2>1. Top(page) \in page /\ \A x \in page : Top(page) >= x
    BY <1>2, Extremes
  <2>2. Top(page) \in Nat /\ h.cursor <= Top(page)
    BY <2>1 DEF ListInv
  <2>3. \A x \in new : x <= Top(page)
    <3>1. \A x \in page : x \in Int
      BY DEF Finite
    <3> QED
      BY <2>1, <2>2, <3>1
  <2>4. new \in SUBSET list /\ Top(page) \in Nat \cup {None}
    BY <2>2
  <2> QED
    BY <1>2, <2>2, <2>3, <2>4, GoingMoves
<1> QED
  BY <1>1, <1>2

LEMMA ByPositionMoves ==
    ASSUME Origin, ListInv, PageInv, AskedInv, At("pages"), ByPosition
    PROVE  \E new : Moves(new) /\ Fits(new)
<1> DEFINE page == FromCursor(q.batch)
           new == IF h.first THEN page ELSE AfterFirst(page)
           more == TRUE
<1>1. OfPages /\ q.reader \in Positional /\ q.reader \notin {"ranked", "account"} /\ ~OfTags
  BY DEF ByPosition, OfPages, OfNames, OfTags, Positional
<1>2. q.batch \in Nat /\ q.batch > 1
  BY <1>1, PageQueries DEF PageCase, OfTags, Positional
<1>3. h.cursor \in Nat \cup {None} /\ h.size \in Int
  BY DEF PageInv, PageStates
<1>4. Finite(page) /\ page \in SUBSET list /\ \A x \in page : h.cursor <= x
  BY <1>2, <1>3, PageFromCursor, CursorFirst
<1>5. AfterFirst(page) \in SUBSET page /\ \A x \in AfterFirst(page) : h.cursor < x
  BY <1>2, <1>3, <1>4, PageFromCursor, AfterFirstDrops
<1>6. new \in SUBSET page /\ (out = <<>> \/ \A x \in new : h.cursor < x)
  BY <1>1, <1>5 DEF PageInv
<1>7. Return(new) /\ ((page # {} /\ GoOn(TRUE, Top(page), h.size)) \/ Done)
  <2>1. Cardinality(page) >= q.batch => page # {}
    BY <1>2, FS_EmptySet
  <2> QED
    BY <2>1 DEF ByPosition
<1> HIDE DEF page, new
<1>8. Moves(new)
  BY <1>1, <1>3, <1>4, <1>6, <1>7, PageMoves
<1>9. q.stop = None /\ q.limit = None /\ blank = {} /\ (\A x : Wanted(x)) /\ q.reader # "discussions"
  BY <1>1, PlainQueries DEF Positional
<1>10. new \in SUBSET list /\ \A x \in new : h.cursor <= x
  BY <1>4, <1>6
<1>11. Fits(new)
  BY <1>1, <1>9, <1>10, PlainFits
<1> QED
  BY <1>8, <1>11

LEMMA CommunitiesMove ==
    ASSUME Origin, ListInv, PageInv, AskedInv, At("pages"), Communities
    PROVE  \E new : Moves(new) /\ Fits(new)
<1> DEFINE page == FromCursor(h.size)
           seen == Len(out) + Cardinality(page)
           new == Lowest(page, Left)
           more == seen < q.limit
           size == IF seen + h.size > q.limit THEN q.limit - seen ELSE h.size
<1>1. OfPages /\ q.reader = "communities"
  BY DEF Communities, OfPages, OfNames
<1>2. q.limit \in Nat \ {0} /\ ~q.inclusive
  BY <1>1, PageQueries DEF PageCase
<1>3. h.cursor \in Nat \cup {None} /\ h.size \in Int /\ Left \in Int /\ Len(out) \in Nat
  BY <1>2, RoomType DEF PageInv, PageStates, None
<1>4. Finite(page) /\ page \in SUBSET list /\ \A x \in page : h.cursor <= x
  BY <1>3, PageFromCursor, CursorFirst
<1>5. \A x \in page : h.cursor < x
  <2>1. \A x \in Onward : h.cursor < x
    BY <1>2, <1>3 DEF Onward, None, ListInv
  <2> QED
    BY <1>3, <2>1, PageFromCursor
<1>6. new \in SUBSET page
  BY <1>3, <1>4, LowestTakes
<1>7. Cardinality(page) \in Nat
  BY <1>4, FS_CardinalityType DEF Finite
<1>8. size \in Int /\ more \in BOOLEAN
  BY <1>2, <1>3, <1>7
<1>9. (page = {} /\ Done /\ Return({})) \/ (page # {} /\ Return(new) /\ GoOn(more, Top(page), size))
  BY DEF Communities
<1> HIDE DEF page, new, seen, more, size
<1>10. CASE page # {} /\ Return(new) /\ GoOn(more, Top(page), size)
  <2>1. \A x \in new : h.cursor < x
    BY <1>5, <1>6
  <2>2. Moves(new)
    BY <1>1, <1>4, <1>6, <1>8, <1>10, <2>1, PageMoves
  <2>3. q.stop = None /\ blank = {} /\ (\A x : Wanted(x)) /\ q.reader # "discussions"
    BY <1>1, PlainQueries
  <2>4. new \in SUBSET list /\ \A x \in new : h.cursor <= x
    BY <1>4, <1>6
  <2>5. Cardinality(new) <= Left
    <3>1. Left \in Nat
      BY <1>1, <1>2, LeftType DEF None
    <3> QED
      BY <1>4, <3>1, LowestFits DEF new
  <2>6. Fits(new)
    BY <1>1, <2>3, <2>4, <2>5, PlainFits
  <2> QED
    BY <2>2, <2>6
<1>11. CASE Done /\ Return({})
  BY <1>1, <1>11, EndMoves, Zenon DEF Done
<1> QED
  BY <1>9, <1>10, <1>11

\* Of some names those up to the stop, and as many as are left; when the stop is one of them
\* but is not taken, there is no more to be returned.
LEMMA UpToStopTakes ==
    ASSUME Origin, OfPages, PageInv, AskedInv, NEW names, Finite(names)
    PROVE  /\ UpToStop(names) \in SUBSET names
           /\ q.limit # None => Cardinality(UpToStop(names)) <= Left
           /\ q.stop \in names => /\ \A x \in UpToStop(names) : x <= q.stop
                                 /\ Stopped(UpToStop(names))
<1> DEFINE before == {x \in names : q.stop \in names => x <= q.stop}
           new == UpToStop(names)
<1>1. before \in SUBSET names /\ (q.stop \in names => \A x \in before : x <= q.stop)
  OBVIOUS
<1>2. Finite(before)
  BY <1>1, FS_Subset DEF Finite
<1>3. q.stop \in names => q.stop \in before
  <2> SUFFICES ASSUME q.stop \in names PROVE q.stop <= q.stop
    OBVIOUS
  <2>1. q.stop \in Int
    BY DEF Finite
  <2> QED
    BY <2>1
<1>4. new = IF q.limit = None THEN before ELSE Lowest(before, Left)
  BY DEF UpToStop
<1> HIDE DEF before, new
<1>5. q.limit # None =>
          /\ Left \in Nat /\ Left = q.limit - Len(out)
          /\ q.limit \in Nat /\ Len(out) \in Nat
  <2>1. q.limit \in Nat \cup {None} /\ Len(out) \in Nat
    BY PageQueries, LenProperties DEF PageInv
  <2> QED
    BY <2>1, LeftType DEF Left
<1>6. new \in SUBSET before /\ (q.limit # None => Cardinality(new) <= Left)
  BY <1>2, <1>4, <1>5, LowestTakes, LowestFits
<1>7. q.stop \in names => Stopped(new)
  <2> SUFFICES ASSUME q.stop \in before, q.stop \notin new PROVE FullWith(new)
    BY <1>3 DEF Stopped
  <2>1. q.limit # None /\ new # before /\ new = Lowest(before, Left)
    BY <1>4
  <2>2. Cardinality(before) \in Nat /\ ~(Cardinality(before) <= Left)
    <3>1. Cardinality(before) <= Left => Lowest(before, Left) = before
      BY <1>2, <1>5, <2>1, LowestTakes
    <3> QED
      BY <1>2, <2>1, <3>1, FS_CardinalityType DEF Finite
  <2>3. Cardinality(new) = Left
    <3>1. Cardinality(new) = IF Left <= 0 THEN 0 ELSE IF Left < Cardinality(before) THEN Left
                             ELSE Cardinality(before)
      BY <1>2, <1>5, <2>1, LowestTakes
    <3> QED
      BY <1>5, <2>1, <2>2, <3>1
  <2> QED
    BY <1>5, <2>1, <2>3 DEF FullWith, Full
<1> QED
  BY <1>1, <1>6, <1>7 DEF new

LEMMA AccountsMove ==
    ASSUME Origin, ListInv, PageInv, AskedInv, At("pages"), AllAccounts \/ Reputations
    PROVE  \E new : Moves(new) /\ Fits(new)
<1> DEFINE page == FromCursor(IF q.reader = "accounts" THEN q.batch ELSE Least(q.batch, Page))
           names == IF q.reader = "reputations" /\ h.first THEN page ELSE page \ {h.cursor}
           new == UpToStop(names)
           more == /\ ~Stopped(new)
                   /\ IF q.reader = "accounts"
                      THEN Top(page) # h.cursor /\ Cardinality(page) >= q.batch
                      ELSE Cardinality(page) >= Least(q.batch, Page) /\ Top(page) # q.stop
<1>1. OfPages /\ q.reader \in {"accounts", "reputations"} /\ ~OfTags
  BY DEF AllAccounts, Reputations, OfPages, OfNames, OfTags
<1>2. q.batch \in Nat /\ q.limit \in Nat \cup {None}
  BY <1>1, PageQueries
<1>3. /\ h.cursor \in Nat \cup {None} /\ h.size \in Int /\ Page \in Int
      /\ q.limit # None => Left \in Int
  BY <1>2, RoomType DEF PageInv, PageStates
<1>4. /\ Finite(page) /\ page \in SUBSET list /\ \A x \in page : h.cursor <= x
      /\ \A x \in page : x # h.cursor => h.cursor < x
  BY <1>2, <1>3, PageFromCursor, CursorFirst DEF Least
<1>5. names \in SUBSET page /\ (out = <<>> \/ \A x \in names : h.cursor < x)
  BY <1>1, <1>4 DEF PageInv
<1>6. Finite(names)
  BY <1>4, <1>5, FS_Subset DEF Finite
<1>7. /\ new \in SUBSET names /\ (q.limit # None => Cardinality(new) <= Left)
      /\ q.stop \in names => (\A x \in new : x <= q.stop) /\ Stopped(new)
  BY <1>1, <1>6, UpToStopTakes
<1>12. \A x, y : x \in page /\ y \in list /\ h.cursor < y /\ y <= x => y \in page
  <2> SUFFICES ASSUME NEW x \in page, NEW y \in list, h.cursor < y, y <= x PROVE y \in page
    OBVIOUS
  <2> DEFINE n == IF q.reader = "accounts" THEN q.batch ELSE Least(q.batch, Page)
  <2>1. n \in Int
    BY <1>2, <1>3 DEF Least
  <2>2. y \in Onward /\ Finite(Onward) /\ Onward \subseteq list
    BY <1>3, <2>1, PageFromCursor DEF Onward
  <2>a. page = Lowest(Onward, n)
    BY DEF FromCursor
  <2> HIDE DEF page, n
  <2>3. y \in Int /\ x \in Int /\ page = Lowest(Onward, n)
    BY <1>4, <2>a DEF ListInv
  <2>4. x = y \/ y < x
    BY <2>3
  <2> QED
    BY <2>1, <2>2, <2>3, <2>4, LowestTakes
<1>8. \/ (Failed \/ Done) /\ Return({})
      \/ page # {} /\ Return(new) /\ GoOn(more, Top(page), h.size)
  <2>1. CASE AllAccounts
    <3>1. q.reader = "accounts"
      BY <2>1 DEF AllAccounts
    <3>2. (~Stopped(new) /\ Top(page) # h.cursor /\ Cardinality(page) >= q.batch) = more
      BY <3>1
    <3> QED
      BY <2>1, <3>1, <3>2 DEF AllAccounts
  <2>2. CASE Reputations
    <3>1. q.reader = "reputations"
      BY <2>2 DEF Reputations
    <3>2. (~Stopped(new) /\ Cardinality(page) >= Least(q.batch, Page) /\ Top(page) # q.stop) = more
      BY <3>1
    <3> QED
      BY <2>2, <3>1, <3>2 DEF Reputations
  <2> QED
    BY <2>1, <2>2
<1>9. more \in BOOLEAN
  OBVIOUS
<1> HIDE DEF page, names, new, more
<1>10. CASE page # {} /\ Return(new) /\ GoOn(more, Top(page), h.size)
  <2>1. new \in SUBSET page /\ (out = <<>> \/ \A x \in new : h.cursor < x)
    BY <1>5, <1>7
  <2>2. Moves(new)
    BY <1>1, <1>3, <1>4, <1>9, <1>10, <2>1, PageMoves
  <2>3. q.stop \in stay => /\ q.stop \in list /\ h.cursor < q.stop /\ q.stop \in Int
                           /\ q.stop \in page => q.stop \in names
    <3>1. q.stop \in stay => q.stop \in list /\ q.stop \in Int
      <4>1. stay \in SUBSET list /\ list \in SUBSET Int
        BY DEF ListInv
      <4> QED
        BY <4>1
    <3>2. q.stop \in stay => h.cursor < q.stop
      BY DEF AskedInv
    <3> QED
      BY <1>3, <3>1, <3>2 DEF names, None
  <2>4. ASSUME q.stop \in stay, NEW x \in new PROVE x <= q.stop
    <3>1. x \in page /\ x \in Int
      BY <1>4, <2>1 DEF Finite
    <3>2. CASE q.stop <= x
      <4>1. q.stop \in names
        BY <1>12, <2>3, <2>4, <3>1, <3>2
      <4> QED
        BY <1>7, <4>1
    <3> QED
      BY <2>3, <2>4, <3>1, <3>2
  <2>5. ASSUME q.stop \in stay, At("pages")' PROVE h'.cursor < q.stop
    <3>1. h'.cursor = Top(page) /\ more
      BY <1>3, <1>9, <1>10, <2>5 DEF GoOn, PageInv, PageStates, At
    <3>2. Top(page) \in page /\ Top(page) \in Int
      BY <1>4, <1>10, Extremes DEF Finite
    <3>3. CASE q.stop <= Top(page)
      <4>1. q.stop \in names
        BY <1>12, <2>3, <2>5, <3>2, <3>3
      <4>2. Stopped(new)
        BY <1>7, <4>1
      <4> QED
        BY <3>1, <4>2 DEF more
    <3> QED
      BY <2>3, <2>5, <3>1, <3>2, <3>3
  <2>6. ASSUME NEW x \in new PROVE Owed(x)
    <3>1. x \in Int /\ h.cursor <= x
      BY <1>4, <2>1 DEF Finite
    <3>2. q.start <= h.cursor /\ q.start \in Int /\ h.cursor \in Int
      BY <1>1, <1>3, PageQueries DEF AskedInv, None
    <3>3. q.start <= x
      BY <3>1, <3>2
    <3>4. blank = {} /\ Wanted(x) /\ q.reader # "reverse" /\ ~History
      BY <1>1, PlainQueries, ReadersDiffer
    <3>5. q.stop \in stay \/ q.stop = None => Asked(x)
      BY <1>1, <2>4, <3>3, <3>4 DEF Asked, InRange, Lower, Upper, Key
    <3> QED
      BY <3>5 DEF Owed
  <2>7. ~Threads
    BY <1>1 DEF Threads
  <2>8. Fits(new)
    BY <1>7, <2>5, <2>6, <2>7 DEF Fits
  <2> QED
    BY <2>2, <2>8
<1>11. CASE (Failed \/ Done) /\ Return({})
  <2>1. PICK pc \in {"done", "partial", "failed"} : h' = [h EXCEPT !.pc = pc]
    BY <1>11 DEF Failed, Done
  <2> QED
    BY <1>1, <1>11, <2>1, EndMoves, Zenon
<1> QED
  BY <1>8, <1>10, <1>11

-----------------------------------------------------------------------------
(* Threads.                                                                *)

\* Replies are numbered from the post on, each after what it replies to.
ThreadInv ==
    Threads =>
        /\ list = 1..Cardinality(list)
        /\ DOMAIN block = list
        /\ \A x \in list : block[x] \in Nat /\ block[x] < x

LEMMA ThreadInit == Init => ThreadInv
<1> SUFFICES ASSUME Init, Threads PROVE ThreadInv
  BY DEF ThreadInv
<1>1. PICK c \in Cases : q = c.q /\ list = c.list /\ block = c.block
  BY DEF Init, Begin
<1>2. DiscussionCase(c)
  BY <1>1, CasesAssumption DEF Threads
<1>3. Thread(c)
  BY <1>1, <1>2 DEF DiscussionCase, Threads
<1> QED
  BY <1>1, <1>3, Zenon DEF Thread, ThreadInv

LEMMA ThreadStep == ListInv /\ ThreadInv /\ [Next]_vars => ThreadInv'
<1> SUFFICES ASSUME ListInv, ThreadInv, [Next]_vars, Threads' PROVE ThreadInv'
  BY DEF ThreadInv
<1>1. CASE Appear
  <2>1. Threads /\ q.reader # "date" /\ ~History
    BY <1>1 DEF Appear, Threads, History, OfOperations
  <2> DEFINE n == Cardinality(list)
  <2>2. n \in Nat /\ list = 1..n
    BY <2>1, FS_CardinalityType DEF ListInv, ThreadInv
  <2>3. PICK x \in Places, y \in list :
            /\ list' = list \cup {x}
            /\ block' = [z \in DOMAIN block \cup {x} |-> IF z = x THEN y ELSE block[z]]
    BY <1>1, <2>1 DEF Appear
  <2>4. x = n + 1
    BY <2>1, <2>3 DEF Places
  <2>5. Cardinality(list') = n + 1
    <3>1. x \notin list
      BY <2>2, <2>4
    <3> QED
      BY <2>3, <3>1, FS_AddElement DEF ListInv
  <2> HIDE DEF n
  <2>6. list' = 1..(n + 1)
    BY <2>2, <2>3, <2>4
  <2>7. DOMAIN block' = list'
    BY <2>1, <2>3 DEF ThreadInv
  <2>8. \A z \in list' : block'[z] \in Nat /\ block'[z] < z
    <3> SUFFICES ASSUME NEW z \in list' PROVE block'[z] \in Nat /\ block'[z] < z
      OBVIOUS
    <3>1. CASE z = x
      BY <2>2, <2>3, <2>4, <2>7, <3>1
    <3>2. CASE z # x
      <4>1. z \in list /\ block'[z] = block[z]
        BY <2>1, <2>3, <2>7, <3>2 DEF ThreadInv
      <4> QED
        BY <2>1, <4>1 DEF ThreadInv
    <3> QED
      BY <3>1, <3>2
  <2> QED
    BY <2>5, <2>6, <2>7, <2>8 DEF ThreadInv
<1>2. CASE Disappear
  BY <1>2 DEF Disappear, Threads, Positional
<1>3. CASE UNCHANGED <<q, list, block>>
  BY <1>3 DEF ThreadInv, Threads
<1>4. CASE SwitchNode \/ Read
  <2>1. UNCHANGED <<q, list, block>>
    BY <1>4 DEF SwitchNode, Read, ReadHistory, Count, FirstIndex, Created, Latest, Search, Back,
                PageUp, PageDown, ReadPage, ReadDiscussions, ReadDates, FirstGuess, NextGuess, world
  <2> QED
    BY <2>1, <1>3
<1> QED
  BY <1>1, <1>2, <1>3, <1>4 DEF Next, World, vars

\* The discussion of a post has no entry before the post.
LEMMA DiscussionFrom ==
    ASSUME ListInv, ThreadInv, Threads, NEW post \in Int
    PROVE  /\ Finite(Discussion(post)) /\ Discussion(post) \in SUBSET list
           /\ \A x \in Discussion(post) : post <= x
<1>1. Discussion(post) \in SUBSET list
  BY DEF Discussion
<1>2. Finite(Discussion(post))
  <2>1. list \in SUBSET Int /\ IsFiniteSet(list)
    BY DEF ListInv
  <2>2. IsFiniteSet(Discussion(post))
    BY <1>1, <2>1, FS_Subset
  <2> QED
    BY <1>1, <2>1, <2>2 DEF Finite
<1>3. ASSUME NEW x \in Discussion(post) PROVE post <= x
  <2> DEFINE S == {y \in list : post <= y}
  <2>1. post \in list
    BY <1>3 DEF Discussion
  <2>2. post \in S /\ S \in SUBSET list
    BY <2>1
  <2>3. \A y \in list : block[y] \in S => y \in S
    <3> SUFFICES ASSUME NEW y \in list, post <= block[y] PROVE post <= y
      OBVIOUS
    <3>1. block[y] \in Nat /\ block[y] < y
      BY DEF ThreadInv
    <3>2. y \in Int
      BY DEF ListInv
    <3> QED
      BY <3>1, <3>2
  <2> HIDE DEF S
  <2>4. x \in S
    BY <1>3, <2>1, <2>2, <2>3 DEF Discussion
  <2> QED
    BY <2>4 DEF S
<1> QED
  BY <1>1, <1>2, <1>3

-----------------------------------------------------------------------------
(* Discussions.                                                            *)

\* What a class of discussions gives has nothing before the cursor, and is part of the list.
\* (Tags are given from the first on.)
LEMMA NextPageFrom ==
    ASSUME Origin, ListInv, ThreadInv, PageInv, At("pages"), q.reader = "discussions"
    PROVE  /\ Finite(NextPage) /\ NextPage \in SUBSET list
           /\ ~OfTags => \A x \in NextPage : h.cursor <= x
<1>1. OfPages /\ h.cursor \in Nat \cup {None} /\ h.cursor \in Int
  BY DEF OfPages, OfPosts, PageInv, PageStates, None
<1>2. PICK c \in Cases : c.q = q /\ DiscussionCase(c)
  BY <1>1, PageQueries
<1>3. q.kind \in Kinds /\ q.limit \in Nat /\ q.batch \in Nat
  <2>1. q.kind \in Kinds /\ q.limit # None
    BY <1>2 DEF DiscussionCase
  <2> QED
    BY <1>1, <2>1, PageQueries
<1>4. QueryLimit \in Int
  BY <1>3, PageAssumption DEF QueryLimit, Least
<1>5. ASSUME NEW S, S \in SUBSET list
      PROVE  /\ Finite(S) /\ Limited(S) \in SUBSET S
             /\ Finite(Limited(S)) /\ Limited(S) \in SUBSET list
  <2>1. list \in SUBSET Int /\ IsFiniteSet(list)
    BY DEF ListInv
  <2>2. Finite(S)
    BY <1>5, <2>1, FS_Subset DEF Finite
  <2>3. Limited(S) \in SUBSET S /\ Finite(Limited(S))
    BY <1>4, <2>2, LowestTakes DEF Limited
  <2> QED
    BY <1>5, <2>2, <2>3
<1>6. /\ Onward \in SUBSET list /\ \A x \in Onward : h.cursor <= x
  <2>1. \A x \in list : None <= x /\ h.cursor <= h.cursor
    BY <1>1 DEF None, ListInv
  <2>2. \A x \in list : x \in Int
    BY DEF ListInv
  <2> QED
    BY <1>1, <2>1, <2>2 DEF Onward
<1>7. ASSUME NEW S, S \in SUBSET Onward
      PROVE  /\ Finite(Limited(S)) /\ Limited(S) \in SUBSET list
             /\ \A x \in Limited(S) : h.cursor <= x
  <2>1. S \in SUBSET list
    BY <1>6, <1>7
  <2>2. Limited(S) \in SUBSET S /\ Finite(Limited(S)) /\ Limited(S) \in SUBSET list
    BY <1>5, <2>1
  <2> QED
    BY <1>6, <1>7, <2>2
<1>8. \A sort : Ranked(sort) \in SUBSET Onward
  BY DEF Ranked
<1>9. \A sort, account : PostsOf(sort, account) \in SUBSET Onward
  BY <1>8 DEF PostsOf
<1>10. CASE Threads
  <2>1. /\ Discussion(h.cursor) \in SUBSET list
        /\ \A x \in Discussion(h.cursor) : h.cursor <= x
    BY <1>1, <1>10, DiscussionFrom
  <2>2. Discussion(h.cursor) \ {h.cursor} \in SUBSET Discussion(h.cursor)
    OBVIOUS
  <2>3. ASSUME NEW S \in SUBSET Discussion(h.cursor)
        PROVE  /\ Finite(Limited(S)) /\ Limited(S) \in SUBSET list
               /\ \A x \in Limited(S) : h.cursor <= x
    <3>1. S \in SUBSET list
      BY <2>1
    <3>2. Limited(S) \in SUBSET S /\ Finite(Limited(S)) /\ Limited(S) \in SUBSET list
      BY <1>5, <3>1
    <3> QED
      BY <2>1, <3>2
  <2>4. NextPage \in {Limited(Discussion(h.cursor)), Limited(Discussion(h.cursor) \ {h.cursor})}
    BY <1>10 DEF NextPage, Threads, Discussions_by_comments, Discussions_by_replies
  <2> QED
    BY <2>2, <2>3, <2>4
<1>11. CASE q.kind = "tags"
  <2>1. NextPage = Limited(list)
    BY <1>11 DEF NextPage, Trending_tags
  <2>2. OfTags
    BY <1>11 DEF OfTags
  <2> QED
    BY <1>5, <2>1, <2>2
<1>12. CASE q.kind = "author_before_date"
  <2> DEFINE page == Limited(PostsOf("posts", TRUE))
  <2>1. NextPage = page \cap chosen
    BY <1>12 DEF NextPage, Discussions_by_author_before_date
  <2>2. Finite(page) /\ page \in SUBSET list /\ \A x \in page : h.cursor <= x
    BY <1>7, <1>9
  <2> HIDE DEF page
  <2>3. page \cap chosen \in SUBSET page
    OBVIOUS
  <2>4. Finite(page \cap chosen)
    BY <2>2, <2>3, FS_Subset DEF Finite
  <2> QED
    BY <2>1, <2>2, <2>4
<1>13. CASE q.kind \in Kinds \ {"comments", "replies", "tags", "author_before_date"}
  <2>1. \E S : S \in SUBSET Onward /\ NextPage = Limited(S)
    <3>1. \/ \E sort : NextPage = Limited(Ranked(sort))
          \/ \E sort, account : NextPage = Limited(PostsOf(sort, account))
      BY <1>13 DEF Kinds, NextPage, Discussions_by_trending, Comment_discussions_by_payout,
            Post_discussions_by_payout, Discussions_by_created, Discussions_by_active,
            Discussions_by_cashout, Discussions_by_votes, Discussions_by_children,
            Discussions_by_hot, Discussions_by_promoted, Discussions_by_feed, Discussions_by_blog
    <3> QED
      BY <1>8, <1>9, <3>1
  <2> QED
    BY <1>7, <2>1
<1> QED
  BY <1>3, <1>10, <1>11, <1>12, <1>13 DEF Threads

\* The discussion of a reply is a part of that of the post.
LEMMA DiscussionWithin ==
    ASSUME NEW post, NEW x \in Discussion(post)
    PROVE  Discussion(x) \subseteq Discussion(post)
<1> SUFFICES ASSUME NEW z \in Discussion(x) PROVE z \in Discussion(post)
  OBVIOUS
<1>1. post \in list /\ x \in list /\ z \in list
  BY DEF Discussion
<1>2. ASSUME NEW S \in SUBSET list, post \in S, \A y \in list : block[y] \in S => y \in S
      PROVE  z \in S
  <2>1. x \in S
    BY <1>1, <1>2 DEF Discussion
  <2> QED
    BY <1>1, <1>2, <2>1 DEF Discussion
<1> QED
  BY <1>1, <1>2 DEF Discussion

\* Everything that a class of discussions gives is of its kind.
LEMMA NextPageKind ==
    ASSUME Origin, ListInv, ThreadInv, PageInv, AskedInv, At("pages"), q.reader = "discussions",
           NEW x \in NextPage
    PROVE  OfKind(x) /\ (Threads => x \in Discussion(q.start))
<1>1. OfPages /\ h.cursor \in Nat \cup {None} /\ h.cursor \in Int
  BY DEF OfPages, OfPosts, PageInv, PageStates, None
<1>2. PICK c \in Cases : c.q = q /\ DiscussionCase(c)
  BY <1>1, PageQueries
<1>3. q.kind \in Kinds
  BY <1>2 DEF DiscussionCase
<1>4. \A S : Limited(S) \subseteq S
  BY DEF Limited, Lowest
<1>5. CASE Threads
  <2>1. Discussion(h.cursor) \subseteq Discussion(q.start)
    BY <1>5, DiscussionWithin DEF AskedInv
  <2>2. x \in Discussion(h.cursor) /\ (q.kind = "replies" => x # h.cursor)
    <3>1. CASE q.kind = "comments"
      BY <1>4, <3>1 DEF NextPage, Discussions_by_comments
    <3>2. CASE q.kind = "replies"
      <4>1. x \in Limited(Discussion(h.cursor) \ {h.cursor})
        BY <3>2 DEF NextPage, Discussions_by_replies
      <4> QED
        BY <1>4, <4>1
    <3> QED
      BY <1>5, <3>1, <3>2 DEF Threads
  <2>3. q.kind = "replies" => x # q.start
    <3>1. ~OfTags /\ h.cursor <= x /\ x \in list
      BY <1>1, <1>5, <2>2, DiscussionFrom DEF OfTags, Threads
    <3>2. q.start <= h.cursor /\ q.start \in Int /\ x \in Int
      BY <1>1, <3>1, PageQueries DEF AskedInv, ListInv, None
    <3> QED
      BY <1>1, <2>2, <3>1, <3>2
  <2> QED
    BY <1>5, <2>1, <2>2, <2>3 DEF OfKind, Threads
<1>6. CASE ~Threads
  <2>1. q.kind \notin {"comments", "replies"}
    BY <1>6 DEF Threads
  <2>2. CASE q.kind \in {"payout", "author_before_date"}
    <3>1. CASE q.kind = "payout"
      <4>1. x \in Ranked("payout_comments")
        BY <1>4, <3>1 DEF NextPage, Comment_discussions_by_payout
      <4> QED
        BY <3>1, <4>1 DEF Ranked, OfKind, Threads
    <3>2. CASE q.kind = "author_before_date"
      <4>1. x \in chosen
        BY <3>2 DEF NextPage, Discussions_by_author_before_date
      <4> QED
        BY <3>2, <4>1 DEF OfKind, Threads
    <3> QED
      BY <2>2, <3>1, <3>2
  <2>3. CASE q.kind \in {"post_payout", "cashout"}
    <3>1. x \in Ranked("payout")
      BY <1>4, <2>3 DEF NextPage, Post_discussions_by_payout, Discussions_by_cashout
    <3> QED
      BY <2>3, <3>1 DEF Ranked, OfKind, Threads
  <2>4. CASE q.kind \in {"feed", "blog"}
    <3>1. x \in PostsOf("feed", q.own) \/ x \in PostsOf("blog", q.own)
      BY <1>4, <2>4 DEF NextPage, Discussions_by_feed, Discussions_by_blog
    <3>2. q.own
      BY <3>1 DEF PostsOf
    <3> QED
      BY <2>4, <3>2 DEF OfKind, Threads
  <2> QED
    BY <1>6, <2>1, <2>2, <2>3, <2>4 DEF OfKind
<1> QED
  BY <1>5, <1>6

LEMMA DiscussionsMove ==
    ASSUME Origin, ListInv, ThreadInv, PageInv, AskedInv, ReadDiscussions
    PROVE  \E new : Moves(new) /\ Fits(new)
<1>1. q.reader = "discussions" /\ At("pages")
  BY DEF ReadDiscussions
<1>2. ASSUME NEW page, Finite(page), page \in SUBSET list,
             ~OfTags => \A x \in page : h.cursor <= x,
             \A x \in page : OfKind(x) /\ (Threads => x \in Discussion(q.start)),
             Yield(page)
      PROVE  \E new : Moves(new) /\ Fits(new)
  <2> DEFINE double == out # <<>> /\ page # {} /\ Bottom(page) = h.cursor
             rest == IF double THEN AfterFirst(page) ELSE page
             new == Lowest(rest, Left)
             more == Cardinality(rest) < Left /\ ~(double /\ Cardinality(page) = 1)
  <2>1. \/ Done /\ Return({})
        \/ page # {} /\ Return(new) /\ GoOn(more, Top(page), h.size)
    BY <1>2 DEF Yield
  <2>2. OfPages
    BY <1>1 DEF OfPages, OfPosts
  <2>3. q.limit \in Nat
    <3>1. q.limit # None
      BY <1>1, <2>2, PageQueries DEF DiscussionCase
    <3> QED
      BY <2>2, <3>1, PageQueries
  <2>4. h.cursor \in Nat \cup {None} /\ h.cursor \in Int /\ h.size \in Int /\ Left \in Int
    BY <2>3, RoomType DEF PageInv, PageStates, None
  <2>5. AfterFirst(page) \in SUBSET page /\ Finite(AfterFirst(page))
        /\ (page # {} => AfterFirst(page) = page \ {Bottom(page)})
    BY <1>2, AfterFirstDrops
  <2>6. rest \in SUBSET page /\ Finite(rest)
    BY <1>2, <2>5
  <2>7. new \in SUBSET rest
    BY <2>4, <2>6, LowestTakes
  <2>8. ~OfTags /\ out # <<>> => \A x \in rest : h.cursor < x
    <3> SUFFICES ASSUME ~OfTags, out # <<>>, NEW x \in rest PROVE h.cursor < x
      OBVIOUS
    <3>1. x \in page /\ x \in Int /\ h.cursor <= x
      BY <1>2, <2>6 DEF Finite
    <3>2. Bottom(page) \in page /\ Bottom(page) <= x /\ h.cursor <= Bottom(page)
      BY <1>2, <3>1, Extremes
    <3>3. x # h.cursor
      <4>1. CASE double
        BY <2>5, <3>1, <4>1
      <4>2. CASE ~double
        <5>1. Bottom(page) # h.cursor
          BY <3>1, <4>2
        <5>2. Bottom(page) \in Int
          BY <1>2, <3>2 DEF Finite
        <5> QED
          BY <2>4, <3>1, <3>2, <5>1, <5>2
      <4> QED
        BY <4>1, <4>2
    <3> QED
      BY <2>4, <3>1, <3>3
  <2>9. more \in BOOLEAN
    OBVIOUS
  <2> HIDE DEF double, rest, new, more
  <2>10. CASE Done /\ Return({})
    BY <1>1, <2>2, <2>10, EndMoves, Zenon DEF Done
  <2>11. CASE page # {} /\ Return(new) /\ GoOn(more, Top(page), h.size)
    <3>1. Top(page) \in page /\ \A x \in page : Top(page) >= x
      BY <1>2, <2>11, Extremes
    <3>2. new \in SUBSET page /\ new \in SUBSET list
      BY <1>2, <2>6, <2>7
    <3>3. OfTags \/ out = <<>> \/ \A x \in new : h.cursor < x
      BY <2>7, <2>8
    <3>4. Top(page) \in Nat \cup {None} /\ (~OfTags => h.cursor <= Top(page))
      BY <1>2, <3>1 DEF ListInv
    <3>5. \A x \in new : x <= Top(page)
      <4>1. \A x \in page : x \in Int /\ Top(page) \in Int
        BY <1>2, <3>1 DEF Finite
      <4> QED
        BY <3>1, <3>2, <4>1
    <3>6. q.reader \notin {"ranked", "account"}
      BY <1>1
    <3>7. Moves(new)
      BY <1>1, <2>4, <2>9, <2>11, <3>2, <3>3, <3>4, <3>5, <3>6, GoingMoves
    <3>8. Fits(new)
      <4>1. PICK c \in Cases : c.q = q /\ c.blank = blank /\ DiscussionCase(c)
        BY <1>1, <2>2, PageQueries
      <4>2. q.stop = None /\ blank = {} /\ (OfTags => q.start = None) /\ ~History /\ q.reader # "reverse"
        BY <1>1, <4>1, ReadersDiffer, <2>2 DEF DiscussionCase, OfTags
      <4>3. q.stop \notin stay
        BY <4>2 DEF None, ListInv
      <4>4. ASSUME NEW x \in new PROVE Owed(x)
        <5>1. x \in page /\ x \in Int /\ OfKind(x)
          BY <1>2, <3>2 DEF Finite
        <5>2. ~OfTags => q.start <= x
          <6>1. ~OfTags => q.start <= h.cursor /\ h.cursor <= x
            BY <1>1, <1>2, <5>1 DEF AskedInv
          <6>2. q.start \in Int
            BY <2>2, PageQueries DEF None
          <6> QED
            BY <2>4, <5>1, <6>1, <6>2
        <5> QED
          BY <1>1, <4>2, <5>1, <5>2 DEF Owed, Asked, InRange, Lower, Upper, Key
      <4>5. Cardinality(new) <= Left
        <5>1. Left \in Nat
          BY <2>2, <2>3, LeftType DEF None
        <5> QED
          BY <2>6, <5>1, LowestFits DEF new
      <4>6. h'.cursor = Top(page)
        BY <2>11 DEF GoOn, PageInv, PageStates
      <4>7. Threads => h'.cursor \in Discussion(q.start)
        BY <1>2, <3>1, <4>6
      <4> QED
        BY <4>3, <4>4, <4>5, <4>7 DEF Fits
    <3> QED
      BY <3>7, <3>8
  <2> QED
    BY <2>1, <2>10, <2>11
<1>3. CASE Yield(NextPage)
  BY <1>1, <1>2, <1>3, NextPageFrom, NextPageKind
<1>4. CASE RequestFails
  <2>1. CASE q.kind = "tags"
    <3>1. Yield({})
      BY <1>4, <2>1 DEF RequestFails
    <3>2. Finite({})
      BY FS_EmptySet DEF Finite
    <3> QED
      BY <1>2, <3>1, <3>2
  <2>2. CASE q.kind # "tags"
    <3>1. OfPages
      BY <1>1 DEF OfPages, OfPosts
    <3> QED
      BY <1>1, <1>4, <2>2, <3>1, EndMoves, Zenon DEF RequestFails, Failed
  <2> QED
    BY <2>1, <2>2
<1> QED
  BY <1>3, <1>4 DEF ReadDiscussions

-----------------------------------------------------------------------------
(* Every reader of pages keeps the order.                                  *)

LEMMA PageInit == Init /\ OfPages => PageInv /\ AskedInv
<1> SUFFICES ASSUME Init, OfPages PROVE PageInv /\ AskedInv
  OBVIOUS
<1>1. h = FirstPage /\ out = <<>>
  BY ReadersDiffer DEF Init, Begin, OfPages, History, OfDate
<1>2. /\ q.start \in Nat \cup {None} /\ q.limit \in (Nat \ {0}) \cup {None}
      /\ q.stop \in Nat \cup {None} /\ (q.stop # None => q.start < q.stop)
  BY ListInit, PageQueries
<1>3. h \in PageStates
  BY <1>1, <1>2, PageAssumption DEF FirstPage, PageStates, Least
<1>4. out \in Seq(Int) /\ Len(out) = 0
  BY <1>1, EmptySeq
<1>5. h.cursor = q.start /\ q.start \in Int
  BY <1>1, <1>2 DEF FirstPage, None
<1>6. q.stop \in stay => h.cursor < q.stop
  <2>1. None \notin stay
    BY ListInit DEF ListInv, None
  <2> QED
    BY <1>2, <1>5, <2>1
<1>7. PageInv
  BY <1>1, <1>3, <1>4 DEF PageInv, Increasing
<1>8. q.start <= h.cursor /\ (q.limit # None => Len(out) <= q.limit)
  BY <1>2, <1>4, <1>5
<1>9. AskedInv
  BY <1>4, <1>5, <1>6, <1>8 DEF AskedInv
<1> QED
  BY <1>7, <1>9

\* What was asked for still is when the list has grown.
LEMMA AppearKeepsAsked ==
    ASSUME Origin, ListInv, ThreadInv, OfPages, PageInv, AskedInv, Appear
    PROVE  AskedInv'
<1>1. /\ UNCHANGED <<q, h, out, blank, stay>> /\ q' = q /\ h' = h /\ out' = out /\ blank' = blank
      /\ stay' = stay /\ ~History
  BY ReadersDiffer DEF Appear, OfPages
<1>2. PICK x \in Places :
          /\ list' = list \cup {x} /\ chosen' \in {chosen, chosen \cup {x}}
          /\ Threads => \E y \in list :
                block' = [z \in DOMAIN block \cup {x} |-> IF z = x THEN y ELSE block[z]]
  BY DEF Appear
<1>3. x \notin list
  <2>1. CASE Threads
    <3>1. x = Cardinality(list) + 1 /\ list = 1..Cardinality(list) /\ Cardinality(list) \in Nat
      BY <1>1, <1>2, <2>1, FS_CardinalityType DEF Places, ThreadInv, ListInv, Threads
    <3> QED
      BY <3>1
  <2>2. CASE ~Threads
    BY <1>1, <1>2, <2>2 DEF Places
  <2> QED
    BY <2>1, <2>2
<1>4. ASSUME Threads
      PROVE  \A z \in Discussion(q.start) : z \in Discussion(q.start)'
  <2>1. PICK y \in list : block' = [z \in DOMAIN block \cup {x} |-> IF z = x THEN y ELSE block[z]]
    BY <1>2, <1>4
  <2>2. \A z \in list : block'[z] = block[z]
    BY <1>3, <1>4, <2>1 DEF ThreadInv
  <2> SUFFICES ASSUME NEW z \in Discussion(q.start) PROVE z \in Discussion(q.start)'
    OBVIOUS
  <2>3. q.start \in list /\ z \in list
    BY DEF Discussion
  <2>4. ASSUME NEW S \in SUBSET list', q.start \in S, \A w \in list' : block'[w] \in S => w \in S
        PROVE  z \in S
    <3>1. S \cap list \in SUBSET list /\ q.start \in S \cap list
      BY <2>3, <2>4
    <3>2. \A w \in list : block[w] \in S \cap list => w \in S \cap list
      BY <1>2, <2>2, <2>4
    <3>3. z \in S \cap list
      BY <3>1, <3>2 DEF Discussion
    <3> QED
      BY <3>3
  <2> QED
    BY <1>1, <1>2, <2>3, <2>4 DEF Discussion
<1>5. ASSUME NEW i \in 1..Len(out) PROVE Owed(out[i])'
  <2>1. Owed(out[i])
    BY DEF AskedInv
  <2> DEFINE y == out[i]
  <2>2. y \in chosen => y \in chosen'
    BY <1>2
  <2>3. q.reader = "discussions" => (y \in chosen' => y \in chosen)
    <3> SUFFICES ASSUME q.reader = "discussions" PROVE y \in list
      BY <1>2, <1>3
    <3> QED
      BY DEF AskedInv, Positional
  <2>4. q.reader = "discussions" /\ q.kind \in {"comments", "replies"} /\ y \in Discussion(q.start) =>
            y \in Discussion(q.start)'
    BY <1>4 DEF Threads
  <2>5. y = out'[i]
    BY <1>1
  <2>6. Asked(y) => Asked(out[i])'
    <3> SUFFICES ASSUME Asked(y) PROVE Asked(out[i])'
      OBVIOUS
    <3>1. y \notin blank /\ InRange(y) /\ (q.reader # "discussions" => Wanted(y))
          /\ (q.reader = "discussions" => OfKind(y))
      BY <1>1 DEF Asked
    <3>2. InRange(out[i])'
      BY <1>1, <2>5, <3>1 DEF InRange, Lower, Upper, Key, History
    <3>3. q.reader # "discussions" => Wanted(out[i])'
      BY <1>1, <2>2, <2>5, <3>1 DEF Wanted
    <3>4. q.reader = "discussions" => OfKind(out[i])'
      BY <1>1, <2>2, <2>3, <2>4, <2>5, <3>1 DEF OfKind
    <3> QED
      BY <1>1, <2>5, <3>1, <3>2, <3>3, <3>4 DEF Asked, History
  <2> HIDE DEF y
  <2> QED
    BY <1>1, <2>1, <2>6 DEF Owed, y
<1>6. q.reader \notin Positional => \A i \in 1..Len(out') : out'[i] \in list'
  BY <1>1, <1>2 DEF AskedInv
<1>7. At("pages")' => (Threads => h.cursor = q.start \/ h.cursor \in Discussion(q.start))'
  <2>1. Threads' <=> Threads
    BY <1>1 DEF Threads
  <2> SUFFICES ASSUME At("pages")', Threads PROVE (h.cursor = q.start \/ h.cursor \in Discussion(q.start))'
    BY <2>1
  <2>2. h.cursor = q.start \/ h.cursor \in Discussion(q.start)
    BY <1>1 DEF AskedInv, At
  <2> QED
    BY <1>1, <1>4, <2>2
<1>8. At("pages")' => (~OfTags => q.start <= h.cursor)' /\ (q.stop \in stay => h.cursor < q.stop)'
  BY <1>1 DEF AskedInv, At, OfTags
<1>9. (q.limit # None => Len(out) <= q.limit)'
  BY <1>1 DEF AskedInv
<1>10. \A i \in 1..Len(out') : Owed(out[i])'
  BY <1>1, <1>5
<1> QED
  BY <1>1, <1>6, <1>7, <1>8, <1>9, <1>10 DEF AskedInv

LEMMA DisappearKeepsAsked ==
    ASSUME Origin, ListInv, OfPages, PageInv, AskedInv, Disappear
    PROVE  AskedInv'
<1>1. /\ q' = q /\ h' = h /\ out' = out /\ blank' = blank /\ chosen' = chosen
      /\ stay' \in SUBSET stay /\ q.reader \in Positional
  BY DEF Disappear
<1>2. ~History /\ ~Threads /\ q.reader # "discussions" /\ q.reader # "reverse"
  BY <1>1 DEF Positional, Threads, History, OfOperations
<1>3. q.stop = None
  BY <1>1, <1>2, PlainQueries DEF Positional
<1>4. ASSUME NEW i \in 1..Len(out) PROVE Owed(out[i])'
  <2>1. Owed(out[i])
    BY DEF AskedInv
  <2> QED
    BY <1>1, <1>2, <1>3, <2>1 DEF Owed, Asked, InRange, Lower, Upper, Key, History, Wanted
<1>5. At("pages")' =>
          /\ (~OfTags => q.start <= h.cursor)'
          /\ (q.stop \in stay => h.cursor < q.stop)'
          /\ (Threads => h.cursor = q.start \/ h.cursor \in Discussion(q.start))'
  <2>1. None \notin stay
    BY DEF ListInv, None
  <2>2. ~Threads' /\ q'.stop \notin stay'
    BY <1>1, <1>2, <1>3, <2>1 DEF Threads
  <2> QED
    BY <1>1, <2>2 DEF AskedInv, At, OfTags
<1> QED
  BY <1>1, <1>4, <1>5 DEF AskedInv

LEMMA PageStep ==
    Origin /\ ListInv /\ ThreadInv /\ OfPages /\ PageInv /\ AskedInv /\ [Next]_vars =>
        PageInv' /\ AskedInv'
<1> SUFFICES ASSUME Origin, ListInv, ThreadInv, OfPages, PageInv, AskedInv, [Next]_vars
             PROVE  PageInv' /\ AskedInv'
  OBVIOUS
<1>1. ASSUME UNCHANGED <<q, h, out>> PROVE PageInv'
  BY <1>1 DEF PageInv, PageStates, OfTags, At, LastOf
<1>2. CASE World
  <2>1. PageInv'
    BY <1>1, <1>2 DEF World, Appear, Disappear, SwitchNode
  <2>2. ~SwitchNode
    BY ReadersDiffer DEF SwitchNode
  <2> QED
    BY <1>2, <2>1, <2>2, AppearKeepsAsked, DisappearKeepsAsked DEF World
<1>3. CASE ReadPage
  <2>1. At("pages") /\ UNCHANGED <<q, world>>
    BY <1>3 DEF ReadPage
  <2>2. \E new : Moves(new) /\ Fits(new)
    BY <1>3, <2>1, BlogMoves, FeedMoves, PostsMove, ByPositionMoves, CommunitiesMove,
       AccountsMove, Zenon DEF ReadPage
  <2> QED
    BY <2>1, <2>2, MovesKeepOrder, StepKeepsAsked, Zenon
<1>4. CASE ReadDiscussions
  <2>1. At("pages") /\ UNCHANGED <<q, world>>
    BY <1>4 DEF ReadDiscussions
  <2>2. \E new : Moves(new) /\ Fits(new)
    BY <1>4, DiscussionsMove
  <2> QED
    BY <2>1, <2>2, MovesKeepOrder, StepKeepsAsked, Zenon
<1>5. ~ReadHistory /\ ~ReadDates
  BY ReadersDiffer DEF ReadHistory, ReadDates, OfDate, OfPages
<1>6. CASE UNCHANGED vars
  <2>1. AskedInv'
    BY <1>6 DEF AskedInv, vars, Owed, Asked, InRange, Lower, Upper, Key, Place, ByIndex, History,
                OfKind, Wanted, Discussion, At, OfTags, Threads
  <2> QED
    BY <1>1, <1>6, <2>1 DEF vars
<1> QED
  BY <1>2, <1>3, <1>4, <1>5, <1>6 DEF Next, Read

-----------------------------------------------------------------------------
(* No entry is lost between two pages.                                     *)

\* The entry that a list starts from need not be returned.
Begins(x) == q.reader \in OfPosts \cup {"accounts"} /\ x = q.start

\* Entries that no later page will return: a thread is one page, and the cursor of the other
\* readers is behind them (the first account of the reputations is not known yet).
Passed(x) ==
    IF Threads THEN ~h.first
    ELSE x <= h.cursor /\ ~(q.reader = "reputations" /\ h.first /\ x = h.cursor)

\* What has been passed was returned; and at the end all.
SeenInv ==
    ~disturbed /\ ~OfTags =>
        /\ At("pages") => \A x \in stay : Asked(x) /\ Passed(x) => x \in Returned \/ Begins(x)
        /\ At("done") => \A x \in stay : Asked(x) => x \in Returned \/ Excused(x)

\* A reader that goes on may return more; it asks for the entry it has returned last and one
\* more at least; and its cursor is in the list if the first of a page is dropped unseen.
Placed ==
    At("pages") =>
        /\ q.limit # None => Len(out) < q.limit
        /\ h.first => h.cursor = q.start
        /\ q.reader \in {"blog", "feed", "replies"} => h.cursor \in list \cup {None}
        /\ q.reader \in Positional /\ ~h.first /\ ~disturbed => h.cursor \in list \cap Returned
        /\ q.reader \in {"ranked", "account", "communities"} => h.size >= 1
        /\ q.reader \in {"ranked", "account"} /\ out # <<>> => h.size >= 2

\* Threads fit into a page; and a page has more posts than there are after the date.
KindInv ==
    /\ changes \in 0..MaxChanges
    /\ Threads => IF q.batch = 0 THEN q.limit <= Page
                  ELSE Cardinality(list) + MaxChanges - changes <= q.batch
    /\ q.reader = "discussions" /\ q.kind = "author_before_date" =>
          /\ \A x \in list \cap chosen, y \in list : x < y => y \in chosen
          /\ Cardinality(list \ chosen) + MaxChanges - changes < QueryLimit

\* A step that returns new entries, and leaves out none.
Covers(new) ==
    /\ Return(new) /\ new \in SUBSET list
    /\ ~disturbed /\ ~OfTags =>
          \A x \in stay : Asked(x) /\ ~Passed(x) =>
              /\ At("done")' => x \in new \/ Begins(x) \/ (FullWith(new) /\ \A y \in new : y < x)
              /\ At("pages")' /\ Passed(x)' => x \in new \/ Begins(x)
    /\ At("pages")' =>
          /\ ~h'.first /\ ~FullWith(new)
          /\ q.reader \in {"blog", "feed", "replies"} => h'.cursor \in list \cup {None}
          /\ q.reader \in Positional /\ ~disturbed => h'.cursor \in list \cap (Returned \cup new)
          /\ q.reader \in {"ranked", "account", "communities"} => h'.size >= 1
          /\ q.reader \in {"ranked", "account"} => h'.size >= 2

\* What is left of some entries when the lowest are taken is beyond all of these, of which
\* there are as many as were taken.
LEMMA LowestReaches ==
    ASSUME NEW S, Finite(S), NEW n \in Int, NEW x \in S, x \notin Lowest(S, n)
    PROVE  /\ \A y \in Lowest(S, n) : y < x
           /\ n >= 0 => Cardinality(Lowest(S, n)) = n
           /\ n < Cardinality(S)
<1>1. x \in Int /\ Cardinality(S) \in Nat
  BY FS_CardinalityType DEF Finite
<1>2. n < Cardinality(S)
  <2>1. Cardinality(S) <= n => Lowest(S, n) = S
    BY LowestTakes
  <2> QED
    BY <1>1, <2>1
<1>3. n >= 0 => Cardinality(Lowest(S, n)) = n
  <2>1. Cardinality(Lowest(S, n)) =
            IF n <= 0 THEN 0 ELSE IF n < Cardinality(S) THEN n ELSE Cardinality(S)
    BY LowestTakes
  <2> QED
    BY <1>1, <1>2, <2>1
<1>4. ASSUME NEW y \in Lowest(S, n) PROVE y < x
  <2>1. y \in S /\ y \in Int
    BY LowestTakes DEF Finite
  <2>2. ~(x < y)
    BY <1>4, LowestTakes
  <2>3. x # y
    BY <1>4
  <2> QED
    BY <1>1, <2>1, <2>2, <2>3
<1> QED
  BY <1>2, <1>3, <1>4

\* What comes after all that is left for the limit is not returned.
LEMMA CutOff ==
    ASSUME PageInv, q.limit \in Nat, Left \in Nat, NEW S, Finite(S)
    PROVE  /\ \A x \in S : x \notin Lowest(S, Left) =>
                  FullWith(Lowest(S, Left)) /\ \A y \in Lowest(S, Left) : y < x
           /\ Cardinality(S) >= Left <=> FullWith(Lowest(S, Left))
           /\ Cardinality(S) < Left => Lowest(S, Left) = S
<1> DEFINE new == Lowest(S, Left)
<1>1. Len(out) \in Nat /\ Left = q.limit - Len(out) /\ q.limit # None
  BY LenProperties DEF PageInv, Left, None
<1>2. Cardinality(S) \in Nat
  BY FS_CardinalityType DEF Finite
<1>3. Cardinality(new) = IF Left <= 0 THEN 0 ELSE IF Left < Cardinality(S) THEN Left ELSE Cardinality(S)
  BY LowestTakes
<1>4. Cardinality(S) <= Left => new = S
  BY LowestTakes
<1>5. \A x \in S : x \notin new => \A y \in new : y < x
  BY LowestReaches
<1>6. \A x \in S : x \notin new => Left < Cardinality(S)
  BY LowestReaches
<1> HIDE DEF new
<1>7. FullWith(new) <=> Len(out) + Cardinality(new) >= q.limit
  BY <1>1 DEF FullWith, Full
<1>8. Cardinality(S) >= Left <=> FullWith(new)
  BY <1>1, <1>2, <1>3, <1>7
<1>9. Cardinality(S) < Left => new = S
  BY <1>1, <1>2, <1>4
<1>10. \A x \in S : x \notin new => FullWith(new)
  BY <1>1, <1>2, <1>6, <1>8
<1> QED
  BY <1>5, <1>8, <1>9, <1>10 DEF new

\* Entries that are still to come are in the list from the cursor on.
LEMMA AheadIsOnward ==
    ASSUME Origin, OfPages, ListInv, PageInv, At("pages"), ~Threads, NEW x \in stay, ~Passed(x)
    PROVE  /\ x \in Int /\ x \in list /\ x \in Onward
           /\ h.cursor < x \/ (q.reader = "reputations" /\ h.first /\ x = h.cursor)
<1>1. x \in list /\ x \in Int /\ h.cursor \in Int
  BY DEF ListInv, PageInv, PageStates, None
<1>2. h.cursor < x \/ (q.reader = "reputations" /\ h.first /\ x = h.cursor)
  BY <1>1 DEF Passed
<1>3. q.reader = "reputations" => q.inclusive
  <2> SUFFICES ASSUME q.reader = "reputations" PROVE q.inclusive
    OBVIOUS
  <2>1. PICK c \in Cases : c.q = q /\ PageCase(c)
    BY PageQueries
  <2> QED
    BY <2>1 DEF PageCase
<1> QED
  BY <1>1, <1>2, <1>3 DEF Onward

\* The entries of a page that are still to come are among the new ones, unless the limit cuts
\* them off; and those beyond the page come after it, and are not there when it is the last.
TakesAll(page, new) ==
    ~disturbed /\ ~OfTags =>
        \A x \in stay : Asked(x) /\ ~Passed(x) =>
            /\ x \in page => x \in new \/ Begins(x) \/ (FullWith(new) /\ \A y \in new : y < x)
            /\ x \notin page => (\A y \in page : y < x) /\ (At("done")' => FullWith(new))

LEMMA PageCovers ==
    ASSUME Origin, OfPages, ListInv, PageInv, At("pages"), ~Threads, UNCHANGED <<q, world>>,
           NEW page, Finite(page), page \in SUBSET list, NEW new \in SUBSET page,
           Return(new), TakesAll(page, new),
           At("pages")' =>
               /\ ~h'.first /\ ~FullWith(new)
               /\ h'.cursor \in page \/ (h'.cursor = h.cursor /\ q.reader # "reputations")
               /\ q.reader \in {"blog", "feed", "replies"} => h'.cursor \in list \cup {None}
               /\ q.reader \in Positional /\ ~disturbed => h'.cursor \in list \cap (Returned \cup new)
               /\ q.reader \in {"ranked", "account", "communities"} => h'.size >= 1
               /\ q.reader \in {"ranked", "account"} => h'.size >= 2
    PROVE  Covers(new)
<1>1. ASSUME ~disturbed, ~OfTags, NEW x \in stay, Asked(x), ~Passed(x)
      PROVE  /\ At("done")' => x \in new \/ Begins(x) \/ (FullWith(new) /\ \A y \in new : y < x)
             /\ At("pages")' /\ Passed(x)' => x \in new \/ Begins(x)
  <2>1. x \in Int /\ (h.cursor < x \/ (q.reader = "reputations" /\ h.first /\ x = h.cursor))
    BY <1>1, AheadIsOnward
  <2>2. CASE x \in page
    <3>1. x \in new \/ Begins(x) \/ (FullWith(new) /\ \A y \in new : y < x)
      BY <1>1, <2>2 DEF TakesAll
    <3> QED
      BY <3>1
  <2>3. CASE x \notin page
    <3>1. (\A y \in page : y < x) /\ (At("done")' => FullWith(new))
      BY <1>1, <2>3 DEF TakesAll
    <3>2. ASSUME At("pages")', Passed(x)' PROVE FALSE
      <4>1. x <= h'.cursor
        <5>1. q' = q /\ ~Threads'
          BY DEF Threads
        <5> QED
          BY <3>2, <5>1 DEF Passed
      <4>2. h.cursor \in Int
        BY DEF PageInv, PageStates, None
      <4>3. CASE h'.cursor \in page
        <5>1. h'.cursor < x /\ h'.cursor \in Int
          BY <3>1, <4>3 DEF Finite
        <5> QED
          BY <2>1, <4>1, <5>1
      <4>4. CASE h'.cursor = h.cursor /\ q.reader # "reputations"
        BY <2>1, <4>1, <4>2, <4>4
      <4> QED
        BY <3>2, <4>3, <4>4
    <3> QED
      BY <3>1, <3>2
  <2> QED
    BY <2>2, <2>3
<1>2. new \in SUBSET list
  OBVIOUS
<1> QED
  BY <1>1, <1>2 DEF Covers

\* A reader that ends with an empty page, or with the entry that it knows, has nothing ahead.
LEMMA EndCovers ==
    ASSUME Origin, OfPages, ListInv, PageInv, At("pages"), Return({}), h'.pc # "pages",
           At("done")' /\ ~disturbed /\ ~OfTags => \A x \in stay : Asked(x) => Passed(x)
    PROVE  Covers({})
BY DEF Covers, At

\* A page from the cursor on is all there is, or as many entries as were asked for, none of them
\* beyond what it leaves out; the cursor comes first if it is there.
LEMMA PageReaches ==
    ASSUME ListInv, h.cursor \in Nat \cup {None}, NEW n \in Nat
    PROVE  /\ \A x \in Onward : x \notin FromCursor(n) =>
                  Cardinality(FromCursor(n)) = n /\ \A y \in FromCursor(n) : y < x
           /\ h.cursor \in Onward /\ FromCursor(n) # {} => Bottom(FromCursor(n)) = h.cursor
           /\ Cardinality(FromCursor(n)) \in Nat
           /\ Cardinality(FromCursor(n)) = 0 <=> FromCursor(n) = {}
<1> DEFINE page == FromCursor(n)
<1>1. Finite(Onward) /\ Finite(page) /\ page \subseteq Onward /\ n \in Int
  BY PageFromCursor
<1>2. ASSUME NEW x \in Onward, x \notin page PROVE Cardinality(page) = n /\ \A y \in page : y < x
  <2>1. page = Lowest(Onward, n)
    BY DEF FromCursor
  <2> HIDE DEF page
  <2>2. n >= 0
    OBVIOUS
  <2> QED
    BY <1>1, <1>2, <2>1, <2>2, LowestReaches
<1>3. ASSUME h.cursor \in Onward, page # {} PROVE Bottom(page) = h.cursor
  <2>1. Bottom(page) \in page /\ \A y \in page : Bottom(page) <= y
    BY <1>1, <1>3, Extremes
  <2>2. h.cursor <= Bottom(page)
    BY <1>1, <2>1, CursorFirst
  <2>3. Bottom(page) \in Int /\ h.cursor \in Int
    BY <1>1, <2>1 DEF None, Finite
  <2>4. h.cursor \in page
    <3>1. CASE h.cursor \notin page
      <4>1. Bottom(page) < h.cursor
        BY <1>2, <1>3, <2>1, <3>1
      <4> QED
        BY <2>2, <2>3, <4>1
    <3> QED
      BY <3>1
  <2> QED
    BY <2>1, <2>2, <2>3, <2>4
<1>4. Cardinality(page) \in Nat /\ (Cardinality(page) = 0 <=> page = {})
  BY <1>1, FS_CardinalityType, FS_EmptySet DEF Finite
<1> QED
  BY <1>2, <1>3, <1>4 DEF page

\* The limit, as long as the reader goes on, is not reached.
LEMMA SomeLeft ==
    ASSUME Origin, OfPages, PageInv, AskedInv, Placed, At("pages")
    PROVE  /\ q.limit # None => Left \in Nat /\ Left >= 1 /\ q.limit \in Nat
           /\ Page \in Nat /\ Page >= 2 /\ Len(out) \in Nat
           /\ Room \in Nat /\ Room >= 2
<1>1. q.limit \in Nat \cup {None} /\ Len(out) \in Nat
  BY PageQueries, LenProperties DEF PageInv
<1>2. q.limit # None => Len(out) < q.limit
  BY DEF Placed
<1>3. Page \in Nat /\ Page >= 2
  BY PageAssumption
<1> QED
  BY <1>1, <1>2, <1>3 DEF Left, Room, Least

\* What is returned of some posts: those wanted that the limit allows.
LEMMA TakenIs ==
    ASSUME NEW posts
    PROVE  {x \in Taken(posts) : Wanted(x)} =
               LET S == {x \in posts \ blank : Wanted(x)}
               IN IF q.limit = None THEN S ELSE Lowest(S, Left)
<1> DEFINE named == posts \ blank
           S == {x \in named : Wanted(x)}
<1>1. CASE q.limit = None
  BY <1>1 DEF Taken
<1>2. CASE q.limit # None
  <2>1. \A x : {y \in Below(named, x) : Wanted(y)} = Below(S, x)
    BY DEF Below
  <2>2. Taken(posts) = {x \in named : Cardinality(Below(S, x)) < Left}
    BY <1>2, <2>1 DEF Taken
  <2> QED
    BY <1>2, <2>2 DEF Lowest
<1> QED
  BY <1>1, <1>2

\* An entry that was asked for, of a reader that is not of discussions.
LEMMA PlainAsked ==
    ASSUME OfPages, q.reader # "discussions", NEW x, Asked(x)
    PROVE  x \notin blank /\ Wanted(x) /\ (q.stop # None => x <= q.stop)
<1>1. ~History /\ q.reader # "reverse"
  BY ReadersDiffer DEF History, OfOperations
<1> QED
  BY <1>1 DEF Asked, InRange, Upper, Key

LEMMA ContinueCovers ==
    ASSUME Origin, ListInv, PageInv, AskedInv, Placed, At("pages"),
           q.reader \in {"blog", "feed", "replies"}, UNCHANGED <<q, world>>,
           NEW n \in Nat, n >= 2, NEW rest, rest \in SUBSET FromCursor(n),
           \A x \in FromCursor(n) : h.cursor < x => x \in rest,
           Continue(FromCursor(n), rest)
    PROVE  \E new : Covers(new)
<1> DEFINE page == FromCursor(n)
           taken == Taken(rest)
           new == {x \in taken : Wanted(x)}
           cursor == IF taken = {} THEN h.cursor ELSE Top(taken)
<1>1. OfPages /\ q.reader # "discussions" /\ ~Threads /\ q.reader # "reputations"
      /\ q.reader \notin {"ranked", "account", "communities"} /\ q.reader \notin Positional
  BY DEF OfPages, OfPosts, Threads, Positional
<1>2. h.cursor \in Nat \cup {None} /\ n \in Int
  BY DEF PageInv, PageStates
<1>3. Finite(page) /\ page \in SUBSET list
  BY <1>2, PageFromCursor
<1>4. /\ \A x \in Onward : x \notin page => Cardinality(page) = n /\ \A y \in page : y < x
      /\ Cardinality(page) \in Nat /\ (Cardinality(page) = 0 <=> page = {})
  BY <1>2, PageReaches
<1>5. /\ q.limit # None => Left \in Nat /\ Left >= 1 /\ q.limit \in Nat
  BY <1>1, SomeLeft
<1>6. ASSUME NEW x \in stay, ~Passed(x) PROVE x \in Onward /\ h.cursor < x
  BY <1>1, <1>6, AheadIsOnward
<1>7. taken \in SUBSET (rest \ blank) /\ new \in SUBSET taken
  BY DEF Taken
<1>8. new = LET S == {x \in rest \ blank : Wanted(x)}
            IN IF q.limit = None THEN S ELSE Lowest(S, Left)
  BY TakenIs
<1>9. Finite(rest) /\ Finite(taken) /\ rest \in SUBSET page
  <2>1. rest \in SUBSET page /\ taken \in SUBSET page
    BY <1>7
  <2> QED
    BY <1>3, <2>1, FS_Subset DEF Finite
<1>10. \/ /\ page = {} \/ (h.cursor # None /\ Cardinality(page) = 1)
          /\ Done /\ Return({})
       \/ Return(new) /\ GoOn(~FullWith(new), cursor, h.size)
  BY DEF Continue
<1>11. \A x \in page : h.cursor < x => x \in rest
  OBVIOUS
<1> HIDE DEF page, taken, new, cursor
<1>12. CASE /\ page = {} \/ (h.cursor # None /\ Cardinality(page) = 1)
            /\ Done /\ Return({})
  <2>1. ASSUME NEW x \in stay, ~Passed(x) PROVE FALSE
    <3>1. x \in Onward /\ h.cursor < x
      BY <1>6, <2>1
    <3>2. Cardinality(page) # n
      BY <1>4, <1>12
    <3>3. x \in page
      BY <1>4, <3>1, <3>2
    <3>4. h.cursor # None /\ Cardinality(page) = 1
      BY <1>12, <3>3
    <3>5. h.cursor \in Onward
      <4>1. h.cursor \in list
        BY <3>4 DEF Placed
      <4>2. q.inclusive
        <5>1. PICK c \in Cases : c.q = q /\ PageCase(c)
          BY <1>1, PageQueries
        <5> QED
          BY <1>1, <5>1 DEF PageCase
      <4> QED
        BY <4>1, <4>2 DEF Onward
    <3>6. h.cursor \in page
      <4>1. Bottom(page) = h.cursor
        BY <1>2, <3>3, <3>5, PageReaches DEF page
      <4> QED
        BY <1>3, <3>3, <4>1, Extremes
    <3>7. PICK y : page = {y}
      BY <1>3, <3>4, FS_Singleton DEF Finite
    <3>8. x \in Int
      BY <1>3, <3>3 DEF Finite
    <3> QED
      BY <3>1, <3>3, <3>6, <3>7, <3>8
  <2>2. h'.pc # "pages"
    BY <1>12 DEF Done, PageInv, PageStates
  <2>3. \A x \in stay : Asked(x) => Passed(x)
    BY <2>1
  <2>4. Return({})
    BY <1>12
  <2>5. Covers({})
    BY <1>1, <2>2, <2>3, <2>4, EndCovers
  <2> QED
    BY <2>5
<1>13. CASE Return(new) /\ GoOn(~FullWith(new), cursor, h.size)
  <2>1. ASSUME NEW x \in stay, Asked(x), ~Passed(x), x \in page, x \notin new
        PROVE  FullWith(new) /\ \A y \in new : y < x
    <3> DEFINE S == {z \in rest \ blank : Wanted(z)}
    <3>1. x \in S
      <4>1. x \notin blank /\ Wanted(x) /\ h.cursor < x
        BY <1>1, <1>6, <2>1, PlainAsked
      <4> QED
        BY <1>11, <2>1, <4>1
    <3>2. Finite(S)
      <4>1. S \in SUBSET rest
        OBVIOUS
      <4> QED
        BY <1>9, <4>1, FS_Subset DEF Finite
    <3>3. new = IF q.limit = None THEN S ELSE Lowest(S, Left)
      BY <1>8
    <3> HIDE DEF S
    <3>4. q.limit # None /\ new = Lowest(S, Left)
      BY <2>1, <3>1, <3>3
    <3> QED
      BY <1>5, <2>1, <3>1, <3>2, <3>4, CutOff
  <2>2. h'.pc = IF ~FullWith(new) THEN "pages" ELSE "done"
    BY <1>13 DEF GoOn, At
  <2>3. ~h'.first /\ h'.cursor = cursor
    BY <1>13 DEF GoOn, PageInv, PageStates
  <2>4. TakesAll(page, new)
    <3>1. ASSUME NEW x \in stay, ~Passed(x), x \notin page PROVE \A y \in page : y < x
      BY <1>4, <1>6, <3>1
    <3>2. At("done")' => FullWith(new)
      BY <2>2 DEF At
    <3> QED
      BY <2>1, <3>1, <3>2 DEF TakesAll
  <2>5. cursor \in page \/ cursor = h.cursor
    <3>1. taken # {} => Top(taken) \in taken
      BY <1>9, Extremes
    <3> QED
      BY <1>7, <1>9, <3>1 DEF cursor
  <2>6. cursor \in list \cup {None}
    BY <1>1, <1>3, <2>5 DEF Placed
  <2>7. new \in SUBSET page
    BY <1>7, <1>9
  <2>8. At("pages")' => ~FullWith(new)
    BY <2>2 DEF At
  <2>9. Covers(new)
    BY <1>1, <1>3, <1>13, <2>3, <2>4, <2>5, <2>6, <2>7, <2>8, PageCovers
  <2> QED
    BY <2>9
<1> QED
  BY <1>10, <1>12, <1>13

LEMMA BlogCovers ==
    ASSUME Origin, ListInv, PageInv, AskedInv, Placed, At("pages"), UNCHANGED <<q, world>>,
           Blog \/ Feed \/ Replies
    PROVE  \E new : Covers(new)
<1> DEFINE n == IF q.reader = "blog" /\ q.own THEN Page ELSE Room
           page == FromCursor(n)
           rest == IF (q.reader = "blog" /\ h.cursor # None) \/ (q.reader # "blog" /\ out # <<>>)
                   THEN AfterFirst(page) ELSE page
<1>1. OfPages /\ q.reader \in {"blog", "feed", "replies"} /\ ~OfTags
  BY DEF Blog, Feed, Replies, OfPages, OfPosts, OfTags
<1>2. n \in Nat /\ n >= 2
  BY <1>1, SomeLeft
<1>3. h.cursor \in Nat \cup {None}
  BY DEF PageInv, PageStates
<1>4. Finite(page) /\ page \subseteq list /\ \A x \in page : h.cursor <= x
  BY <1>2, <1>3, PageFromCursor, CursorFirst
<1>5. Continue(page, rest)
  <2>1. CASE Blog
    BY <2>1 DEF Blog
  <2>2. CASE Feed
    BY <2>2 DEF Feed
  <2>3. CASE Replies
    <3>1. q.start # None /\ q.start <= h.cursor /\ q.start \in Nat
      <4>1. PICK c \in Cases : c.q = q /\ PageCase(c)
        BY <1>1, PageQueries
      <4>2. q.start # None
        BY <2>3, <4>1 DEF PageCase, Replies
      <4> QED
        BY <1>1, <4>2, PageQueries DEF AskedInv
    <3>2. h.cursor # None
      BY <3>1 DEF None
    <3> QED
      BY <2>3, <3>2 DEF Replies
  <2> QED
    BY <2>1, <2>2, <2>3
<1>6. rest \in SUBSET page /\ \A x \in page : h.cursor < x => x \in rest
  <2>1. AfterFirst(page) \in SUBSET page /\ (page # {} => AfterFirst(page) = page \ {Bottom(page)})
    BY <1>4, AfterFirstDrops
  <2>2. ASSUME NEW x \in page, h.cursor < x, rest = AfterFirst(page) PROVE x \in rest
    <3>1. out # <<>> => h.cursor # None
      <4> SUFFICES ASSUME out # <<>> PROVE h.cursor # None
        OBVIOUS
      <4>1. Len(out) \in Nat /\ Len(out) # 0
        BY LenProperties, EmptySeq DEF PageInv
      <4>2. out[1] <= h.cursor /\ out[1] \in list
        BY <1>1, <4>1 DEF PageInv, AskedInv, Positional
      <4>3. out[1] \in Nat
        BY <4>2 DEF ListInv
      <4> QED
        BY <4>2, <4>3 DEF None
    <3>2. CASE h.cursor = None
      BY <2>2, <3>1, <3>2
    <3>3. CASE h.cursor # None
      <4>1. h.cursor \in list /\ q.inclusive
        <5>1. PICK c \in Cases : c.q = q /\ PageCase(c)
          BY <1>1, PageQueries
        <5> QED
          BY <1>1, <3>3, <5>1 DEF PageCase, Placed
      <4>2. h.cursor \in Onward
        BY <4>1 DEF Onward
      <4>3. Bottom(page) = h.cursor
        BY <1>2, <1>3, <2>2, <4>2, PageReaches
      <4>4. x # h.cursor
        BY <1>3, <2>2 DEF None
      <4> QED
        BY <2>1, <2>2, <4>3, <4>4
    <3> QED
      BY <3>2, <3>3
  <2> QED
    BY <2>1, <2>2
<1> HIDE DEF n, rest
<1> QED
  BY <1>1, <1>2, <1>5, <1>6, ContinueCovers

LEMMA PostsCover ==
    ASSUME Origin, ListInv, PageInv, AskedInv, Placed, At("pages"), UNCHANGED <<q, world>>,
           RankedPosts \/ AccountPosts
    PROVE  \E new : Covers(new)
<1>1. OfPages /\ q.reader \in {"ranked", "account"} /\ ~OfTags /\ ~Threads /\ q.reader # "discussions"
      /\ q.reader \notin {"blog", "feed", "replies", "communities", "reputations"}
      /\ q.reader \notin Positional
  BY DEF RankedPosts, AccountPosts, OfPages, OfPosts, OfTags, Threads, Positional
<1>2. q.limit # None
  BY <1>1, PlainQueries
<1>3. q.limit \in Nat /\ Left \in Nat /\ Left >= 1 /\ Page \in Nat /\ Page >= 2
  BY <1>1, <1>2, SomeLeft
<1>4. h.cursor \in Nat \cup {None} /\ h.size \in Nat /\ h.size >= 1 /\ h.size \in Int
  <2>1. h.size \in Int /\ h.size >= 1
    BY <1>1 DEF PageInv, PageStates, Placed
  <2> QED
    BY <2>1 DEF PageInv, PageStates
<1>5. CASE PostsFail
  <2>1. h'.pc # "pages" /\ ~At("done")' /\ Return({})
    BY <1>5 DEF PostsFail, PageInv, PageStates, At
  <2>2. Covers({})
    BY <1>1, <2>1, EndCovers
  <2> QED
    BY <2>2
<1>6. CASE MorePosts
  <2> DEFINE page == FromCursor(h.size)
             double == page # {} /\ out # <<>> /\ Bottom(page) = LastOf(out)
             other == IF double THEN AfterFirst(page) ELSE page
             new == Lowest(other, Left)
             cursor == IF new # {} THEN Top(new) ELSE IF out # <<>> THEN LastOf(out) ELSE h.cursor
             size == Least(Page, Left - Cardinality(new) + 1)
  <2>1. Return(new) /\ GoOn(new # {} /\ ~FullWith(new), cursor, size)
    BY <1>6 DEF MorePosts
  <2>2. Finite(page) /\ page \in SUBSET list
    BY <1>4, PageFromCursor
  <2>3. /\ AfterFirst(page) \in SUBSET page /\ Finite(AfterFirst(page))
        /\ page # {} => /\ AfterFirst(page) = page \ {Bottom(page)}
                        /\ Cardinality(AfterFirst(page)) = Cardinality(page) - 1
    BY <2>2, AfterFirstDrops
  <2>4. other \in SUBSET page /\ Finite(other)
    BY <2>2, <2>3
  <2>5. new \in SUBSET other /\ Finite(new) /\ Cardinality(new) \in Nat
    BY <1>3, <2>4, LowestTakes, FS_CardinalityType DEF Finite
  <2>6. /\ \A x \in other : x \notin new => FullWith(new) /\ \A y \in new : y < x
        /\ ~FullWith(new) => new = other /\ Cardinality(new) < Left
    <3>1. /\ \A x \in other : x \notin new => FullWith(new) /\ \A y \in new : y < x
          /\ Cardinality(other) >= Left <=> FullWith(new)
          /\ Cardinality(other) < Left => new = other
      BY <1>3, <2>4, CutOff
    <3>2. Cardinality(other) \in Nat
      BY <2>4, FS_CardinalityType DEF Finite
    <3> HIDE DEF new, other
    <3> QED
      BY <1>3, <3>1, <3>2
  <2>7. /\ \A x \in Onward : x \notin page => Cardinality(page) = h.size /\ \A y \in page : y < x
        /\ Cardinality(page) \in Nat /\ (Cardinality(page) = 0 <=> page = {})
    BY <1>4, PageReaches
  <2>8. ASSUME NEW x \in stay, ~Passed(x) PROVE x \in Onward /\ h.cursor < x
    BY <1>1, <2>8, AheadIsOnward
  <2>9. double => Bottom(page) = h.cursor /\ h.size >= 2
    BY <1>1 DEF PageInv, Placed
  <2>10. ASSUME NEW x \in stay, ~Passed(x), x \in page PROVE x \in other
    <3>1. CASE double
      <4>1. x # h.cursor
        BY <1>4, <2>8, <2>10 DEF None
      <4> QED
        BY <2>3, <2>9, <2>10, <3>1, <4>1
    <3>2. CASE ~double
      BY <2>10, <3>2
    <3> QED
      BY <3>1, <3>2
  <2>11. ASSUME NEW x \in stay, ~Passed(x), x \notin page, ~FullWith(new) PROVE new # {}
    <3>1. Cardinality(page) = h.size /\ page # {}
      BY <1>4, <2>7, <2>8, <2>11
    <3>2. other # {}
      <4>1. CASE double
        <5>1. Cardinality(page) >= 2
          BY <2>9, <3>1, <4>1
        <5>2. Cardinality(AfterFirst(page)) = Cardinality(page) - 1
          BY <2>3, <3>1
        <5>3. Cardinality(AfterFirst(page)) # 0
          BY <2>7, <5>1, <5>2
        <5> QED
          BY <4>1, <5>3, FS_EmptySet
      <4>2. CASE ~double
        BY <3>1, <4>2
      <4> QED
        BY <4>1, <4>2
    <3> QED
      BY <2>6, <2>11, <3>2
  <2>12. new # {} => Top(new) \in page
    BY <2>4, <2>5, Extremes
  <2>13. ~FullWith(new) => size >= 2
    <3>1. PICK k : k = Cardinality(new)
      OBVIOUS
    <3> QED
      BY <1>3, <2>5, <2>6, <3>1 DEF Least
  <2> HIDE DEF page, double, other, new
  <2>14. TakesAll(page, new)
    <3>1. At("done")' => new = {} \/ FullWith(new)
      BY <2>1 DEF At, GoOn
    <3> QED
      BY <2>6, <2>7, <2>8, <2>10, <2>11, <3>1 DEF TakesAll
  <2>15. At("pages")' => /\ ~h'.first /\ ~FullWith(new) /\ h'.cursor \in page
                         /\ h'.size >= 2 /\ h'.size >= 1
    <3> SUFFICES ASSUME At("pages")' PROVE /\ ~h'.first /\ ~FullWith(new) /\ h'.cursor \in page
                                           /\ h'.size >= 2 /\ h'.size >= 1
      OBVIOUS
    <3>1. new # {} /\ ~FullWith(new)
      BY <2>1 DEF At, GoOn, PageInv, PageStates
    <3>2. ~h'.first /\ h'.cursor = Top(new) /\ h'.size = size
      BY <2>1, <3>1 DEF GoOn, PageInv, PageStates
    <3>3. size \in Int
      BY <1>3, <2>5 DEF Least
    <3> QED
      BY <2>12, <2>13, <3>1, <3>2, <3>3
  <2>16. new \in SUBSET page /\ Return(new)
    BY <2>1, <2>4, <2>5
  <2>17. Covers(new)
    BY <1>1, <2>2, <2>14, <2>15, <2>16, PageCovers
  <2> QED
    BY <2>17
<1> QED
  BY <1>5, <1>6 DEF RankedPosts, AccountPosts

LEMMA ByPositionCovers ==
    ASSUME Origin, ListInv, PageInv, AskedInv, Placed, At("pages"), UNCHANGED <<q, world>>,
           ByPosition
    PROVE  \E new : Covers(new)
<1> DEFINE page == FromCursor(q.batch)
           new == IF h.first THEN page ELSE AfterFirst(page)
<1>1. OfPages /\ q.reader \in Positional /\ ~OfTags /\ ~Threads /\ q.reader # "discussions"
      /\ q.reader \notin {"blog", "feed", "replies", "ranked", "account", "communities", "reputations"}
  BY DEF ByPosition, OfPages, OfNames, OfTags, Threads, Positional
<1>2. q.batch \in Nat /\ q.batch > 1 /\ q.limit = None /\ q.inclusive
  <2>1. PICK c \in Cases : c.q = q /\ PageCase(c)
    BY <1>1, PageQueries
  <2> QED
    BY <1>1, <2>1, PageQueries DEF PageCase
<1>3. h.cursor \in Nat \cup {None} /\ h.cursor \in Int /\ q.batch \in Int
  BY <1>2 DEF PageInv, PageStates, None
<1>4. Finite(page) /\ page \in SUBSET list
  BY <1>3, PageFromCursor
<1>5. /\ AfterFirst(page) \in SUBSET page /\ Finite(AfterFirst(page))
      /\ page # {} => /\ AfterFirst(page) = page \ {Bottom(page)}
                      /\ Cardinality(AfterFirst(page)) = Cardinality(page) - 1
  BY <1>4, AfterFirstDrops
<1>6. /\ \A x \in Onward : x \notin page => Cardinality(page) = q.batch /\ \A y \in page : y < x
      /\ Cardinality(page) \in Nat /\ (Cardinality(page) = 0 <=> page = {})
      /\ h.cursor \in Onward /\ page # {} => Bottom(page) = h.cursor
  BY <1>2, <1>3, PageReaches
<1>7. ASSUME NEW x \in stay, ~Passed(x) PROVE x \in Onward /\ h.cursor < x
  BY <1>1, <1>7, AheadIsOnward
<1>8. ~h.first /\ ~disturbed /\ page # {} => Bottom(page) = h.cursor
  <2> SUFFICES ASSUME ~h.first, ~disturbed, page # {} PROVE Bottom(page) = h.cursor
    OBVIOUS
  <2>1. h.cursor \in list
    BY <1>1 DEF Placed
  <2>2. h.cursor \in Onward
    BY <1>2, <2>1 DEF Onward
  <2> QED
    BY <1>6, <2>2
<1>9. ASSUME ~disturbed, NEW x \in stay, ~Passed(x), x \in page PROVE x \in new
  <2>1. x # h.cursor
    BY <1>3, <1>7, <1>9
  <2> QED
    BY <1>5, <1>8, <1>9, <2>1
<1>10. Return(new) /\ (IF Cardinality(page) >= q.batch THEN GoOn(TRUE, Top(page), h.size) ELSE Done)
  BY DEF ByPosition
<1>11. ~FullWith(new)
  BY <1>2 DEF FullWith, Full
<1>12. new \in SUBSET page
  BY <1>5
<1>13. Cardinality(page) >= q.batch => page # {} /\ Top(page) \in page /\ Top(page) \in new
  <2> SUFFICES ASSUME Cardinality(page) >= q.batch
               PROVE  page # {} /\ Top(page) \in page /\ Top(page) \in new
    OBVIOUS
  <2>1. page # {} /\ Cardinality(page) - 1 # 0
    BY <1>2, <1>6
  <2>2. Top(page) \in page /\ \A y \in page : Top(page) >= y
    BY <1>4, <2>1, Extremes
  <2>3. AfterFirst(page) # {}
    BY <1>5, <2>1, FS_EmptySet
  <2>4. PICK z \in AfterFirst(page) : z \in page /\ z # Bottom(page)
    BY <1>5, <2>1, <2>3
  <2>5. Bottom(page) <= z /\ Bottom(page) \in page
    BY <1>4, <2>1, <2>4, Extremes
  <2>6. Top(page) # Bottom(page)
    <3>1. z \in Int /\ Bottom(page) \in Int /\ Top(page) >= z
      BY <1>4, <2>2, <2>4, <2>5 DEF Finite
    <3> QED
      BY <2>4, <2>5, <3>1
  <2> QED
    BY <1>5, <2>1, <2>2, <2>6
<1> HIDE DEF page, new
<1>14. TakesAll(page, new)
  <2>1. At("done")' => ~(Cardinality(page) >= q.batch)
    <3>1. GoOn(TRUE, Top(page), h.size) => h'.pc = "pages"
      BY DEF At, GoOn, PageInv, PageStates
    <3> QED
      BY <1>10, <3>1 DEF At
  <2>2. At("done")' => Cardinality(page) # q.batch
    BY <1>2, <1>6, <2>1
  <2> QED
    BY <1>6, <1>7, <1>9, <2>2 DEF TakesAll
<1>15. At("pages")' => ~h'.first /\ h'.cursor \in page /\ h'.cursor \in list \cap (Returned \cup new)
  <2> SUFFICES ASSUME At("pages")'
               PROVE  ~h'.first /\ h'.cursor \in page /\ h'.cursor \in list \cap (Returned \cup new)
    OBVIOUS
  <2>1. GoOn(TRUE, Top(page), h.size) /\ Cardinality(page) >= q.batch
    BY <1>10 DEF At, Done, PageInv, PageStates
  <2>2. ~h'.first /\ h'.cursor = Top(page)
    BY <2>1 DEF GoOn, PageInv, PageStates
  <2> QED
    BY <1>4, <1>13, <2>1, <2>2
<1>16. Covers(new)
  BY <1>1, <1>4, <1>10, <1>11, <1>12, <1>14, <1>15, PageCovers
<1> QED
  BY <1>16

LEMMA CommunitiesCover ==
    ASSUME Origin, ListInv, PageInv, AskedInv, Placed, At("pages"), UNCHANGED <<q, world>>,
           Communities
    PROVE  \E new : Covers(new)
<1> DEFINE page == FromCursor(h.size)
           seen == Len(out) + Cardinality(page)
           new == Lowest(page, Left)
           size == IF seen + h.size > q.limit THEN q.limit - seen ELSE h.size
<1>1. OfPages /\ q.reader = "communities" /\ ~OfTags /\ ~Threads /\ q.reader # "discussions"
      /\ q.reader \notin {"blog", "feed", "replies", "ranked", "account", "reputations"}
      /\ q.reader \notin Positional
  BY DEF Communities, OfPages, OfNames, OfTags, Threads, Positional
<1>2. q.limit # None
  BY <1>1, PlainQueries
<1>3. /\ q.limit \in Nat /\ Left \in Nat /\ Left >= 1 /\ Len(out) \in Nat
      /\ Left = q.limit - Len(out)
  BY <1>1, <1>2, SomeLeft DEF Left
<1>4. h.cursor \in Nat \cup {None} /\ h.size \in Nat /\ h.size >= 1 /\ h.size \in Int
  <2>1. h.size \in Int /\ h.size >= 1
    BY <1>1 DEF PageInv, PageStates, Placed
  <2> QED
    BY <2>1 DEF PageInv, PageStates
<1>5. Finite(page) /\ page \in SUBSET list
  BY <1>4, PageFromCursor
<1>6. /\ \A x \in Onward : x \notin page => Cardinality(page) = h.size /\ \A y \in page : y < x
      /\ Cardinality(page) \in Nat /\ (Cardinality(page) = 0 <=> page = {})
  BY <1>4, PageReaches
<1>7. ASSUME NEW x \in stay, ~Passed(x) PROVE x \in Onward
  BY <1>1, <1>7, AheadIsOnward
<1>8. /\ new \in SUBSET page
      /\ \A x \in page : x \notin new => FullWith(new) /\ \A y \in new : y < x
      /\ Cardinality(page) >= Left <=> FullWith(new)
  BY <1>3, <1>5, CutOff, LowestTakes
<1>9. seen < q.limit <=> ~FullWith(new)
  <2>1. seen < q.limit <=> ~(Cardinality(page) >= Left)
    BY <1>3, <1>6
  <2> QED
    BY <1>8, <2>1
<1>10. seen < q.limit => size >= 1
  BY <1>3, <1>4, <1>6
<1>11. \/ page = {} /\ Done /\ Return({})
       \/ page # {} /\ Return(new) /\ GoOn(seen < q.limit, Top(page), size)
  BY DEF Communities
<1> HIDE DEF page, new, seen, size
<1>12. CASE page = {} /\ Done /\ Return({})
  <2>1. \A x \in stay : Passed(x)
    BY <1>4, <1>6, <1>7, <1>12
  <2>2. h'.pc # "pages"
    BY <1>12 DEF Done, PageInv, PageStates
  <2>3. Covers({})
    BY <1>1, <1>12, <2>1, <2>2, EndCovers
  <2> QED
    BY <2>3
<1>13. CASE page # {} /\ Return(new) /\ GoOn(seen < q.limit, Top(page), size)
  <2>1. /\ At("pages")' => seen < q.limit
        /\ At("done")' => ~(seen < q.limit)
        /\ ~h'.first /\ h'.cursor = Top(page) /\ h'.size = size
    BY <1>13 DEF GoOn, PageInv, PageStates, At
  <2>2. Top(page) \in page
    BY <1>5, <1>13, Extremes
  <2>3. TakesAll(page, new)
    BY <1>6, <1>7, <1>8, <1>9, <2>1 DEF TakesAll
  <2>4. At("pages")' => h'.size >= 1 /\ ~FullWith(new)
    BY <1>9, <1>10, <2>1
  <2>5. Covers(new)
    BY <1>1, <1>5, <1>8, <1>13, <2>1, <2>2, <2>3, <2>4, PageCovers
  <2> QED
    BY <2>5
<1> QED
  BY <1>11, <1>12, <1>13

\* Of some names, all up to the stop that the limit allows.
LEMMA UpToStopReaches ==
    ASSUME Origin, OfPages, PageInv, AskedInv, Placed, At("pages"), NEW names, Finite(names),
           NEW x \in names, q.stop \in names => x <= q.stop, x \notin UpToStop(names)
    PROVE  FullWith(UpToStop(names)) /\ \A y \in UpToStop(names) : y < x
<1> DEFINE before == {z \in names : q.stop \in names => z <= q.stop}
<1>1. x \in before /\ before \in SUBSET names
  OBVIOUS
<1>2. UpToStop(names) = IF q.limit = None THEN before ELSE Lowest(before, Left)
  BY DEF UpToStop
<1>3. Finite(before)
  BY <1>1, FS_Subset DEF Finite
<1> HIDE DEF before
<1>4. q.limit # None /\ UpToStop(names) = Lowest(before, Left)
  BY <1>1, <1>2
<1>5. q.limit \in Nat /\ Left \in Nat
  BY <1>4, SomeLeft
<1> QED
  BY <1>1, <1>3, <1>4, <1>5, CutOff

LEMMA AccountsCover ==
    ASSUME Origin, ListInv, PageInv, AskedInv, Placed, At("pages"), UNCHANGED <<q, world>>,
           AllAccounts \/ Reputations
    PROVE  \E new : Covers(new)
<1> DEFINE n == IF q.reader = "accounts" THEN q.batch ELSE Least(q.batch, Page)
           page == FromCursor(n)
           names == IF q.reader = "reputations" /\ h.first THEN page ELSE page \ {h.cursor}
           new == UpToStop(names)
           more == /\ ~Stopped(new)
                   /\ Cardinality(page) >= n
                   /\ IF q.reader = "accounts" THEN Top(page) # h.cursor ELSE Top(page) # q.stop
<1>1. OfPages /\ q.reader \in {"accounts", "reputations"} /\ ~OfTags /\ ~Threads /\ q.reader # "discussions"
      /\ q.reader \notin {"blog", "feed", "replies", "ranked", "account", "communities"}
      /\ q.reader \notin Positional
  BY DEF AllAccounts, Reputations, OfPages, OfNames, OfTags, Threads, Positional
<1>2. q.batch \in Nat /\ q.batch > 1 /\ q.stop \in Nat \cup {None}
  BY <1>1, PageQueries, PlainQueries
<1>3. h.cursor \in Nat \cup {None} /\ h.cursor \in Int
  BY DEF PageInv, PageStates, None
<1>4. n \in Nat /\ n >= 2 /\ n \in Int
  BY <1>2, PageAssumption DEF Least
<1> HIDE DEF n
<1>5. /\ Finite(page) /\ page \in SUBSET list /\ \A x \in page : h.cursor <= x
  BY <1>3, <1>4, PageFromCursor, CursorFirst
<1>6. /\ \A x \in Onward : x \notin page => Cardinality(page) = n /\ \A y \in page : y < x
      /\ Cardinality(page) \in Nat /\ (Cardinality(page) = 0 <=> page = {})
  BY <1>3, <1>4, PageReaches
<1>7. ASSUME NEW x \in stay, ~Passed(x)
      PROVE  /\ x \in Onward /\ x \in Int
             /\ h.cursor < x \/ (q.reader = "reputations" /\ h.first /\ x = h.cursor)
  BY <1>1, <1>7, AheadIsOnward
<1>8. names \in SUBSET page /\ Finite(names)
  <2>1. names \in SUBSET page
    OBVIOUS
  <2> QED
    BY <1>5, <2>1, FS_Subset DEF Finite
<1>9. new \in SUBSET names
  BY <1>1, <1>8, UpToStopTakes
<1>10. ASSUME NEW x \in stay, ~Passed(x), x \in page PROVE x \in names
  <2>1. CASE h.cursor < x
    <3>1. x # h.cursor
      BY <1>3, <2>1
    <3> QED
      BY <1>10, <3>1
  <2>2. CASE q.reader = "reputations" /\ h.first
    BY <1>10, <2>2
  <2> QED
    BY <1>7, <1>10, <2>1, <2>2
<1>11. \/ page = {} /\ (Failed \/ Done) /\ Return({})
       \/ page # {} /\ Return(new) /\ GoOn(more, Top(page), h.size)
  <2>1. CASE AllAccounts
    <3>1. q.reader = "accounts" /\ n = q.batch
      BY <2>1 DEF AllAccounts, n
    <3>2. (~Stopped(new) /\ Top(page) # h.cursor /\ Cardinality(page) >= q.batch) = more
      BY <3>1
    <3> QED
      BY <2>1, <3>1, <3>2 DEF AllAccounts
  <2>2. CASE Reputations
    <3>1. q.reader = "reputations" /\ n = Least(q.batch, Page)
      BY <2>2 DEF Reputations, n
    <3>2. (~Stopped(new) /\ Cardinality(page) >= Least(q.batch, Page) /\ Top(page) # q.stop) = more
      BY <3>1
    <3> QED
      BY <2>2, <3>1, <3>2 DEF Reputations
  <2> QED
    BY <2>1, <2>2
<1>12. more \in BOOLEAN
  OBVIOUS
<1>a. more <=> /\ ~Stopped(new) /\ Cardinality(page) >= n
               /\ IF q.reader = "accounts" THEN Top(page) # h.cursor ELSE Top(page) # q.stop
  OBVIOUS
<1> HIDE DEF page, names, new, more
<1>13. CASE page = {} /\ (Failed \/ Done) /\ Return({})
  <2>1. \A x \in stay : Passed(x)
    BY <1>4, <1>6, <1>7, <1>13
  <2>2. h'.pc # "pages"
    BY <1>13 DEF Done, Failed, PageInv, PageStates
  <2>3. Covers({})
    BY <1>1, <1>13, <2>1, <2>2, EndCovers
  <2> QED
    BY <2>3
<1>14. CASE page # {} /\ Return(new) /\ GoOn(more, Top(page), h.size)
  <2>1. /\ At("pages")' => more
        /\ At("done")' => ~more
        /\ ~h'.first /\ h'.cursor = Top(page)
    BY <1>12, <1>14 DEF GoOn, PageInv, PageStates, At
  <2>2. Top(page) \in page /\ \A y \in page : Top(page) >= y
    BY <1>5, <1>14, Extremes
  <2>3. ASSUME NEW x \in stay, Asked(x), ~Passed(x), x \in page, x \notin new
        PROVE  FullWith(new) /\ \A y \in new : y < x
    <3>1. q.stop \in names => x <= q.stop
      <4>1. None \notin names
        BY <1>5, <1>8 DEF ListInv, None
      <4> QED
        BY <1>1, <2>3, <4>1, PlainAsked
    <3>2. x \in names
      BY <1>10, <2>3
    <3> QED
      BY <1>1, <1>8, <2>3, <3>1, <3>2, UpToStopReaches DEF new
  <2>4. ASSUME NEW x \in stay, Asked(x), ~Passed(x), x \notin page, ~more PROVE FullWith(new)
    <3>1. Cardinality(page) = n /\ \A y \in page : y < x
      BY <1>6, <1>7, <2>4
    <3>2. q.stop \notin page
      <4> SUFFICES ASSUME q.stop \in page PROVE FALSE
        OBVIOUS
      <4>a. q.stop \in Nat /\ q.stop < x
        BY <1>5, <3>1 DEF ListInv
      <4>1. q.stop \in Int /\ q.stop # None /\ q.stop < x
        BY <4>a DEF None
      <4>2. x <= q.stop
        BY <1>1, <2>4, <4>1, PlainAsked
      <4> QED
        BY <1>7, <2>4, <4>1, <4>2
    <3>3. Top(page) # h.cursor
      <4> SUFFICES ASSUME Top(page) = h.cursor PROVE FALSE
        OBVIOUS
      <4>1. \A y \in page : y \in Int /\ h.cursor <= y /\ h.cursor >= y
        BY <1>5, <2>2 DEF Finite
      <4>2. \A y \in page : y = h.cursor
        BY <1>3, <4>1
      <4>3. page = {h.cursor}
        BY <1>14, <4>2
      <4>4. Cardinality(page) = 1
        BY <4>3, FS_Singleton
      <4> QED
        BY <1>4, <3>1, <4>4
    <3>4. Stopped(new)
      <4>1. Cardinality(page) >= n
        BY <1>4, <3>1
      <4>2. Top(page) # q.stop
        BY <2>2, <3>2
      <4> QED
        BY <1>a, <2>4, <3>3, <4>1, <4>2
    <3> QED
      BY <1>8, <1>9, <3>2, <3>4 DEF Stopped
  <2>5. TakesAll(page, new)
    BY <1>6, <1>7, <2>1, <2>3, <2>4 DEF TakesAll
  <2>6. At("pages")' => ~FullWith(new)
    BY <1>a, <2>1 DEF Stopped
  <2>7. new \in SUBSET page
    BY <1>8, <1>9
  <2>8. Covers(new)
    BY <1>1, <1>5, <1>14, <2>1, <2>2, <2>5, <2>6, <2>7, PageCovers
  <2> QED
    BY <2>8
<1> QED
  BY <1>11, <1>13, <1>14

\* The limit of a query is one at least, and two when something has been returned.
LEMMA QueryLimitType ==
    ASSUME Origin, OfPages, PageInv, AskedInv, Placed, At("pages"), q.reader = "discussions"
    PROVE  /\ QueryLimit \in Nat /\ QueryLimit >= 1 /\ (out # <<>> => QueryLimit >= 2)
           /\ Left \in Nat /\ Left >= 1 /\ q.limit \in Nat
           /\ q.batch = 0 => QueryLimit = Least(q.limit, Page)
           /\ q.batch # 0 => QueryLimit = q.batch
<1>1. PICK c \in Cases : c.q = q /\ DiscussionCase(c)
  BY PageQueries
<1>2. q.limit # None /\ q.batch # 1 /\ q.batch \in Nat
  BY <1>1, PageQueries DEF DiscussionCase
<1>3. Left \in Nat /\ Left >= 1 /\ q.limit \in Nat /\ Page \in Nat /\ Page >= 2 /\ Len(out) \in Nat
  BY <1>2, SomeLeft
<1>4. Len(out) < q.limit /\ (out # <<>> => Len(out) # 0)
  BY <1>2, EmptySeq DEF Placed, PageInv
<1> QED
  BY <1>2, <1>3, <1>4 DEF QueryLimit, Least

\* A class gives the posts of its kind from the cursor on.
LEMMA KindIsListed ==
    ASSUME Origin, OfPages, q.reader = "discussions", ~Threads, ~OfTags,
           q.kind # "author_before_date"
    PROVE  \E S \in SUBSET Onward :
              /\ NextPage = Limited(S)
              /\ \A x \in Onward : OfKind(x) => x \in S
<1>1. PICK c \in Cases : c.q = q /\ DiscussionCase(c)
  BY PageQueries
<1>2. q.kind \in Kinds \ {"comments", "replies", "tags", "author_before_date"}
  BY <1>1 DEF DiscussionCase, Threads, OfTags
<1>3. \A sort : Ranked(sort) \in SUBSET Onward
  BY DEF Ranked
<1>4. \A sort : sort \notin {"payout", "payout_comments"} => Ranked(sort) = Onward
  BY DEF Ranked
<1>5. CASE q.kind \in {"feed", "blog"}
  <2>1. NextPage = Limited(PostsOf(q.kind, q.own))
    BY <1>5 DEF NextPage, Discussions_by_feed, Discussions_by_blog
  <2>2. PostsOf(q.kind, q.own) \in SUBSET Onward
    BY <1>3 DEF PostsOf
  <2>3. q.own => PostsOf(q.kind, q.own) = Onward
    BY <1>4, <1>5 DEF PostsOf
  <2>4. \A x : OfKind(x) => q.own
    BY <1>5 DEF OfKind
  <2> QED
    BY <2>1, <2>2, <2>3, <2>4
<1>6. CASE q.kind = "payout"
  <2>1. NextPage = Limited(Ranked("payout_comments"))
    BY <1>6 DEF NextPage, Comment_discussions_by_payout
  <2>2. \A x \in Onward : OfKind(x) => x \in Ranked("payout_comments")
    BY <1>6 DEF OfKind, Ranked
  <2> QED
    BY <1>3, <2>1, <2>2
<1>7. CASE q.kind \in {"post_payout", "cashout"}
  <2>1. NextPage = Limited(Ranked("payout"))
    BY <1>7 DEF NextPage, Post_discussions_by_payout, Discussions_by_cashout
  <2>2. \A x \in Onward : OfKind(x) => x \in Ranked("payout")
    BY <1>7 DEF OfKind, Ranked
  <2> QED
    BY <1>3, <2>1, <2>2
<1>8. CASE q.kind \notin {"feed", "blog", "payout", "post_payout", "cashout"}
  <2>1. \E sort : sort \notin {"payout", "payout_comments"} /\ NextPage = Limited(Ranked(sort))
    BY <1>2, <1>8 DEF Kinds, NextPage, Discussions_by_trending, Discussions_by_created,
          Discussions_by_active, Discussions_by_votes, Discussions_by_children,
          Discussions_by_hot, Discussions_by_promoted
  <2> QED
    BY <1>4, <2>1
<1> QED
  BY <1>5, <1>6, <1>7, <1>8

\* What was asked for, of discussions.
LEMMA KindAsked ==
    ASSUME q.reader = "discussions", NEW x, Asked(x)
    PROVE  OfKind(x)
BY DEF Asked, History, OfOperations

\* What a page leaves out comes after it, and is not there when the reading ends with an empty
\* page or with the post that it knows.
LEMMA NextPageReaches ==
    ASSUME Origin, OfPages, ListInv, PageInv, AskedInv, Placed, KindInv, At("pages"),
           q.reader = "discussions", ~Threads, ~OfTags,
           NEW x \in stay, Asked(x), ~Passed(x), x \notin NextPage
    PROVE  /\ \A y \in NextPage : y < x
           /\ NextPage # {}
           /\ out # <<>> /\ Bottom(NextPage) = h.cursor => Cardinality(NextPage) # 1
<1>1. x \in Onward /\ x \in Int /\ OfKind(x)
  BY AheadIsOnward, KindAsked
<1>2. QueryLimit \in Nat /\ QueryLimit \in Int /\ QueryLimit >= 1 /\ (out # <<>> => QueryLimit >= 2)
  BY QueryLimitType
<1>3. h.cursor \in Nat \cup {None} /\ h.cursor \in Int
  BY DEF PageInv, PageStates, None
<1>4. Finite(Onward) /\ Onward \subseteq list /\ list \in SUBSET Int
  BY <1>2, <1>3, PageFromCursor DEF ListInv
<1>5. ASSUME NEW S \in SUBSET Onward, x \in S, x \notin Limited(S)
      PROVE  /\ \A y \in Limited(S) : y < x
             /\ Cardinality(Limited(S)) = QueryLimit
             /\ Limited(S) \in SUBSET S /\ Finite(Limited(S))
  <2>1. Finite(S)
    BY <1>4, FS_Subset DEF Finite
  <2>2. QueryLimit >= 0
    BY <1>2
  <2> QED
    BY <1>2, <1>5, <2>1, <2>2, LowestReaches, LowestTakes DEF Limited
<1>6. CASE q.kind # "author_before_date"
  <2>1. PICK S \in SUBSET Onward : NextPage = Limited(S) /\ \A z \in Onward : OfKind(z) => z \in S
    BY <1>6, KindIsListed
  <2>2. (\A y \in NextPage : y < x) /\ Cardinality(NextPage) = QueryLimit
    BY <1>1, <1>5, <2>1
  <2>3. NextPage # {}
    <3>1. Cardinality({}) = 0
      BY FS_EmptySet
    <3>2. Cardinality(NextPage) # 0
      BY <1>2, <2>2
    <3> QED
      BY <3>1, <3>2, Zenon
  <2> QED
    BY <1>2, <2>2, <2>3
<1>7. CASE q.kind = "author_before_date"
  <2> DEFINE all == Limited(Onward)
  <2>1. NextPage = all \cap chosen
    <3>1. Ranked("posts") = Onward
      BY DEF Ranked
    <3> QED
      BY <1>7, <3>1 DEF NextPage, Discussions_by_author_before_date, PostsOf
  <2>2. x \in chosen /\ x \notin all
    BY <1>1, <1>7, <2>1 DEF OfKind
  <2>3. /\ \A y \in all : y < x
        /\ Cardinality(all) = QueryLimit /\ all \in SUBSET Onward /\ Finite(all)
    BY <1>1, <1>5, <2>2
  <2> HIDE DEF all
  <2>4. NextPage # {}
    <3> SUFFICES ASSUME NextPage = {} PROVE FALSE
      OBVIOUS
    <3>1. all \in SUBSET (list \ chosen)
      BY <1>4, <2>1, <2>3
    <3>2. IsFiniteSet(list \ chosen)
      <4>1. (list \ chosen) \in SUBSET list
        OBVIOUS
      <4> QED
        BY <4>1, FS_Subset DEF ListInv
    <3>3. Cardinality(all) <= Cardinality(list \ chosen)
      BY <3>1, <3>2, FS_Subset
    <3>4. Cardinality(list \ chosen) + MaxChanges - changes < QueryLimit /\ changes \in 0..MaxChanges
      BY <1>7 DEF KindInv
    <3>5. Cardinality(list \ chosen) \in Nat
      BY <3>2, FS_CardinalityType
    <3> QED
      BY <1>2, <2>3, <3>3, <3>4, <3>5, ChangesAssumption
  <2>5. ASSUME out # <<>>, Bottom(NextPage) = h.cursor PROVE Cardinality(NextPage) # 1
    <3>1. Finite(NextPage)
      <4>1. NextPage \in SUBSET all
        BY <2>1
      <4> QED
        BY <2>3, <4>1, FS_Subset DEF Finite
    <3>2. h.cursor \in NextPage
      BY <2>4, <2>5, <3>1, Extremes
    <3>3. h.cursor \in list \cap chosen
      BY <1>4, <2>1, <2>3, <3>2
    <3>4. \A y \in all : y \in chosen
      <4> SUFFICES ASSUME NEW y \in all PROVE y \in chosen
        OBVIOUS
      <4>1. y \in Onward /\ y \in list /\ y \in Int
        BY <1>4, <2>3
      <4>2. h.cursor = y \/ h.cursor < y
        BY <1>3, <3>3, <4>1 DEF Onward, None, ListInv
      <4> QED
        BY <1>7, <3>3, <4>1, <4>2 DEF KindInv
    <3>5. NextPage = all
      BY <2>1, <3>4
    <3> QED
      BY <1>2, <2>3, <2>5, <3>5
  <2>6. \A y \in NextPage : y < x
    BY <2>1, <2>3
  <2> QED
    BY <2>4, <2>5, <2>6
<1> QED
  BY <1>6, <1>7

\* The page of a thread has all of it, up to the limit.
LEMMA ThreadReaches ==
    ASSUME Origin, OfPages, ListInv, ThreadInv, PageInv, AskedInv, Placed, KindInv, At("pages"),
           Threads, h.first, NEW x \in stay, Asked(x), x \notin NextPage
    PROVE  (\A y \in NextPage : y < x) /\ Cardinality(NextPage) >= Left
<1>1. q.reader = "discussions" /\ q.kind \in {"comments", "replies"} /\ ~OfTags
  BY DEF Threads, OfTags
<1>2. h.cursor = q.start /\ out = <<>>
  BY <1>1 DEF Placed, PageInv
<1>3. /\ QueryLimit \in Nat /\ QueryLimit \in Int /\ QueryLimit >= 0
      /\ Left \in Nat /\ q.limit \in Nat
      /\ q.batch = 0 => QueryLimit = Least(q.limit, Page)
      /\ q.batch # 0 => QueryLimit = q.batch
  BY <1>1, QueryLimitType
<1>4. Left = q.limit
  <2>1. Len(out) = 0
    BY <1>2, EmptySeq
  <2> QED
    BY <1>3, <2>1 DEF Left
<1>5. q.start \in Int
  BY PageQueries DEF None
<1> DEFINE S == IF q.kind = "replies" THEN Discussion(q.start) \ {q.start} ELSE Discussion(q.start)
<1>6. NextPage = Limited(S)
  BY <1>1, <1>2 DEF NextPage, Discussions_by_comments, Discussions_by_replies
<1>7. x \in S
  BY <1>1, KindAsked DEF OfKind
<1>8. Finite(S) /\ S \in SUBSET list
  <2>1. S \in SUBSET Discussion(q.start)
    OBVIOUS
  <2>2. Finite(Discussion(q.start)) /\ Discussion(q.start) \in SUBSET list
    BY <1>5, DiscussionFrom
  <2> QED
    BY <2>1, <2>2, FS_Subset DEF Finite
<1> HIDE DEF S
<1>9. NextPage = Lowest(S, QueryLimit)
  BY <1>6 DEF Limited
<1>10. /\ \A y \in NextPage : y < x
       /\ Cardinality(NextPage) = QueryLimit
       /\ NextPage \in SUBSET S
  BY <1>3, <1>7, <1>8, <1>9, LowestReaches, LowestTakes
<1>11. CASE q.batch = 0
  <2>1. q.limit <= Page /\ Page \in Nat
    BY <1>11, PageAssumption DEF KindInv
  <2> QED
    BY <1>3, <1>4, <1>10, <1>11, <2>1 DEF Least
<1>12. CASE q.batch # 0
  <2>1. Cardinality(list) + MaxChanges - changes <= q.batch /\ changes \in 0..MaxChanges
    BY <1>12 DEF KindInv
  <2>2. NextPage \in SUBSET (list \ {x}) /\ x \in list
    BY <1>7, <1>8, <1>10
  <2>3. IsFiniteSet(list \ {x}) /\ Cardinality(list \ {x}) = Cardinality(list) - 1
    BY <2>2, FS_RemoveElement DEF ListInv
  <2>4. Cardinality(NextPage) <= Cardinality(list \ {x})
    BY <2>2, <2>3, FS_Subset
  <2>5. Cardinality(list) \in Nat
    BY FS_CardinalityType DEF ListInv
  <2>6. FALSE
    BY <1>3, <1>10, <1>12, <2>1, <2>3, <2>4, <2>5, ChangesAssumption
  <2> QED
    BY <2>6
<1> QED
  BY <1>10, <1>11, <1>12

LEMMA DiscussionsCover ==
    ASSUME Origin, ListInv, ThreadInv, PageInv, AskedInv, Placed, KindInv, ReadDiscussions
    PROVE  \E new : Covers(new)
<1>1. /\ q.reader = "discussions" /\ At("pages") /\ OfPages /\ UNCHANGED <<q, world>>
      /\ q.reader \notin {"blog", "feed", "replies", "ranked", "account", "communities", "reputations"}
      /\ q.reader \notin Positional
  BY DEF ReadDiscussions, OfPages, OfPosts, Positional
<1>2. Left \in Nat /\ Left >= 1 /\ q.limit \in Nat /\ q.limit # None
  BY <1>1, QueryLimitType DEF None
<1>3. h.cursor \in Nat \cup {None} /\ h.cursor \in Int
  BY DEF PageInv, PageStates, None
<1>4. CASE RequestFails
  <2>1. Return({}) /\ h'.pc # "pages" /\ (At("done")' => OfTags)
    BY <1>1, <1>4 DEF RequestFails, Yield, Failed, Done, At, PageInv, PageStates, OfTags
  <2>2. Covers({})
    BY <1>1, <2>1, EndCovers
  <2> QED
    BY <2>2
<1>5. CASE Yield(NextPage)
  <2> DEFINE page == NextPage
             double == out # <<>> /\ page # {} /\ Bottom(page) = h.cursor
             rest == IF double THEN AfterFirst(page) ELSE page
             new == Lowest(rest, Left)
             more == Cardinality(rest) < Left /\ ~(double /\ Cardinality(page) = 1)
  <2>1. \/ page = {} /\ Done /\ Return({})
        \/ page # {} /\ Return(new) /\ GoOn(more, Top(page), h.size)
    BY <1>5 DEF Yield
  <2>2. more \in BOOLEAN /\ (more <=> Cardinality(rest) < Left /\ ~(double /\ Cardinality(page) = 1))
    OBVIOUS
  <2>3. Finite(page) /\ page \in SUBSET list
    BY <1>1, NextPageFrom
  <2>4. /\ AfterFirst(page) \in SUBSET page /\ Finite(AfterFirst(page))
        /\ page # {} => AfterFirst(page) = page \ {Bottom(page)}
    BY <2>3, AfterFirstDrops
  <2>5. rest \in SUBSET page /\ Finite(rest) /\ Cardinality(rest) \in Nat
    BY <2>3, <2>4, FS_CardinalityType DEF Finite
  <2>6. /\ new \in SUBSET rest
        /\ \A x \in rest : x \notin new => FullWith(new) /\ \A y \in new : y < x
        /\ Cardinality(rest) >= Left <=> FullWith(new)
    BY <1>2, <2>5, CutOff, LowestTakes
  <2>7. double => Bottom(page) = h.cursor /\ out # <<>> /\ page # {}
    OBVIOUS
  <2>8. ~double => rest = page
    OBVIOUS
  <2>9. double => rest = page \ {h.cursor}
    BY <2>4
  <2>a. out = <<>> => ~double
    OBVIOUS
  <2> HIDE DEF page, double, rest, new, more
  <2>10. new \in SUBSET page /\ new \in SUBSET list
    BY <2>3, <2>5, <2>6
  <2>11. CASE page = {} /\ Done /\ Return({})
    <3>1. ASSUME ~OfTags, NEW x \in stay, Asked(x), ~Passed(x) PROVE FALSE
      <4>1. CASE Threads
        <5>1. h.first
          BY <3>1, <4>1 DEF Passed
        <5>2. Cardinality(page) >= Left
          BY <1>1, <2>11, <3>1, <4>1, <5>1, ThreadReaches DEF page
        <5>3. Cardinality(page) = 0
          BY <2>11, FS_EmptySet
        <5> QED
          BY <1>2, <5>2, <5>3
      <4>2. CASE ~Threads
        BY <1>1, <2>11, <3>1, <4>2, NextPageReaches DEF page
      <4> QED
        BY <4>1, <4>2
    <3>2. h'.pc # "pages"
      BY <2>11 DEF Done, PageInv, PageStates
    <3>3. ~OfTags => \A x \in stay : Asked(x) => Passed(x)
      BY <3>1
    <3>4. Covers({})
      BY <1>1, <2>11, <3>2, <3>3, EndCovers
    <3> QED
      BY <3>4
  <2>12. CASE page # {} /\ Return(new) /\ GoOn(more, Top(page), h.size)
    <3>1. /\ At("pages")' => more
          /\ At("done")' => ~more
          /\ ~h'.first /\ h'.cursor = Top(page)
      BY <1>1, <2>2, <2>12 DEF GoOn, PageInv, PageStates, At
    <3>2. Top(page) \in page
      BY <2>3, <2>12, Extremes
    <3>3. At("pages")' => ~FullWith(new)
      BY <1>2, <2>2, <2>5, <2>6, <3>1
    <3>4. CASE Threads
      <4>1. ASSUME NEW x \in stay, Asked(x), ~Passed(x), x \notin new
            PROVE  FullWith(new) /\ \A y \in new : y < x
        <5>1. h.first
          BY <3>4, <4>1 DEF Passed
        <5>a. out = <<>>
          BY <1>1, <3>4, <5>1 DEF PageInv, OfTags, Threads
        <5>2. rest = page
          BY <2>8, <2>a, <5>a
        <5>3. CASE x \in page
          BY <2>6, <4>1, <5>2, <5>3
        <5>4. CASE x \notin page
          <6>1. (\A y \in page : y < x) /\ Cardinality(page) >= Left
            BY <1>1, <3>4, <4>1, <5>1, <5>4, ThreadReaches DEF page
          <6> QED
            BY <2>6, <2>10, <5>2, <6>1
        <5> QED
          BY <5>3, <5>4
      <4>2. Covers(new)
        BY <1>1, <2>10, <2>12, <3>1, <3>3, <4>1 DEF Covers
      <4> QED
        BY <4>2
    <3>5. CASE ~Threads /\ ~OfTags
      <4>1. ASSUME NEW x \in stay, ~Passed(x), x \in page PROVE x \in rest
        <5>1. h.cursor < x /\ x \in Int
          BY <1>1, <3>5, <4>1, AheadIsOnward
        <5>2. x # h.cursor
          BY <1>3, <5>1
        <5> QED
          BY <2>8, <2>9, <4>1, <5>2
      <4>2. ASSUME NEW x \in stay, Asked(x), ~Passed(x), x \notin page
            PROVE  (\A y \in page : y < x) /\ (~more => FullWith(new))
        <5>1. /\ \A y \in page : y < x
              /\ out # <<>> /\ Bottom(page) = h.cursor => Cardinality(page) # 1
          BY <1>1, <3>5, <4>2, NextPageReaches DEF page
        <5>2. ~(double /\ Cardinality(page) = 1)
          BY <2>7, <5>1
        <5>3. ~more => Cardinality(rest) >= Left
          BY <1>2, <2>2, <2>5, <5>2
        <5> QED
          BY <2>6, <5>1, <5>3
      <4>3. TakesAll(page, new)
        BY <2>6, <3>1, <4>1, <4>2 DEF TakesAll
      <4>4. Covers(new)
        BY <1>1, <2>3, <2>10, <2>12, <3>1, <3>2, <3>3, <3>5, <4>3, PageCovers
      <4> QED
        BY <4>4
    <3>6. CASE OfTags
      <4>1. Covers(new)
        BY <1>1, <2>10, <2>12, <3>1, <3>3, <3>6 DEF Covers
      <4> QED
        BY <4>1
    <3> QED
      BY <3>4, <3>5, <3>6
  <2> QED
    BY <2>1, <2>11, <2>12
<1> QED
  BY <1>4, <1>5 DEF ReadDiscussions

\* What is returned in a step is added to what was.
LEMMA ReturnAdds ==
    ASSUME ListInv, PageInv, NEW new \in SUBSET list, Return(new)
    PROVE  Returned' = Returned \cup new /\ Len(out') = Len(out) + Cardinality(new)
<1>1. Finite(new)
  <2>1. list \in SUBSET Int /\ IsFiniteSet(list)
    BY DEF ListInv
  <2>2. IsFiniteSet(new)
    BY <2>1, FS_Subset
  <2> QED
    BY <2>1, <2>2 DEF Finite
<1> DEFINE t == Sorted(new)
           n == Len(out)
<1>2. /\ out' = out \o t /\ t \in Seq(Int) /\ Len(t) = Cardinality(new)
      /\ {t[i] : i \in 1..Len(t)} = new
  BY <1>1, SortedLists DEF Return
<1>3. out \in Seq(Int) /\ n \in Nat /\ Len(t) \in Nat
  BY <1>2, LenProperties DEF PageInv
<1> HIDE DEF t
<1>4. /\ out' \in Seq(Int) /\ Len(out') = n + Len(t)
      /\ \A i \in 1..(n + Len(t)) : out'[i] = IF i <= n THEN out[i] ELSE t[i - n]
  BY <1>2, <1>3, ConcatProperties
<1>5. DOMAIN out = 1..n /\ DOMAIN out' = 1..(n + Len(t))
  BY <1>3, <1>4, LenProperties
<1>a. Returned = {out[i] : i \in 1..n} /\ Returned' = {out'[i] : i \in 1..(n + Len(t))}
  BY <1>5 DEF Returned
<1>b. PICK m : m = n
  OBVIOUS
<1>c. PICK o : o = out'
  OBVIOUS
<1> HIDE DEF n
<1>6. ASSUME NEW i \in 1..(m + Len(t)) PROVE o[i] \in {out[j] : j \in 1..m} \cup new
  <2>1. CASE i <= m
    BY <1>3, <1>4, <1>b, <1>c, <2>1
  <2>2. CASE ~(i <= m)
    <3>1. i - m \in 1..Len(t) /\ o[i] = t[i - m]
      BY <1>3, <1>4, <1>b, <1>c, <2>2
    <3> QED
      BY <1>2, <3>1
  <2> QED
    BY <2>1, <2>2
<1>7. ASSUME NEW j \in 1..m PROVE \E i \in 1..(m + Len(t)) : out[j] = o[i]
  <2>1. j \in 1..(m + Len(t)) /\ o[j] = out[j]
    BY <1>3, <1>4, <1>b, <1>c
  <2> QED
    BY <2>1
<1>8. ASSUME NEW y \in new PROVE \E i \in 1..(m + Len(t)) : y = o[i]
  <2>1. PICK k \in 1..Len(t) : t[k] = y
    BY <1>2
  <2>2. m + k \in 1..(m + Len(t)) /\ ~(m + k <= m) /\ (m + k) - m = k
    BY <1>3, <1>b
  <2>3. o[m + k] = t[k]
    BY <1>4, <1>b, <1>c, <2>2
  <2> QED
    BY <2>1, <2>2, <2>3
<1>9. {o[i] : i \in 1..(m + Len(t))} = {out[j] : j \in 1..m} \cup new
  <2> DEFINE A == {o[i] : i \in 1..(m + Len(t))}
             B == {out[j] : j \in 1..m} \cup new
  <2>1. \A y \in A : y \in B
    BY <1>6
  <2>2. \A y \in B : y \in A
    <3> SUFFICES ASSUME NEW y \in B PROVE \E i \in 1..(m + Len(t)) : y = o[i]
      OBVIOUS
    <3>1. CASE y \in new
      BY <1>8, <3>1
    <3>2. CASE y \notin new
      <4>1. PICK j \in 1..m : y = out[j]
        BY <3>2
      <4> QED
        BY <1>7, <4>1
    <3> QED
      BY <3>1, <3>2
  <2> HIDE DEF A, B
  <2>3. A = B
    BY <2>1, <2>2
  <2> QED
    BY <2>3 DEF A, B
<1>10. Returned' = Returned \cup new
  BY <1>9, <1>a, <1>b, <1>c
<1> QED
  BY <1>2, <1>4, <1>10 DEF n

\* What is asked for does not depend on the reader.
LEMMA AskedSame ==
    ASSUME UNCHANGED <<q, world>>, ~History, NEW x
    PROVE  Asked(x)' <=> Asked(x)
<1>1. /\ q' = q /\ list' = list /\ block' = block /\ chosen' = chosen /\ blank' = blank
      /\ ~History'
  BY DEF world, History
<1>2. Discussion(q.start)' = Discussion(q.start)
  BY <1>1 DEF Discussion
<1> QED
  BY <1>1, <1>2 DEF Asked, InRange, Lower, Upper, Key, OfKind, Wanted

LEMMA StepKeepsSeen ==
    ASSUME Origin, OfPages, ListInv, PageInv, SeenInv, Placed, At("pages"), UNCHANGED <<q, world>>,
           NEW new, Covers(new)
    PROVE  SeenInv' /\ Placed'
<1>1. ~History
  BY ReadersDiffer
<1>2. /\ q' = q /\ list' = list /\ stay' = stay /\ disturbed' = disturbed
      /\ (OfTags' <=> OfTags) /\ (Threads' <=> Threads) /\ ~History'
  BY <1>1 DEF world, OfTags, Threads, History
<1>3. Returned' = Returned \cup new /\ Len(out') = Len(out) + Cardinality(new)
  BY ReturnAdds DEF Covers
<1>4. ASSUME NEW x PROVE (Asked(x)' <=> Asked(x)) /\ (Begins(x)' <=> Begins(x))
  BY <1>1, <1>2, AskedSame DEF Begins
<1>5. FullWith(new) <=> Full(Len(out))'
  BY <1>2, <1>3 DEF FullWith, Full
<1>6. ASSUME ~disturbed, ~OfTags, NEW x \in stay, ~Passed(x), NEW y \in Returned PROVE y < x
  <2>1. x \in Int /\ h.cursor \in Int /\ out \in Seq(Int)
    BY DEF ListInv, PageInv, PageStates, None
  <2>2. PICK i \in 1..Len(out) : y = out[i]
    BY <2>1, LenProperties DEF Returned
  <2>3. out # <<>>
    BY <2>1, <2>2
  <2>4. ~h.first /\ y <= h.cursor
    BY <1>6, <2>2, <2>3 DEF PageInv
  <2>5. y \in Int
    BY <2>1, <2>2, ElementOfSeq
  <2>6. h.cursor < x
    BY <1>6, <2>1, <2>4 DEF Passed
  <2> QED
    BY <2>1, <2>4, <2>5, <2>6
<1>7. ASSUME ~disturbed, ~OfTags, At("done")', NEW x \in stay, Asked(x)
      PROVE  x \in Returned' \/ Excused(x)'
  <2>1. Begins(x) => Excused(x)'
    BY <1>2 DEF Begins, Excused
  <2>2. CASE Passed(x)
    BY <1>3, <1>7, <2>1, <2>2 DEF SeenInv
  <2>3. CASE ~Passed(x)
    <3>1. x \in new \/ Begins(x) \/ (FullWith(new) /\ \A y \in new : y < x)
      BY <1>7, <2>3 DEF Covers
    <3>2. ASSUME FullWith(new), \A y \in new : y < x PROVE Excused(x)'
      <4>1. \A y \in Returned' : y < x
        BY <1>3, <1>6, <1>7, <2>3, <3>2
      <4>2. \A y \in Returned' : x > y
        <5>1. x \in Int /\ new \in SUBSET Int
          BY DEF ListInv, Covers
        <5> QED
          BY <4>1
      <4> QED
        BY <1>2, <1>5, <3>2, <4>2 DEF Excused
    <3> QED
      BY <1>3, <2>1, <3>1, <3>2
  <2> QED
    BY <2>2, <2>3
<1>8. ASSUME ~disturbed, ~OfTags, At("pages")', NEW x \in stay, Asked(x), Passed(x)'
      PROVE  x \in Returned' \/ Begins(x)
  <2>1. CASE Passed(x)
    BY <1>3, <1>8, <2>1 DEF SeenInv
  <2>2. CASE ~Passed(x)
    BY <1>3, <1>8, <2>2 DEF Covers
  <2> QED
    BY <2>1, <2>2
<1>9. SeenInv'
  BY <1>2, <1>4, <1>7, <1>8 DEF SeenInv
<1>10. Placed'
  <2> SUFFICES ASSUME At("pages")' PROVE Placed'
    BY DEF Placed
  <2>1. q.limit # None => Len(out') < q.limit
    <3>1. Len(out) \in Nat /\ Cardinality(new) \in Nat
      <4>1. new \in SUBSET list /\ IsFiniteSet(list)
        BY DEF Covers, ListInv
      <4> QED
        BY <4>1, FS_Subset, FS_CardinalityType, LenProperties DEF PageInv
    <3>2. q.limit \in Nat \cup {None} /\ ~FullWith(new)
      BY PageQueries DEF Covers
    <3> QED
      BY <1>3, <3>1, <3>2 DEF FullWith, Full
  <2> QED
    BY <1>2, <1>3, <2>1 DEF Placed, Covers
<1> QED
  BY <1>9, <1>10

\* What appears has not been there; a post is newer than all others, a reply the last.
LEMMA NewPlace ==
    ASSUME ListInv, ThreadInv, OfPages, NEW x \in Places
    PROVE  /\ x \in Nat /\ x \notin list
           /\ Threads => \A z \in list : z < x
           /\ q.reader \in OfPosts /\ ~Threads => \A z \in list : x < z
<1>1. q.reader # "date" /\ ~History
  BY ReadersDiffer DEF OfDate, OfPages
<1>2. x \in Nat
  BY PlacesType
<1>3. CASE Threads
  <2>1. x = Cardinality(list) + 1 /\ list = 1..Cardinality(list) /\ Cardinality(list) \in Nat
    BY <1>1, <1>3, FS_CardinalityType DEF Places, ThreadInv, ListInv
  <2> QED
    BY <1>2, <1>3, <2>1
<1>4. CASE ~Threads
  BY <1>1, <1>2, <1>4 DEF Places
<1> QED
  BY <1>3, <1>4

\* A reply that appears brings no other into a discussion.
LEMMA ReplyIsAlone ==
    ASSUME ListInv, ThreadInv, Threads, NEW x \in Nat, x \notin list, \A z \in list : z < x,
           list' = list \cup {x},
           \E y \in list : block' = [z \in DOMAIN block \cup {x} |-> IF z = x THEN y ELSE block[z]],
           NEW post, NEW z \in list, z \in Discussion(post)'
    PROVE  z \in Discussion(post)
<1>0. PICK post0 : post0 = post
  OBVIOUS
<1>1. PICK y \in list : block' = [w \in DOMAIN block \cup {x} |-> IF w = x THEN y ELSE block[w]]
  OBVIOUS
<1>2. \A w \in list : block'[w] = block[w] /\ block[w] # x
  <2>1. \A w \in list : w # x /\ w \in DOMAIN block /\ block[w] \in Nat /\ block[w] < w /\ w < x
    BY DEF ThreadInv
  <2>2. \A w \in list : w \in Int
    BY DEF ListInv
  <2> QED
    BY <1>1, <2>1, <2>2
<1>3. /\ post \in list'
      /\ \A S \in SUBSET list' :
             post \in S /\ (\A w \in list' : block'[w] \in S => w \in S) => z \in S
  BY DEF Discussion
<1>4. post \in list
  <2> SUFFICES ASSUME post = x PROVE FALSE
    BY <1>3
  <2>1. {x} \in SUBSET list' /\ \A w \in list' : block'[w] \in {x} => w \in {x}
    BY <1>2
  <2>2. z \in {x}
    BY <1>3, <2>1
  <2> QED
    BY <2>2
<1>5. ASSUME NEW S \in SUBSET list, post \in S, \A w \in list : block[w] \in S => w \in S
      PROVE  z \in S
  <2>1. S \cup {x} \in SUBSET list' /\ post \in S \cup {x}
    BY <1>5
  <2>2. ASSUME NEW w \in list', block'[w] \in S \cup {x} PROVE w \in S \cup {x}
    <3>1. CASE w = x
      BY <3>1
    <3>2. CASE w # x
      BY <1>2, <1>5, <2>2, <3>2
    <3> QED
      BY <3>1, <3>2
  <2>3. z \in S \cup {x}
    BY <1>3, <2>1, <2>2
  <2> QED
    BY <2>3
<1> QED
  BY <1>4, <1>5 DEF Discussion

LEMMA AppearKeepsSeen ==
    ASSUME Origin, ListInv, ThreadInv, OfPages, SeenInv, Placed, Appear
    PROVE  SeenInv' /\ Placed'
<1>1. /\ UNCHANGED <<q, h, out, blank, stay, disturbed>> /\ q' = q /\ h' = h /\ out' = out
      /\ blank' = blank /\ stay' = stay /\ disturbed' = disturbed /\ ~History /\ ~Ended
  BY ReadersDiffer DEF Appear, OfPages
<1>2. PICK x \in Places :
          /\ list' = list \cup {x} /\ chosen' \in {chosen, chosen \cup {x}}
          /\ Threads => \E y \in list :
                block' = [z \in DOMAIN block \cup {x} |-> IF z = x THEN y ELSE block[z]]
  BY DEF Appear
<1>3. x \in Nat /\ x \notin list /\ (Threads => \A z \in list : z < x)
  BY NewPlace
<1>4. (Threads' <=> Threads) /\ (OfTags' <=> OfTags) /\ (At("pages")' <=> At("pages"))
      /\ ~At("done")' /\ Returned' = Returned /\ ~History'
  BY <1>1 DEF Threads, OfTags, At, Ended, Returned, History
<1>5. ASSUME NEW y \in stay, Asked(y)' PROVE Asked(y)
  <2>1. y \in list /\ y # x
    BY <1>3 DEF ListInv
  <2>2. y \in chosen' <=> y \in chosen
    BY <1>2, <2>1
  <2>3. Threads /\ y \in Discussion(q.start)' => y \in Discussion(q.start)
    BY <1>1, <1>2, <1>3, <2>1, ReplyIsAlone
  <2>4. InRange(y) /\ y \notin blank
    BY <1>1, <1>4, <1>5 DEF Asked, InRange, Lower, Upper, Key
  <2>5. q.reader # "discussions" => Wanted(y)
    BY <1>1, <1>4, <1>5, <2>2 DEF Asked, Wanted
  <2>6. q.reader = "discussions" => OfKind(y)
    <3> SUFFICES ASSUME q.reader = "discussions" PROVE OfKind(y)
      OBVIOUS
    <3>1. OfKind(y)'
      BY <1>1, <1>4, <1>5 DEF Asked
    <3>2. CASE Threads
      BY <1>1, <2>3, <3>1, <3>2 DEF OfKind, Threads
    <3>3. CASE ~Threads
      BY <1>1, <2>2, <3>1, <3>3 DEF OfKind, Threads
    <3> QED
      BY <3>2, <3>3
  <2> QED
    BY <1>1, <2>4, <2>5, <2>6 DEF Asked
<1>6. ASSUME NEW y PROVE (Passed(y)' <=> Passed(y)) /\ (Begins(y)' <=> Begins(y))
  BY <1>1, <1>4 DEF Passed, Begins
<1>7. SeenInv'
  BY <1>1, <1>4, <1>5, <1>6 DEF SeenInv
<1>8. Placed'
  BY <1>1, <1>2, <1>4 DEF Placed
<1> QED
  BY <1>7, <1>8

LEMMA DisappearKeepsSeen ==
    ASSUME Origin, ListInv, OfPages, SeenInv, Placed, Disappear
    PROVE  SeenInv' /\ Placed'
<1>1. PICK x \in list : /\ list' = list \ {x} /\ stay' = stay \ {x}
                        /\ disturbed' = (disturbed \/ x \in Returned)
  BY DEF Disappear
<1>2. /\ q' = q /\ h' = h /\ out' = out /\ blank' = blank /\ chosen' = chosen
      /\ q.reader \in Positional /\ ~Ended
  BY DEF Disappear
<1>3. ~History /\ ~Threads /\ q.reader # "discussions" /\ ~History' /\ ~Threads'
      /\ q.reader \notin {"blog", "feed", "replies"}
  BY <1>2 DEF Positional, Threads, History, OfOperations
<1>4. (OfTags' <=> OfTags) /\ (At("pages")' <=> At("pages")) /\ ~At("done")' /\ Returned' = Returned
  BY <1>2 DEF OfTags, At, Ended, Returned
<1>5. ASSUME NEW y PROVE /\ Asked(y)' <=> Asked(y)
                         /\ Passed(y)' <=> Passed(y)
                         /\ Begins(y)' <=> Begins(y)
  BY <1>2, <1>3 DEF Asked, InRange, Lower, Upper, Key, Wanted, Passed, Begins
<1>6. SeenInv'
  BY <1>1, <1>4, <1>5 DEF SeenInv
<1>7. Placed'
  BY <1>1, <1>2, <1>3, <1>4 DEF Placed
<1> QED
  BY <1>6, <1>7

LEMMA SeenInit == Init /\ OfPages => SeenInv /\ Placed /\ KindInv
<1> SUFFICES ASSUME Init, OfPages PROVE SeenInv /\ Placed /\ KindInv
  OBVIOUS
<1>1. h = FirstPage /\ out = <<>> /\ stay = list /\ changes = 0 /\ ~History
  BY ReadersDiffer DEF Init, Begin, OfPages, History, OfDate
<1>2. PICK c \in Cases : q = c.q /\ list = c.list /\ block = c.block /\ chosen = c.chosen
  BY DEF Init, Begin
<1>3. Origin /\ ListInv
  BY ListInit
<1>4. q.start \in Nat \cup {None} /\ q.limit \in (Nat \ {0}) \cup {None}
  BY <1>3, PageQueries
<1>5. h.pc = "pages" /\ h.cursor = q.start /\ h.first
  BY <1>1 DEF FirstPage
<1>6. q.reader # "discussions" => PageCase(c)
  BY <1>2, CasesAssumption DEF OfPages
<1>7. q.reader = "discussions" => DiscussionCase(c)
  BY <1>2, CasesAssumption
<1>8. SeenInv
  <2>1. ASSUME NEW x \in stay, Asked(x), Passed(x) PROVE Begins(x)
    <3>1. ~Threads /\ x <= q.start /\ ~(q.reader = "reputations" /\ x = q.start)
      BY <1>5, <2>1 DEF Passed
    <3>2. x \in Nat
      BY <1>3 DEF ListInv
    <3>3. q.start # None /\ q.start \in Nat
      BY <1>4, <3>1, <3>2 DEF None
    <3>4. x >= q.start
      <4>1. q.reader # "reverse"
        BY DEF OfPages, OfPosts, OfNames, Positional
      <4> QED
        BY <1>1, <2>1, <3>3, <4>1 DEF Asked, InRange, Lower, Key
    <3>5. x = q.start
      BY <3>1, <3>2, <3>3, <3>4
    <3>6. q.reader \in OfPosts \cup {"accounts"}
      <4>1. q.reader \in Positional \cup {"communities"} => q.start = None
        BY <1>2, <1>6 DEF PageCase, Positional
      <4> QED
        BY <3>1, <3>3, <3>5, <4>1 DEF OfPages, OfNames
    <3> QED
      BY <3>5, <3>6 DEF Begins
  <2> QED
    BY <1>5, <2>1 DEF SeenInv, At
<1>9. Placed
  <2>1. Len(out) = 0 /\ (q.limit # None => Len(out) < q.limit)
    BY <1>1, <1>4, EmptySeq
  <2>2. q.reader \in {"blog", "feed", "replies"} => h.cursor \in list \cup {None}
    BY <1>2, <1>5, <1>6 DEF PageCase, OfPosts
  <2>3. q.reader \in {"ranked", "account", "communities"} => h.size >= 1
    <3>1. q.reader \in {"ranked", "account", "communities"} => q.limit # None
      BY <1>2, <1>6 DEF PageCase
    <3>2. h.size = IF q.limit = None THEN Page ELSE Least(q.limit, Page)
      BY <1>1 DEF FirstPage
    <3> QED
      BY <1>4, <3>1, <3>2, PageAssumption DEF Least
  <2> QED
    BY <1>1, <1>5, <2>1, <2>2, <2>3 DEF Placed
<1>10. KindInv
  <2>1. changes \in 0..MaxChanges /\ MaxChanges - changes = MaxChanges /\ MaxChanges \in Int
    BY <1>1, ChangesAssumption
  <2>2. Threads => IF q.batch = 0 THEN q.limit <= Page
                   ELSE Cardinality(list) + MaxChanges <= q.batch
    BY <1>2, <1>7 DEF DiscussionCase, Threads
  <2>3. q.reader = "discussions" /\ q.kind = "author_before_date" =>
          /\ \A x \in list \cap chosen, y \in list : x < y => y \in chosen
          /\ Cardinality(list \ chosen) + MaxChanges < QueryLimit
    BY <1>2, <1>7 DEF DiscussionCase, QueryLimit
  <2>4. Cardinality(list) \in Nat /\ Cardinality(list \ chosen) \in Nat
    <3>1. (list \ chosen) \in SUBSET list /\ IsFiniteSet(list)
      BY <1>3 DEF ListInv
    <3> QED
      BY <3>1, FS_Subset, FS_CardinalityType
  <2>5. Cardinality(list) + MaxChanges - changes = Cardinality(list) + MaxChanges
        /\ Cardinality(list \ chosen) + MaxChanges - changes = Cardinality(list \ chosen) + MaxChanges
    BY <1>1, <2>1, <2>4
  <2> QED
    BY <2>1, <2>2, <2>3, <2>5 DEF KindInv
<1> QED
  BY <1>8, <1>9, <1>10

LEMMA KindStep == Origin /\ ListInv /\ ThreadInv /\ OfPages /\ KindInv /\ [Next]_vars => KindInv'
<1> SUFFICES ASSUME Origin, ListInv, ThreadInv, OfPages, KindInv, [Next]_vars PROVE KindInv'
  OBVIOUS
<1>1. CASE Appear
  <2>1. q' = q /\ changes' = changes + 1 /\ changes < MaxChanges
    BY <1>1 DEF Appear
  <2>2. PICK x \in Places : list' = list \cup {x} /\ chosen' \in {chosen, chosen \cup {x}} /\ Before(x)
    BY <1>1 DEF Appear
  <2>3. /\ x \in Nat /\ x \notin list
        /\ q.reader \in OfPosts /\ ~Threads => \A z \in list : x < z
    BY NewPlace
  <2>4. changes \in Int /\ MaxChanges \in Int /\ changes' \in 0..MaxChanges
    BY <2>1, ChangesAssumption DEF KindInv
  <2>5. Threads' => IF q'.batch = 0 THEN q'.limit <= Page
                    ELSE Cardinality(list') + MaxChanges - changes' <= q'.batch
    <3> SUFFICES ASSUME Threads, q.batch # 0
                 PROVE  Cardinality(list') + MaxChanges - changes' <= q.batch
      BY <2>1 DEF Threads, KindInv
    <3>1. Cardinality(list') = Cardinality(list) + 1 /\ Cardinality(list) \in Nat
      BY <2>2, <2>3, FS_AddElement, FS_CardinalityType DEF ListInv
    <3>2. Cardinality(list) + MaxChanges - changes <= q.batch
      BY DEF KindInv
    <3> QED
      BY <2>1, <2>4, <3>1, <3>2
  <2>6. ASSUME q.reader = "discussions", q.kind = "author_before_date"
        PROVE  /\ \A a \in list' \cap chosen', b \in list' : a < b => b \in chosen'
               /\ Cardinality(list' \ chosen') + MaxChanges - changes' < QueryLimit
    <3>1. /\ \A a \in list \cap chosen, b \in list : a < b => b \in chosen
          /\ Cardinality(list \ chosen) + MaxChanges - changes < QueryLimit
      BY <2>6 DEF KindInv
    <3>2. x \in chosen' => list \subseteq chosen
      BY <2>2, <2>6 DEF Before
    <3>3. \A z \in list : x < z
      BY <2>3, <2>6 DEF Threads, OfPosts
    <3>4. \A z \in list : z \in chosen' <=> z \in chosen
      BY <2>2, <2>3
    <3>5. ASSUME NEW a \in list' \cap chosen', NEW b \in list', a < b PROVE b \in chosen'
      <4>1. CASE b = x
        <5>1. a \in Int /\ b \in Int /\ (a \in list => x < a) /\ (a = x \/ a \in list)
          BY <2>2, <2>3, <3>3, <3>5 DEF ListInv
        <5> QED
          BY <3>5, <4>1, <5>1
      <4>2. CASE b \in list /\ a = x
        BY <3>2, <3>4, <3>5, <4>2
      <4>3. CASE b \in list /\ a \in list
        BY <3>1, <3>4, <3>5, <4>3
      <4> QED
        BY <2>2, <4>1, <4>2, <4>3
    <3>6. (list \ chosen) \in SUBSET list /\ IsFiniteSet(list \ chosen) /\ Cardinality(list \ chosen) \in Nat
      <4>1. (list \ chosen) \in SUBSET list /\ IsFiniteSet(list)
        BY DEF ListInv
      <4> QED
        BY <4>1, FS_Subset, FS_CardinalityType
    <3>7. Cardinality(list' \ chosen') \in Nat /\ Cardinality(list' \ chosen') <= Cardinality(list \ chosen) + 1
      <4>1. CASE x \in chosen'
        <5>1. list' \ chosen' = {}
          BY <2>2, <3>2, <3>4, <4>1
        <5>2. Cardinality({}) = 0
          BY FS_EmptySet
        <5> QED
          BY <3>6, <5>1, <5>2
      <4>2. CASE x \notin chosen'
        <5>1. list' \ chosen' = (list \ chosen) \cup {x}
          BY <2>2, <3>4, <4>2
        <5>2. x \notin list \ chosen
          BY <2>3
        <5>3. Cardinality((list \ chosen) \cup {x}) = Cardinality(list \ chosen) + 1
          BY <3>6, <5>2, FS_AddElement
        <5>4. Cardinality(list' \ chosen') = Cardinality(list \ chosen) + 1
          BY <5>1, <5>3, Zenon
        <5> QED
          BY <3>6, <5>4
      <4> QED
        BY <4>1, <4>2
    <3>8. QueryLimit \in Int
      <4>1. PICK c \in Cases : c.q = q /\ DiscussionCase(c)
        BY <2>6, PageQueries
      <4>2. q.limit \in Nat /\ q.batch \in Nat
        BY <4>1, PageQueries DEF DiscussionCase
      <4> QED
        BY <4>2, PageAssumption DEF QueryLimit, Least
    <3>9. Cardinality(list' \ chosen') + MaxChanges - changes' < QueryLimit
      BY <2>1, <2>4, <3>1, <3>6, <3>7, <3>8
    <3> QED
      BY <3>5, <3>9
  <2>7. QueryLimit' = QueryLimit
    BY <2>1 DEF QueryLimit
  <2> QED
    BY <2>1, <2>4, <2>5, <2>6, <2>7 DEF KindInv
<1>2. CASE Disappear
  <2>1. q' = q /\ changes' = changes + 1 /\ changes < MaxChanges /\ q.reader # "discussions"
    BY <1>2 DEF Disappear, Positional
  <2>2. changes' \in 0..MaxChanges
    BY <2>1, ChangesAssumption DEF KindInv
  <2> QED
    BY <2>1, <2>2 DEF KindInv, Threads
<1>3. CASE UNCHANGED <<q, list, chosen, changes>>
  BY <1>3 DEF KindInv, Threads, QueryLimit
<1>4. CASE Read
  <2>1. UNCHANGED <<q, list, chosen, changes>>
    BY <1>4 DEF Read, ReadHistory, Count, FirstIndex, Created, Latest, Search, Back,
                PageUp, PageDown, ReadPage, ReadDiscussions, ReadDates, FirstGuess, NextGuess, world
  <2> QED
    BY <1>3, <2>1
<1>5. ~SwitchNode
  BY ReadersDiffer DEF SwitchNode
<1>6. CASE UNCHANGED vars
  BY <1>3, <1>6 DEF vars
<1> QED
  BY <1>1, <1>2, <1>4, <1>5, <1>6 DEF Next, World

LEMMA SeenStep ==
    /\ Origin /\ ListInv /\ ThreadInv /\ OfPages /\ PageInv /\ AskedInv /\ KindInv
    /\ SeenInv /\ Placed /\ [Next]_vars
    => SeenInv' /\ Placed'
<1> SUFFICES ASSUME Origin, ListInv, ThreadInv, OfPages, PageInv, AskedInv, KindInv, SeenInv, Placed,
                    [Next]_vars
             PROVE  SeenInv' /\ Placed'
  OBVIOUS
<1>1. CASE ReadPage
  <2>1. At("pages") /\ UNCHANGED <<q, world>>
    BY <1>1 DEF ReadPage
  <2>2. \E new : Covers(new)
    BY <1>1, <2>1, BlogCovers, PostsCover, ByPositionCovers, CommunitiesCover, AccountsCover,
       Zenon DEF ReadPage
  <2> QED
    BY <2>1, <2>2, StepKeepsSeen, Zenon
<1>2. CASE ReadDiscussions
  <2>1. At("pages") /\ UNCHANGED <<q, world>>
    BY <1>2 DEF ReadDiscussions
  <2>2. \E new : Covers(new)
    BY <1>2, DiscussionsCover
  <2> QED
    BY <2>1, <2>2, StepKeepsSeen, Zenon
<1>3. ~ReadHistory /\ ~ReadDates /\ ~SwitchNode
  BY ReadersDiffer DEF ReadHistory, ReadDates, OfDate, OfPages, SwitchNode
<1>4. CASE UNCHANGED vars
  BY <1>4 DEF SeenInv, Placed, vars, Asked, InRange, Lower, Upper, Key, Place, ByIndex, History,
              OfKind, Wanted, Discussion, At, OfTags, Threads, Passed, Begins, Returned, Excused, Full
<1> QED
  BY <1>1, <1>2, <1>3, <1>4, AppearKeepsSeen, DisappearKeepsSeen DEF Next, World, Read

-----------------------------------------------------------------------------
(* Histories.                                                              *)

\* Operations are numbered without a gap.
HistoryList == History => list = 0..(Cardinality(list) - 1)

Before0 == {"count", "first", "created", "latest", "search", "back"}

\* Upwards, nothing that was returned is after h.last; downwards from the newest operation
\* nothing is before it, and downwards from a start everything is above the next page.
HistoryInv ==
    /\ DOMAIN h = DOMAIN Fresh
    /\ out \in Seq(Int)
    /\ h.pc \in Before0 => out = <<>> /\ h.last = None
    /\ q.reader = "forward" /\ q.start = None =>
          /\ Increasing(out)
          /\ h.last \in Int /\ \A i \in 1..Len(out) : out[i] <= h.last
    /\ q.reader = "reverse" =>
          /\ Decreasing(out)
          /\ h.pc \in {"count", "pages", "done", "failed"}
          /\ At("pages") /\ q.start = None =>
                h.last \in Int /\ \A i \in 1..Len(out) : h.last <= out[i]
          /\ At("pages") /\ q.start # None =>
                /\ h.first \in 0..(Cardinality(list) - 1)
                /\ h.limit = q.batch /\ ~h.filter
                /\ \A i \in 1..Len(out) : h.first < out[i]

LEMMA HistoryQueries ==
    ASSUME Origin, History
    PROVE  /\ q.batch \in 1..Page
           /\ q.start \in Nat \cup {None} /\ q.stop \in Nat \cup {None}
           /\ q.filter => q.start = None /\ q.stop = None
           /\ q.reader = "reverse" /\ q.start # None =>
                 ByIndex /\ q.start \in 0..(Cardinality(stay) - 1)
<1>1. PICK c \in Cases : c.q = q /\ (q.reader \notin Positional => c.list = stay)
  BY DEF Origin
<1>2. HistoryCase(c) /\ c.list = stay
  BY <1>1, CasesAssumption, ReadersDiffer DEF History
<1>3. q.start \in Nat \cup {None} /\ IsFiniteSet(stay)
  BY <1>1, <1>2, CasesAssumption DEF HistoryCase
<1>4. Cardinality(stay) \in Nat
  BY <1>3, FS_CardinalityType
<1> QED
  BY <1>1, <1>2, <1>3, <1>4 DEF HistoryCase, ByIndex

LEMMA HistoryListInit == Init => HistoryList
<1> SUFFICES ASSUME Init, History PROVE HistoryList
  BY DEF HistoryList
<1>1. PICK c \in Cases : c.q = q /\ list = c.list
  BY DEF Init, Begin
<1>2. HistoryCase(c)
  BY <1>1, CasesAssumption DEF History
<1> QED
  BY <1>1, <1>2 DEF HistoryCase, HistoryList

LEMMA HistoryListStep == ListInv /\ HistoryList /\ [Next]_vars => HistoryList'
<1> SUFFICES ASSUME ListInv, HistoryList, [Next]_vars, History' PROVE HistoryList'
  BY DEF HistoryList
<1>1. CASE UNCHANGED <<q, list>>
  BY <1>1 DEF HistoryList, History
<1>2. CASE Appear
  <2>1. History /\ q.reader # "date"
    BY <1>2 DEF Appear, History, OfOperations
  <2> DEFINE n == Cardinality(list)
  <2>2. n \in Nat /\ list = 0..(n - 1)
    BY <2>1, FS_CardinalityType DEF ListInv, HistoryList
  <2>3. list' = list \cup {n}
    BY <1>2, <2>1 DEF Appear, Places
  <2>4. Cardinality(list') = n + 1
    <3>1. n \notin list
      BY <2>2
    <3> QED
      BY <2>3, <3>1, FS_AddElement DEF ListInv
  <2> HIDE DEF n
  <2>5. list' = 0..n
    BY <2>2, <2>3
  <2>6. (n + 1) - 1 = n
    BY <2>2
  <2> QED
    BY <2>4, <2>5, <2>6 DEF HistoryList
<1>3. CASE Disappear
  BY <1>3, ReadersDiffer DEF Disappear, History
<1>4. CASE SwitchNode \/ Read
  <2>1. UNCHANGED <<q, list>>
    BY <1>4 DEF SwitchNode, Read, ReadHistory, Count, FirstIndex, Created, Latest, Search, Back,
                PageUp, PageDown, ReadPage, ReadDiscussions, ReadDates, FirstGuess, NextGuess, world
  <2> QED
    BY <2>1, <1>1
<1> QED
  BY <1>1, <1>2, <1>3, <1>4 DEF Next, World, vars

\* What a request returns is a part of the history, and when the history is read from an
\* index down that is there, nothing as far from it as a page is long.
LEMMA OperationsFrom ==
    ASSUME ListInv, NEW first, NEW limit
    PROVE  /\ Operations(first, limit) \in SUBSET list
           /\ HistoryList /\ History /\ ~q.filter /\ first \in list /\ limit \in Nat \ {0} =>
                 \A x \in Operations(first, limit) : x <= first /\ first - limit < x
<1>1. /\ Operations(first, limit) \in SUBSET list
      /\ ~q.filter => Operations(first, limit) = Highest(Upto(first), PageSize(limit))
  BY DEF Operations, Highest, Upto
<1>2. ASSUME HistoryList, History, ~q.filter, first \in list, limit \in Nat \ {0},
             NEW x \in Operations(first, limit)
      PROVE  x <= first /\ first - limit < x
  <2>1. list \in SUBSET Nat /\ first \in Nat /\ x \in Nat /\ Cardinality(list) \in Nat
    BY <1>1, <1>2, FS_CardinalityType DEF ListInv
  <2>2. x \in Upto(first) /\ Cardinality({y \in Upto(first) : y > x}) < PageSize(limit)
    BY <1>1, <1>2 DEF Highest
  <2>3. x <= first
    BY <2>1, <2>2 DEF Upto
  <2>4. {y \in Upto(first) : y > x} = (x + 1)..first
    <3>1. list = 0..(Cardinality(list) - 1)
      BY <1>2 DEF HistoryList
    <3>2. \A y : y \in Upto(first) <=> y \in 0..first
      BY <1>2, <2>1, <3>1 DEF Upto
    <3>3. \A y : y \in 0..first /\ y > x <=> y \in (x + 1)..first
      BY <2>1
    <3> QED
      BY <3>2, <3>3
  <2>5. Cardinality((x + 1)..first) = first - x
    <3>1. x + 1 \in Int /\ first \in Int
      BY <2>1
    <3>2. Cardinality((x + 1)..first) = IF x + 1 > first THEN 0 ELSE first - (x + 1) + 1
      BY <3>1, FS_Interval
    <3> QED
      BY <2>1, <2>3, <3>2
  <2>6. PageSize(limit) \in Int /\ PageSize(limit) <= limit
    BY <1>2, PageAssumption DEF PageSize, Least, Greatest
  <2>7. first - x < PageSize(limit)
    BY <2>2, <2>4, <2>5
  <2> QED
    BY <1>2, <2>1, <2>3, <2>6, <2>7
<1> QED
  BY <1>1, <1>2

\* What is shown of a page is a finite part of what is kept of it.
LEMMA ShownTakes ==
    ASSUME ListInv, NEW kept \in SUBSET list, NEW beyond
    PROVE  Shown(kept, beyond) \in SUBSET kept /\ Finite(Shown(kept, beyond))
<1>1. Shown(kept, beyond) \in SUBSET kept
  BY DEF Shown
<1>2. list \in SUBSET Int /\ IsFiniteSet(list)
  BY DEF ListInv
<1>3. IsFiniteSet(Shown(kept, beyond)) /\ Shown(kept, beyond) \in SUBSET Int
  BY <1>1, <1>2, FS_Subset
<1> QED
  BY <1>1, <1>3 DEF Finite

LEMMA HistoryInit == Init /\ History => HistoryInv
<1> SUFFICES ASSUME Init, History PROVE HistoryInv
  OBVIOUS
<1>1. h = Fresh /\ out = <<>>
  BY DEF Init, Begin, History, OfOperations, OfPosts, OfNames, Positional
<1>2. out \in Seq(Int) /\ Len(out) = 0
  BY <1>1, EmptySeq
<1>3. h.pc = "count" /\ h.last = None /\ None \in Int
  BY <1>1 DEF Fresh, None
<1> QED
  BY <1>1, <1>2, <1>3 DEF HistoryInv, Increasing, Decreasing, At

\* Before the pages.
LEMMA SearchStep ==
    ASSUME Origin, ListInv, HistoryList, History, HistoryInv,
           Count \/ FirstIndex \/ Created \/ Latest \/ Search \/ Back
    PROVE  HistoryInv'
<1>1. UNCHANGED <<q, list, out>>
  BY DEF Count, FirstIndex, Created, Latest, Search, Back, world
<1>2. h.pc \in Before0 /\ out = <<>> /\ h.last = None
  BY DEF Count, FirstIndex, Created, Latest, Search, Back, Before0, HistoryInv, At
<1>3. Len(out) = 0 /\ out \in Seq(Int)
  BY <1>2, EmptySeq
<1>4. DOMAIN h = DOMAIN Fresh
  BY DEF HistoryInv
<1>5. CASE q.reader = "forward"
  <2>1. DOMAIN h' = DOMAIN Fresh /\ h'.last = None
    <3> USE <1>2, <1>4, <1>5
    <3>1. \A g, start : DOMAIN g = DOMAIN Fresh /\ g.last = None =>
              DOMAIN Window(g, start) = DOMAIN Fresh /\ Window(g, start).last = None
      BY DEF Window
    <3>2. CASE Count
      BY <3>1, <3>2 DEF Count, Fresh, Forward
    <3>3. CASE FirstIndex
      BY <3>3 DEF FirstIndex, Fresh
    <3>4. CASE Created
      BY <3>4 DEF Created, Fresh, Estimate, Failed
    <3>5. CASE Latest
      BY <3>5 DEF Latest, Fresh, Estimate
    <3>6. CASE Search
      BY <3>6 DEF Search, Fresh, Estimate, Failed
    <3>7. CASE Back
      BY <3>1, <3>7 DEF Back, Fresh, Failed, Forward
    <3> QED
      BY <3>2, <3>3, <3>4, <3>5, <3>6, <3>7
  <2> QED
    BY <1>1, <1>2, <1>3, <1>5, <2>1 DEF HistoryInv, Increasing, None
<1>6. CASE q.reader = "reverse"
  <2>1. Count
    BY <1>6 DEF HistoryInv, At, FirstIndex, Created, Latest, Search, Back
  <2>2. q.start # None => ByIndex /\ q.start \in 0..(Cardinality(stay) - 1) /\ ~q.filter
    BY <1>6, HistoryQueries
  <2>3. Cardinality(stay) <= Cardinality(list) /\ Cardinality(stay) \in Nat /\ Cardinality(list) \in Nat
    <3>1. IsFiniteSet(list) /\ stay \in SUBSET list
      BY DEF ListInv
    <3>2. IsFiniteSet(stay) /\ Cardinality(stay) <= Cardinality(list)
      BY <3>1, FS_Subset
    <3> QED
      BY <3>1, <3>2, FS_CardinalityType
  <2>4. CountOf \in Int
    <3>1. list # {} => Top(list) \in list
      <4>1. list \in SUBSET Int /\ IsFiniteSet(list)
        BY DEF ListInv
      <4> QED
        BY <4>1, Extremes DEF Finite
    <3>2. list # {} => Top(list) \in Nat
      BY <3>1 DEF ListInv
    <3> QED
      BY <3>2 DEF CountOf
  <2> DEFINE g == [h EXCEPT !.max = CountOf]
  <2>5. g.max = CountOf /\ DOMAIN g = DOMAIN Fresh /\ g.last = None
    BY <1>2, <1>4 DEF Fresh
  <2>6. \/ h' = [g EXCEPT !.pc = "done"]
        \/ q.start # None /\ h' = WindowDown(g, q.start)
        \/ q.start = None /\ h' = WindowDown(g, g.max)
    BY <1>6, <2>1, <2>2 DEF Count, Forward
  <2> HIDE DEF g
  <2>7. CASE h' = [g EXCEPT !.pc = "done"]
    <3>1. h'.pc = "done" /\ DOMAIN h' = DOMAIN Fresh
      BY <2>5, <2>7 DEF Fresh
    <3> QED
      BY <1>1, <1>2, <1>3, <1>6, <3>1 DEF HistoryInv, Decreasing, At, Before0
  <2>8. CASE q.start # None /\ h' = WindowDown(g, q.start)
    <3>1. /\ h'.pc = "pages" /\ DOMAIN h' = DOMAIN Fresh /\ h'.first = q.start
          /\ h'.limit = q.batch /\ ~h'.filter
      BY <2>2, <2>5, <2>8 DEF Fresh, WindowDown
    <3>2. q.start \in 0..(Cardinality(list) - 1)
      BY <2>2, <2>3, <2>8
    <3> QED
      BY <1>1, <1>2, <1>3, <1>6, <2>8, <3>1, <3>2 DEF HistoryInv, Decreasing, At, Before0
  <2>9. CASE q.start = None /\ h' = WindowDown(g, g.max)
    <3>1. h'.pc = "pages" /\ DOMAIN h' = DOMAIN Fresh /\ h'.last = CountOf + 1
      BY <2>5, <2>9 DEF Fresh, WindowDown
    <3> QED
      BY <1>1, <1>2, <1>3, <1>6, <2>4, <2>9, <3>1 DEF HistoryInv, Decreasing, At, Before0
  <2> QED
    BY <2>6, <2>7, <2>8, <2>9
<1> QED
  BY <1>5, <1>6 DEF History, OfOperations

LEMMA PageUpStep ==
    ASSUME Origin, ListInv, HistoryList, History, HistoryInv, PageUp
    PROVE  HistoryInv'
<1> DEFINE first == IF OnHive THEN Greatest(h.first, h.limit - 1) ELSE Greatest(h.first, h.limit)
           items == Operations(first, h.limit)
           kept == {i \in items : IF q.start = None THEN i > h.last ELSE Place(i) >= q.start}
           beyond == {i \in kept : q.stop # None /\ Place(i) > q.stop}
           shown == Shown(kept, beyond)
           g == Onwards(first, Cardinality(items))
<1>1. /\ UNCHANGED <<q, list>> /\ h.pc = "pages" /\ q.reader = "forward"
      /\ DOMAIN h = DOMAIN Fresh /\ out \in Seq(Int)
  BY DEF PageUp, Forward, world, HistoryInv, At
<1>2. CASE Failed /\ UNCHANGED out
  <2>1. h'.pc = "failed" /\ h'.last = h.last /\ DOMAIN h' = DOMAIN Fresh /\ out' = out
    BY <1>1, <1>2 DEF Failed, Fresh
  <2> QED
    BY <1>1, <2>1, Zenon DEF HistoryInv, Before0
<1>3. CASE /\ out' = out \o Sorted(shown)
           /\ h' = [g EXCEPT !.last = IF shown = {} THEN @ ELSE Top(shown),
                             !.pc = IF beyond = {} THEN @ ELSE "done"]
  <2>1. g.last = h.last /\ DOMAIN g = DOMAIN Fresh /\ g.pc \in {"pages", "done"}
    <3>1. \A f, n : /\ Onwards(f, n).last = h.last /\ DOMAIN Onwards(f, n) = DOMAIN Fresh
                    /\ Onwards(f, n).pc \in {"pages", "done"}
      BY <1>1 DEF Onwards, Fresh
    <3> QED
      BY <3>1
  <2>2. items \in SUBSET list
    BY OperationsFrom
  <2>3. kept \in SUBSET list
    BY <2>2
  <2>4. shown \in SUBSET kept /\ Finite(shown)
    BY <2>3, ShownTakes
  <2>5. q.start = None => \A x \in shown : x > h.last
    BY <2>4
  <2> HIDE DEF g, shown, beyond
  <2>6. /\ h'.last = IF shown = {} THEN h.last ELSE Top(shown)
        /\ h'.pc \in {"pages", "done"} /\ DOMAIN h' = DOMAIN Fresh
    BY <1>3, <2>1 DEF Fresh
  <2> HIDE DEF kept
  <2>7. /\ Sorted(shown) \in Seq(Int) /\ out' \in Seq(Int)
    BY <1>1, <1>3, <2>4, SortedLists, ConcatProperties
  <2>8. ASSUME q.start = None
        PROVE  Increasing(out') /\ h'.last \in Int /\ \A i \in 1..Len(out') : out'[i] <= h'.last
    <3>1. Increasing(out) /\ h.last \in Int /\ \A i \in 1..Len(out) : out[i] <= h.last
      BY <1>1, <2>8 DEF HistoryInv
    <3>2. \A x \in shown : x \in Int
      BY <2>4 DEF Finite
    <3>3. \A i \in 1..Len(out) : out[i] \in Int
      BY <1>1, ElementOfSeq
    <3>4. \A i \in 1..Len(out) : \A x \in shown : out[i] < x
      BY <2>5, <2>8, <3>1, <3>2, <3>3
    <3>5. /\ Increasing(out')
          /\ {out'[i] : i \in 1..Len(out')} = {out[i] : i \in 1..Len(out)} \cup shown
      <4>1. /\ Increasing(out \o Sorted(shown))
            /\ {(out \o Sorted(shown))[i] : i \in 1..Len(out \o Sorted(shown))} =
                  {out[i] : i \in 1..Len(out)} \cup shown
        BY <1>1, <2>4, <3>1, <3>4, ReturnInOrder
      <4>2. out' = out \o Sorted(shown)
        BY <1>3
      <4> QED
        BY <4>1, <4>2
    <3>6. h'.last \in Int /\ h.last <= h'.last /\ \A x \in shown : x <= h'.last
      <4>1. CASE shown = {}
        BY <2>6, <3>1, <4>1
      <4>2. CASE shown # {}
        <5>1. Top(shown) \in shown /\ \A x \in shown : Top(shown) >= x
          BY <2>4, <4>2, Extremes
        <5>2. h.last < Top(shown)
          BY <2>5, <2>8, <3>1, <3>2, <5>1
        <5> QED
          BY <2>6, <3>1, <3>2, <4>2, <5>1, <5>2
      <4> QED
        BY <4>1, <4>2
    <3>7. ASSUME NEW i \in 1..Len(out') PROVE out'[i] <= h'.last
      <4>1. out'[i] \in {out[j] : j \in 1..Len(out)} \cup shown
        BY <3>5, <3>7
      <4>2. CASE out'[i] \in shown
        BY <3>6, <4>2
      <4>3. CASE out'[i] \notin shown
        <5>1. PICK j \in 1..Len(out) : out'[i] = out[j]
          BY <4>1, <4>3
        <5> QED
          BY <3>1, <3>3, <3>6, <5>1
      <4> QED
        BY <4>2, <4>3
    <3> QED
      BY <3>5, <3>6, <3>7
  <2> QED
    BY <1>1, <2>6, <2>7, <2>8, Zenon DEF HistoryInv, Before0
<1> QED
  BY <1>2, <1>3 DEF PageUp

LEMMA PageDownStep ==
    ASSUME Origin, ListInv, HistoryList, History, HistoryInv, PageDown
    PROVE  HistoryInv'
<1> DEFINE limit == IF h.first - h.limit >= 0 THEN h.limit
                    ELSE IF OnHive THEN h.first + 1 ELSE h.first
           items == Operations(h.first, limit)
           kept == {i \in items : IF q.start = None THEN i < h.last ELSE Place(i) <= q.start}
           beyond == {i \in kept : q.stop # None /\ Place(i) < q.stop}
           shown == Shown(kept, beyond)
           g == Downward(limit, Cardinality(items))
<1>1. /\ UNCHANGED <<q, list>> /\ h.pc = "pages" /\ q.reader = "reverse"
      /\ DOMAIN h = DOMAIN Fresh /\ out \in Seq(Int) /\ Decreasing(out)
  BY DEF PageDown, Forward, world, HistoryInv, At, History, OfOperations
<1>2. CASE Failed /\ UNCHANGED out
  <2>1. h'.pc = "failed" /\ DOMAIN h' = DOMAIN Fresh /\ out' = out
    BY <1>1, <1>2 DEF Failed, Fresh
  <2> QED
    BY <1>1, <2>1, Zenon DEF HistoryInv, Before0, At
<1>3. CASE /\ out' = out \o Downwards(shown)
           /\ h' = [g EXCEPT !.last = IF shown = {} THEN @ ELSE Bottom(shown),
                             !.pc = IF beyond = {} THEN @ ELSE "done"]
  <2>1. /\ g.last = h.last /\ DOMAIN g = DOMAIN Fresh /\ g.pc \in {"pages", "done"}
        /\ g.limit = limit /\ g.filter = h.filter
        /\ g.pc = "pages" => ~(g.first < 1)
        /\ ~h.filter => g.first = h.first - limit
    <3>1. \A l, n : LET d == Downward(l, n) IN
                      /\ d.last = h.last /\ DOMAIN d = DOMAIN Fresh /\ d.pc \in {"pages", "done"}
                      /\ d.limit = l /\ d.filter = h.filter
                      /\ d.pc = "pages" => ~(d.first < 1)
                      /\ ~h.filter => d.first = h.first - l
      BY <1>1 DEF Downward, Fresh
    <3> QED
      BY <3>1
  <2>2. items \in SUBSET list
    BY OperationsFrom
  <2>3. kept \in SUBSET list
    BY <2>2
  <2>4. shown \in SUBSET kept /\ Finite(shown)
    BY <2>3, ShownTakes
  <2>5. shown \in SUBSET items /\ (q.start = None => \A x \in shown : x < h.last)
    BY <2>4
  <2> HIDE DEF g, shown, beyond
  <2>6. /\ h'.last = IF shown = {} THEN h.last ELSE Bottom(shown)
        /\ h'.pc \in {"pages", "done"} /\ DOMAIN h' = DOMAIN Fresh
        /\ h'.limit = limit /\ h'.filter = h.filter /\ h'.first = g.first
        /\ h'.pc = "pages" => g.pc = "pages"
    BY <1>3, <2>1 DEF Fresh
  <2>7. /\ \A x \in shown : x \in Int
        /\ \A i \in 1..Len(out) : out[i] \in Int
    BY <1>1, <2>4, ElementOfSeq DEF Finite
  <2>8. ASSUME \A i \in 1..Len(out) : \A x \in shown : out[i] > x
        PROVE  /\ out' \in Seq(Int) /\ Decreasing(out')
               /\ \A i \in 1..Len(out') : out'[i] \in shown \/ \E j \in 1..Len(out) : out'[i] = out[j]
    BY <1>1, <1>3, <2>4, <2>8, ReturnDownwards
  <2>9. CASE q.start = None
    <3>1. h.last \in Int /\ \A i \in 1..Len(out) : h.last <= out[i]
      BY <1>1, <2>9 DEF HistoryInv, At
    <3>2. \A i \in 1..Len(out) : \A x \in shown : out[i] > x
      BY <2>5, <2>7, <2>9, <3>1
    <3>3. h'.last \in Int /\ h'.last <= h.last /\ \A x \in shown : h'.last <= x
      <4>1. CASE shown = {}
        BY <2>6, <3>1, <4>1
      <4>2. CASE shown # {}
        <5>1. Bottom(shown) \in shown /\ \A x \in shown : Bottom(shown) <= x
          BY <2>4, <4>2, Extremes
        <5> QED
          BY <2>5, <2>6, <2>7, <2>9, <3>1, <4>2, <5>1
      <4> QED
        BY <4>1, <4>2
    <3>4. ASSUME NEW i \in 1..Len(out') PROVE h'.last <= out'[i]
      <4>1. CASE out'[i] \in shown
        BY <3>3, <4>1
      <4>2. CASE out'[i] \notin shown
        <5>1. PICK j \in 1..Len(out) : out'[i] = out[j]
          BY <2>8, <3>2, <3>4, <4>2
        <5> QED
          BY <2>7, <3>1, <3>3, <5>1
      <4> QED
        BY <4>1, <4>2
    <3> QED
      BY <1>1, <2>6, <2>8, <2>9, <3>2, <3>3, <3>4, Zenon DEF HistoryInv, Before0, At
  <2>10. CASE q.start # None
    <3>1. /\ h.first \in 0..(Cardinality(list) - 1) /\ h.limit = q.batch /\ ~h.filter
          /\ \A i \in 1..Len(out) : h.first < out[i]
      BY <1>1, <2>10 DEF HistoryInv, At
    <3>2. /\ h.limit \in Nat \ {0} /\ h.first \in list /\ h.first \in Nat /\ ~q.filter
          /\ Cardinality(list) \in Nat
      BY <2>10, <3>1, HistoryQueries, PageAssumption, FS_CardinalityType DEF HistoryList, ListInv
    <3>3. \A x \in shown : x <= h.first
      <4>1. CASE limit \in Nat \ {0}
        <5>1. \A x \in items : x <= h.first
          BY <3>2, <4>1, OperationsFrom
        <5> QED
          BY <2>5, <5>1
      <4>2. CASE limit \notin Nat \ {0}
        <5>1. items = Highest(Upto(h.first), PageSize(limit))
          BY <3>2 DEF Operations
        <5>2. items \in SUBSET Upto(h.first)
          BY <5>1 DEF Highest
        <5>3. \A x \in items : x <= h.first
          BY <3>2, <5>2 DEF Upto
        <5> QED
          BY <2>5, <5>3
      <4> QED
        BY <4>1, <4>2
    <3>4. \A i \in 1..Len(out) : \A x \in shown : out[i] > x
      BY <2>7, <3>1, <3>2, <3>3
    <3>5. ASSUME h'.pc = "pages"
          PROVE  /\ h'.first \in 0..(Cardinality(list) - 1)
                 /\ h'.limit = q.batch
                 /\ \A i \in 1..Len(out') : h'.first < out'[i]
      <4>1. h'.first = h.first - limit /\ ~(h'.first < 1)
        BY <2>1, <2>6, <3>1, <3>5
      <4>2. limit = h.limit
        BY <3>2, <4>1
      <4>3. h'.first \in 0..(Cardinality(list) - 1)
        BY <3>1, <3>2, <4>1, <4>2
      <4>4. \A x \in shown : h'.first < x
        BY <2>5, <3>2, <4>1, <4>2, OperationsFrom
      <4>5. ASSUME NEW i \in 1..Len(out') PROVE h'.first < out'[i]
        <5>1. CASE out'[i] \in shown
          BY <4>4, <5>1
        <5>2. CASE out'[i] \notin shown
          <6>1. PICK j \in 1..Len(out) : out'[i] = out[j]
            BY <2>8, <3>4, <4>5, <5>2
          <6> QED
            BY <2>7, <3>1, <3>2, <4>1, <4>2, <6>1
        <5> QED
          BY <5>1, <5>2
      <4> QED
        BY <2>6, <3>1, <4>2, <4>3, <4>5
    <3>6. h'.filter = h.filter
      BY <2>6
    <3> QED
      BY <1>1, <2>6, <2>8, <2>10, <3>1, <3>4, <3>5, <3>6, Zenon DEF HistoryInv, Before0, At
  <2> QED
    BY <2>9, <2>10
<1> QED
  BY <1>2, <1>3 DEF PageDown

\* The operations there are, and those to come, have a block, no earlier one than those before.
BlocksInv ==
    History => /\ changes \in 0..MaxChanges
               /\ \A x, y \in 0..(Cardinality(list) + MaxChanges - changes) :
                     block[x] \in Nat /\ (x <= y => block[x] <= block[y])

LEMMA BlocksInit == Init => BlocksInv
<1> SUFFICES ASSUME Init, History PROVE BlocksInv
  BY DEF BlocksInv
<1>1. PICK c \in Cases : c.q = q /\ list = c.list /\ block = c.block /\ changes = 0
  BY DEF Init, Begin
<1>2. HistoryCase(c) /\ IsFiniteSet(c.list)
  BY <1>1, CasesAssumption DEF History
<1>3. Cardinality(list) \in Nat
  BY <1>1, <1>2, FS_CardinalityType
<1>4. /\ Cardinality(list) + MaxChanges - changes = Cardinality(list) + MaxChanges
      /\ changes \in 0..MaxChanges
  BY <1>1, <1>3, ChangesAssumption
<1> QED
  BY <1>1, <1>2, <1>4 DEF HistoryCase, BlocksInv

LEMMA BlocksStep == ListInv /\ BlocksInv /\ [Next]_vars => BlocksInv'
<1> SUFFICES ASSUME ListInv, BlocksInv, [Next]_vars, History' PROVE BlocksInv'
  BY DEF BlocksInv
<1>0. q' = q /\ History
  BY DEF Next, World, Appear, Disappear, SwitchNode, Read, ReadHistory, Count, FirstIndex, Created,
         Latest, Search, Back, PageUp, PageDown, ReadPage, ReadDiscussions, ReadDates, FirstGuess,
         NextGuess, vars, History
<1>1. Cardinality(list) \in Nat /\ IsFiniteSet(list)
  BY FS_CardinalityType DEF ListInv
<1>2. CASE Appear
  <2>1. q.reader # "date" /\ ~Threads
    BY <1>0 DEF History, OfOperations, Threads
  <2>2. list' = list \cup {Cardinality(list)} /\ block' = block /\ changes' = changes + 1
    BY <1>0, <1>2, <2>1 DEF Appear, Places
  <2>3. Cardinality(list') \in Nat /\ Cardinality(list') <= Cardinality(list) + 1
    <3>1. Cardinality(list') = IF Cardinality(list) \in list THEN Cardinality(list) ELSE Cardinality(list) + 1
      BY <1>1, <2>2, FS_AddElement
    <3> QED
      BY <1>1, <3>1
  <2>4. changes \in Nat /\ changes' \in 0..MaxChanges
    BY <1>0, <1>2, <2>2, ChangesAssumption DEF BlocksInv, Appear
  <2>5. \A x \in 0..(Cardinality(list') + MaxChanges - changes') :
            x \in 0..(Cardinality(list) + MaxChanges - changes)
    BY <1>1, <2>2, <2>3, <2>4, ChangesAssumption
  <2> QED
    BY <1>0, <2>2, <2>4, <2>5 DEF BlocksInv
<1>3. CASE SwitchNode
  <2>1. changes' = changes + 1 /\ list' = list /\ block' = block
    BY <1>3 DEF SwitchNode
  <2>2. changes \in Nat /\ changes' \in 0..MaxChanges
    BY <1>0, <1>3, <2>1, ChangesAssumption DEF BlocksInv, SwitchNode
  <2>3. \A x \in 0..(Cardinality(list) + MaxChanges - changes') :
            x \in 0..(Cardinality(list) + MaxChanges - changes)
    BY <1>1, <2>1, <2>2, ChangesAssumption
  <2> QED
    BY <1>0, <2>1, <2>2, <2>3 DEF BlocksInv
<1>4. CASE UNCHANGED <<list, block, changes>>
  BY <1>0, <1>4 DEF BlocksInv
<1>5. Read => UNCHANGED <<list, block, changes>>
  BY DEF Read, ReadHistory, Count, FirstIndex, Created, Latest, Search, Back, PageUp, PageDown,
         ReadPage, ReadDiscussions, ReadDates, FirstGuess, NextGuess, world
<1>6. ~Disappear
  BY <1>0, ReadersDiffer DEF Disappear
<1> QED
  BY <1>2, <1>3, <1>4, <1>5, <1>6 DEF Next, World, vars

\* What was returned of a history was asked for.
KeptInv == \A i \in 1..Len(out) : Asked(out[i])

\* What is shown of a page was asked for.
LEMMA ShownAsked ==
    ASSUME Origin, ListInv, HistoryList, History, BlocksInv, NEW first, NEW limit,
           NEW kept \in SUBSET Operations(first, limit),
           q.reader = "forward" /\ q.start # None => \A x \in kept : Place(x) >= q.start,
           q.reader = "reverse" /\ q.start # None => \A x \in kept : Place(x) <= q.start,
           NEW beyond,
           beyond = {x \in kept : q.stop # None /\ IF Forward THEN Place(x) > q.stop ELSE Place(x) < q.stop},
           NEW x \in Shown(kept, beyond)
    PROVE  Asked(x)
<1>1. x \in kept /\ x \in list /\ x \in Nat
  BY OperationsFrom DEF Shown, ListInv
<1>2. x \notin beyond
  BY <1>1 DEF Shown
<1>3. Place(x) \in Nat
  <2>1. x \in 0..(Cardinality(list) + MaxChanges - changes)
    <3>1. Cardinality(list) \in Nat /\ x \in 0..(Cardinality(list) - 1)
      BY <1>1, FS_CardinalityType DEF HistoryList, ListInv
    <3> QED
      BY <1>1, <3>1, ChangesAssumption DEF BlocksInv
  <2> QED
    BY <1>1, <2>1 DEF BlocksInv, Place
<1>4. q.filter => x \in chosen
  BY <1>1 DEF Operations, Highest
<1>5. Key(x) = Place(x) /\ q.start \in Nat \cup {None} /\ q.stop \in Nat \cup {None}
  BY HistoryQueries DEF Key
<1>6. CASE q.reader = "forward"
  <2>1. Lower = q.start /\ Upper = q.stop /\ (Lower # None => Place(x) >= Lower)
    BY <1>1, <1>6 DEF Lower, Upper
  <2>2. q.stop # None => ~(Place(x) > q.stop)
    BY <1>1, <1>2, <1>6 DEF Forward
  <2> QED
    BY <1>3, <1>4, <1>5, <2>1, <2>2 DEF Asked, InRange
<1>7. CASE q.reader = "reverse"
  <2>1. Lower = q.stop /\ Upper = q.start /\ (Upper # None => Place(x) <= Upper)
    BY <1>1, <1>7 DEF Lower, Upper
  <2>2. q.stop # None => ~(Place(x) < q.stop)
    BY <1>1, <1>2, <1>7 DEF Forward
  <2> QED
    BY <1>3, <1>4, <1>5, <2>1, <2>2 DEF Asked, InRange
<1> QED
  BY <1>6, <1>7 DEF History, OfOperations

\* What is returned is what was, and what is shown of a page.
LEMMA AskedAfter ==
    ASSUME HistoryInv, KeptInv, NEW new, Finite(new), \A x \in new : Asked(x),
           NEW t, t \in {Sorted(new), Downwards(new)}, out' = out \o t,
           UNCHANGED <<q, world>>
    PROVE  KeptInv'
<1>1. t \in Seq(Int) /\ {t[i] : i \in 1..Len(t)} = new /\ out \in Seq(Int)
  <2>1. CASE t = Sorted(new)
    <3>1. Sorted(new) \in Seq(Int) /\ {Sorted(new)[i] : i \in 1..Len(Sorted(new))} = new
      BY SortedLists
    <3> QED
      BY <2>1, <3>1 DEF HistoryInv
  <2>2. CASE t = Downwards(new)
    <3>1. Downwards(new) \in Seq(Int) /\ {Downwards(new)[i] : i \in 1..Len(Downwards(new))} = new
      BY DownwardsLists
    <3> QED
      BY <2>2, <3>1 DEF HistoryInv
  <2> QED
    BY <2>1, <2>2
<1>2. Len(t) \in Nat /\ Len(out) \in Nat
  BY <1>1, LenProperties
<1>3. /\ Len(out') = Len(out) + Len(t)
      /\ \A i \in 1..(Len(out) + Len(t)) : out'[i] = IF i <= Len(out) THEN out[i] ELSE t[i - Len(out)]
  BY <1>1, ConcatProperties
<1>4. ASSUME NEW i \in 1..Len(out') PROVE Asked(out'[i])
  <2>1. CASE i <= Len(out)
    BY <1>2, <1>3, <2>1 DEF KeptInv
  <2>2. CASE ~(i <= Len(out))
    <3>1. i - Len(out) \in 1..Len(t)
      BY <1>2, <1>3, <2>2
    <3> QED
      BY <1>1, <1>2, <1>3, <2>2, <3>1
  <2> QED
    BY <2>1, <2>2
<1>5. list' = list /\ block' = block /\ chosen' = chosen /\ blank' = blank /\ q' = q
  BY DEF world
<1>6. ASSUME NEW i \in 1..Len(out') PROVE Asked(out[i])'
  <2>1. Asked(out'[i])
    BY <1>4
  <2>2. Discussion(q.start)' = Discussion(q.start)
    BY <1>5 DEF Discussion
  <2> QED
    BY <1>5, <2>1, <2>2 DEF Asked, InRange, Lower, Upper, Key, Place, ByIndex, History, OfKind, Wanted
<1> QED
  BY <1>6 DEF KeptInv

LEMMA KeptStep ==
    ASSUME Origin, ListInv, HistoryList, History, BlocksInv, HistoryInv, KeptInv, [Next]_vars
    PROVE  KeptInv'
<1>1. ASSUME q' = q, out' = out, block' = block, blank' = blank, chosen \subseteq chosen'
      PROVE  KeptInv'
  BY <1>1 DEF KeptInv, Asked, InRange, Lower, Upper, Key, Place, ByIndex, History
<1>2. CASE Appear \/ SwitchNode \/ UNCHANGED vars
  <2>1. ~Threads
    BY DEF Threads, History, OfOperations
  <2>2. q' = q /\ out' = out /\ block' = block /\ blank' = blank /\ chosen \subseteq chosen'
    BY <1>2, <2>1 DEF Appear, SwitchNode, vars
  <2> QED
    BY <1>1, <2>2
<1>3. ~Disappear /\ ~ReadPage /\ ~ReadDiscussions /\ ~ReadDates
  BY ReadersDiffer DEF Disappear, ReadPage, ReadDiscussions, ReadDates, History, OfOperations
<1>4. CASE Count \/ FirstIndex \/ Created \/ Latest \/ Search \/ Back
  <2>1. q' = q /\ out' = out /\ block' = block /\ blank' = blank /\ chosen \subseteq chosen'
    BY <1>4 DEF Count, FirstIndex, Created, Latest, Search, Back, world
  <2> QED
    BY <1>1, <2>1
<1>5. CASE PageUp
  <2> DEFINE first == IF OnHive THEN Greatest(h.first, h.limit - 1) ELSE Greatest(h.first, h.limit)
             items == Operations(first, h.limit)
             kept == {i \in items : IF q.start = None THEN i > h.last ELSE Place(i) >= q.start}
             beyond == {i \in kept : q.stop # None /\ Place(i) > q.stop}
             shown == Shown(kept, beyond)
  <2>1. Forward /\ q.reader = "forward" /\ UNCHANGED <<q, world>>
    BY <1>5 DEF PageUp, Forward
  <2>2. UNCHANGED out \/ out' = out \o Sorted(shown)
    BY <1>5 DEF PageUp
  <2>3. kept \in SUBSET items /\ items \in SUBSET list
    BY OperationsFrom
  <2>4. kept \in SUBSET list /\ (q.start # None => \A i \in kept : Place(i) >= q.start)
    BY <2>3
  <2>5. Finite(shown)
    BY <2>4, ShownTakes
  <2>6. beyond = {x \in kept : q.stop # None /\ IF Forward THEN Place(x) > q.stop ELSE Place(x) < q.stop}
    BY <2>1
  <2> HIDE DEF kept, beyond
  <2>7. \A x \in shown : Asked(x)
    BY <2>1, <2>3, <2>4, <2>6, ShownAsked
  <2> HIDE DEF shown
  <2>8. CASE out' = out \o Sorted(shown)
    BY <2>1, <2>5, <2>7, <2>8, AskedAfter
  <2>9. CASE UNCHANGED out
    BY <1>1, <2>1, <2>9 DEF world
  <2> QED
    BY <2>2, <2>8, <2>9
<1>6. CASE PageDown
  <2> DEFINE limit == IF h.first - h.limit >= 0 THEN h.limit
                      ELSE IF OnHive THEN h.first + 1 ELSE h.first
             items == Operations(h.first, limit)
             kept == {i \in items : IF q.start = None THEN i < h.last ELSE Place(i) <= q.start}
             beyond == {i \in kept : q.stop # None /\ Place(i) < q.stop}
             shown == Shown(kept, beyond)
  <2>1. ~Forward /\ q.reader = "reverse" /\ UNCHANGED <<q, world>>
    BY <1>6 DEF PageDown, Forward, History, OfOperations
  <2>2. UNCHANGED out \/ out' = out \o Downwards(shown)
    BY <1>6 DEF PageDown
  <2>3. kept \in SUBSET items /\ items \in SUBSET list
    BY OperationsFrom
  <2>4. kept \in SUBSET list /\ (q.start # None => \A i \in kept : Place(i) <= q.start)
    BY <2>3
  <2>5. Finite(shown)
    BY <2>4, ShownTakes
  <2>6. beyond = {x \in kept : q.stop # None /\ IF Forward THEN Place(x) > q.stop ELSE Place(x) < q.stop}
    BY <2>1
  <2> HIDE DEF kept, beyond, limit
  <2>7. \A x \in shown : Asked(x)
    BY <2>1, <2>3, <2>4, <2>6, ShownAsked
  <2> HIDE DEF shown
  <2>8. CASE out' = out \o Downwards(shown)
    BY <2>1, <2>5, <2>7, <2>8, AskedAfter
  <2>9. CASE UNCHANGED out
    BY <1>1, <2>1, <2>9 DEF world
  <2> QED
    BY <2>2, <2>8, <2>9
<1> QED
  BY <1>2, <1>3, <1>4, <1>5, <1>6 DEF Next, World, Read, ReadHistory

LEMMA HistoryStep ==
    Origin /\ ListInv /\ HistoryList /\ History /\ HistoryInv /\ [Next]_vars => HistoryInv'
<1> SUFFICES ASSUME Origin, ListInv, HistoryList, History, HistoryInv, [Next]_vars
             PROVE  HistoryInv'
  OBVIOUS
<1>1. CASE UNCHANGED <<q, list, h, out>>
  BY <1>1 DEF HistoryInv, Increasing, Decreasing, At
<1>2. CASE Appear
  <2>1. UNCHANGED <<q, h, out>> /\ list \in SUBSET list'
    BY <1>2 DEF Appear
  <2>2. IsFiniteSet(list') /\ IsFiniteSet(list)
    <3>1. ListInv'
      BY ListStep
    <3> QED
      BY <3>1 DEF ListInv
  <2>3. Cardinality(list) <= Cardinality(list')
    BY <2>1, <2>2, FS_Subset
  <2>4. Cardinality(list) \in Nat /\ Cardinality(list') \in Nat
    BY <2>2, FS_CardinalityType
  <2>5. h.first \in 0..(Cardinality(list) - 1) => h.first \in 0..(Cardinality(list') - 1)
    BY <2>3, <2>4
  <2> QED
    BY <2>1, <2>5 DEF HistoryInv, Increasing, Decreasing, At
<1>3. ~Disappear /\ (SwitchNode => UNCHANGED <<q, list, h, out>>)
  BY ReadersDiffer DEF Disappear, SwitchNode
<1>4. CASE ReadHistory
  BY <1>4, SearchStep, PageUpStep, PageDownStep DEF ReadHistory
<1>5. ~ReadPage /\ ~ReadDiscussions /\ ~ReadDates
  BY DEF ReadPage, ReadDiscussions, ReadDates, History, OfOperations
<1> QED
  BY <1>1, <1>2, <1>3, <1>4, <1>5 DEF Next, World, Read, vars

-----------------------------------------------------------------------------
(* No operation falls between two windows of a history.                    *)

\* The highest entries of a set: those above one of them are among them, an entry that is near
\* the end is, and if they are less than they may be they are all.
LEMMA HighestTakes ==
    ASSUME NEW S, Finite(S), NEW n \in Int
    PROVE  /\ Highest(S, n) \in SUBSET S /\ Finite(Highest(S, n))
           /\ \A x \in S, y \in Highest(S, n) : y <= x => x \in Highest(S, n)
           /\ \A end \in Int, x \in S :
                 (\A y \in S : y <= end) /\ end - x < n /\ x <= end => x \in Highest(S, n)
           /\ Cardinality(Highest(S, n)) < n => Highest(S, n) = S
<1> DEFINE Above(x) == {y \in S : y > x}
           P == Highest(S, n)
<1>0. IsFiniteSet(S) /\ S \in SUBSET Int
  BY DEF Finite
<1>1. P \in SUBSET S /\ \A x \in S : x \in P <=> Cardinality(Above(x)) < n
  BY DEF Highest
<1>2. Finite(P)
  BY <1>0, <1>1, FS_Subset DEF Finite
<1>3. \A x \in S : IsFiniteSet(Above(x)) /\ Cardinality(Above(x)) \in Nat
  <2> SUFFICES ASSUME NEW x \in S
               PROVE  IsFiniteSet(Above(x)) /\ Cardinality(Above(x)) \in Nat
    OBVIOUS
  <2>1. Above(x) \in SUBSET S
    OBVIOUS
  <2>2. IsFiniteSet(Above(x))
    BY <1>0, <2>1, FS_Subset
  <2> QED
    BY <2>2, FS_CardinalityType
<1>4. ASSUME NEW x \in S, NEW y \in P, y <= x PROVE x \in P
  <2>1. y \in S /\ Cardinality(Above(y)) < n
    BY <1>1
  <2>2. Above(x) \in SUBSET Above(y)
    <3>1. ASSUME NEW z \in S, z > x PROVE z > y
      <4>1. x \in Int /\ y \in Int /\ z \in Int
        BY <1>0, <2>1
      <4> QED
        BY <1>4, <3>1, <4>1
    <3> QED
      BY <3>1
  <2>3. Cardinality(Above(x)) <= Cardinality(Above(y))
    BY <1>3, <2>1, <2>2, FS_Subset
  <2>4. Cardinality(Above(x)) \in Nat /\ Cardinality(Above(y)) \in Nat
    BY <1>3, <2>1
  <2> HIDE DEF Above
  <2>5. Cardinality(Above(x)) < n
    BY <2>1, <2>3, <2>4
  <2> QED
    BY <1>1, <2>5
<1>5. ASSUME NEW end \in Int, NEW x \in S, \A y \in S : y <= end, end - x < n, x <= end
      PROVE  x \in P
  <2>1. x \in Int /\ x + 1 \in Int
    BY <1>0
  <2>2. Above(x) \in SUBSET ((x + 1)..end)
    <3>1. ASSUME NEW z \in S, z > x PROVE z \in (x + 1)..end
      <4>1. z \in Int /\ z <= end
        BY <1>0, <1>5
      <4> QED
        BY <1>5, <2>1, <3>1, <4>1
    <3> QED
      BY <3>1
  <2>3. /\ IsFiniteSet((x + 1)..end)
        /\ Cardinality((x + 1)..end) = IF x + 1 > end THEN 0 ELSE end - (x + 1) + 1
    BY <2>1, FS_Interval
  <2>4. Cardinality((x + 1)..end) = end - x
    BY <1>5, <2>1, <2>3
  <2>5. Cardinality(Above(x)) <= Cardinality((x + 1)..end)
    BY <2>2, <2>3, FS_Subset
  <2>6. Cardinality(Above(x)) \in Nat
    BY <1>3
  <2> HIDE DEF Above
  <2>7. Cardinality(Above(x)) < n
    BY <1>5, <2>1, <2>4, <2>5, <2>6
  <2> QED
    BY <1>1, <2>7
<1>6. ASSUME Cardinality(P) < n PROVE P = S
  <2> SUFFICES ASSUME S \ P # {} PROVE FALSE
    BY <1>1
  <2>1. Finite(S \ P)
    BY <1>0, FS_Subset DEF Finite
  <2> DEFINE x == Top(S \ P)
  <2>2. x \in S \ P /\ \A y \in S \ P : x >= y
    BY <2>1, Extremes
  <2> HIDE DEF x
  <2>3. Above(x) \in SUBSET P
    <3>1. ASSUME NEW z \in S, z > x PROVE z \in P
      <4>1. x \in Int /\ z \in Int
        BY <1>0, <2>2
      <4>2. z \notin S \ P
        BY <2>2, <3>1, <4>1
      <4> QED
        BY <3>1, <4>2
    <3> HIDE DEF P
    <3> QED
      BY <3>1
  <2>4. Cardinality(Above(x)) <= Cardinality(P) /\ Cardinality(P) \in Nat
    BY <1>2, <2>3, FS_Subset, FS_CardinalityType DEF Finite
  <2>5. Cardinality(Above(x)) \in Nat /\ ~(Cardinality(Above(x)) < n)
    BY <1>1, <1>3, <2>2
  <2> HIDE DEF Above, P
  <2> QED
    BY <1>6, <2>4, <2>5
<1> QED
  BY <1>1, <1>2, <1>4, <1>5, <1>6 DEF P

\* What a request with a filter returns.
Matches(x) == q.filter => x \in chosen

\* A request for an operation that may be there returns those that match, as many before it
\* as a page holds, and none of those that it returns has left out one after it.
LEMMA OperationsReach ==
    ASSUME ListInv, NEW first \in Nat, NEW limit \in 0..Page
    PROVE  /\ \A x \in Operations(first, limit) : x \in list /\ x <= first
           /\ \A x \in list : x <= first /\ first - limit < x /\ Matches(x) =>
                 x \in Operations(first, limit)
           /\ \A x \in list, y \in Operations(first, limit) :
                 y <= x /\ x <= first /\ Matches(x) => x \in Operations(first, limit)
           /\ q.filter /\ OnHive /\ limit = Page /\ Cardinality(Operations(first, limit)) < Page =>
                 \A x \in list : x <= first /\ first - 2 * Page < x /\ Matches(x) =>
                     x \in Operations(first, limit)
<1> DEFINE U == Upto(first)
           n == PageSize(limit)
           items == Highest(U, n)
           lookedAt == Highest(U, 2 * Page)
           matching == lookedAt \cap chosen
           found == Highest(matching, n)
<1>0. list \in SUBSET Nat /\ Page \in Nat /\ Page > 1
  BY PageAssumption DEF ListInv
<1>1. U \in SUBSET list /\ Finite(U) /\ \A x \in list : x \in U <=> x <= first
  <2>1. U \in SUBSET list /\ \A x \in list : x \in U <=> x <= first
    BY DEF Upto
  <2> HIDE DEF U
  <2>2. IsFiniteSet(U)
    BY <2>1, FS_Subset DEF ListInv
  <2>3. U \in SUBSET Int
    BY <1>0, <2>1
  <2> QED
    BY <2>1, <2>2, <2>3 DEF Finite
<1>2. n \in Int /\ limit <= n /\ n <= Page /\ n >= 1 /\ (limit = Page => n = Page) /\ 2 * Page \in Int
  BY <1>0 DEF PageSize, Least, Greatest
<1> HIDE DEF U, n
<1>3. /\ items \in SUBSET U
      /\ \A x \in U, y \in items : y <= x => x \in items
      /\ \A x \in U : first - x < n => x \in items
  <2>1. /\ items \in SUBSET U
        /\ \A x \in U, y \in items : y <= x => x \in items
        /\ \A end \in Int, x \in U :
              (\A y \in U : y <= end) /\ end - x < n /\ x <= end => x \in items
    BY <1>1, <1>2, HighestTakes
  <2> HIDE DEF items
  <2> QED
    BY <1>1, <2>1
<1>4. /\ lookedAt \in SUBSET U
      /\ \A x \in U, y \in lookedAt : y <= x => x \in lookedAt
      /\ \A x \in U : first - x < 2 * Page => x \in lookedAt
  <2>1. /\ lookedAt \in SUBSET U
        /\ \A x \in U, y \in lookedAt : y <= x => x \in lookedAt
        /\ \A end \in Int, x \in U :
              (\A y \in U : y <= end) /\ end - x < 2 * Page /\ x <= end => x \in lookedAt
    BY <1>1, <1>2, HighestTakes
  <2> HIDE DEF lookedAt
  <2> QED
    BY <1>1, <2>1
<1> HIDE DEF items, lookedAt
<1>5. Finite(matching)
  <2>1. matching \in SUBSET U
    BY <1>4
  <2> QED
    BY <1>1, <2>1, FS_Subset DEF Finite
<1>6. /\ found \in SUBSET matching
      /\ \A x \in matching, y \in found : y <= x => x \in found
      /\ \A x \in matching : first - x < n => x \in found
      /\ Cardinality(found) < n => found = matching
  <2>1. /\ found \in SUBSET matching
        /\ \A x \in matching, y \in found : y <= x => x \in found
        /\ \A end \in Int, x \in matching :
              (\A y \in matching : y <= end) /\ end - x < n /\ x <= end => x \in found
        /\ Cardinality(found) < n => found = matching
    BY <1>2, <1>5, HighestTakes
  <2>2. \A y \in matching : y <= first
    BY <1>1, <1>4
  <2> HIDE DEF found, matching
  <2> QED
    BY <2>1, <2>2
<1>7. Operations(first, limit) = IF ~q.filter THEN items
                                 ELSE IF OnHive THEN found ELSE items \cap chosen
  BY DEF Operations, items, lookedAt, found, matching, U, n
<1> HIDE DEF found
<1>a. \A x \in list : first - limit < x => first - x < n
  BY <1>0, <1>2
<1>b. /\ \A x \in items : x \in list /\ x <= first
      /\ \A x \in list : x <= first /\ first - limit < x => x \in items
      /\ \A x \in list, y \in items : y <= x /\ x <= first => x \in items
  BY <1>1, <1>3, <1>a
<1>8. CASE ~q.filter
  BY <1>7, <1>8, <1>b
<1>9. CASE q.filter /\ ~OnHive
  BY <1>7, <1>9, <1>b DEF Matches
<1>10. CASE q.filter /\ OnHive
  <2>1. \A x \in found : x \in list /\ x <= first
    BY <1>1, <1>4, <1>6
  <2>2. ASSUME NEW x \in list, x <= first, first - limit < x, Matches(x) PROVE x \in found
    <3>1. first - x < n /\ first - x < 2 * Page
      BY <1>0, <1>2, <2>2
    <3> QED
      BY <1>1, <1>4, <1>6, <1>10, <2>2, <3>1 DEF Matches
  <2>3. ASSUME NEW x \in list, NEW y \in found, y <= x, x <= first, Matches(x) PROVE x \in found
    <3>1. y \in lookedAt /\ x \in U
      BY <1>1, <1>6, <2>3
    <3>2. x \in matching
      BY <1>4, <1>10, <2>3, <3>1 DEF Matches
    <3> QED
      BY <1>6, <2>3, <3>2
  <2>4. ASSUME limit = Page, Cardinality(found) < Page,
               NEW x \in list, x <= first, first - 2 * Page < x, Matches(x)
        PROVE  x \in found
    <3>1. found = matching
      BY <1>2, <1>6, <2>4
    <3>2. first - x < 2 * Page
      BY <1>0, <2>4
    <3> QED
      BY <1>1, <1>4, <1>10, <2>4, <3>1, <3>2 DEF Matches
  <2> QED
    BY <1>7, <1>10, <2>1, <2>2, <2>3, <2>4
<1> QED
  BY <1>8, <1>9, <1>10

\* The blocks of the operations ascend.
LEMMA PlacesAscend ==
    ASSUME ListInv, HistoryList, BlocksInv, History, NEW x \in list, NEW y \in list
    PROVE  /\ block[x] \in Nat /\ Place(x) \in Nat
           /\ x <= y => block[x] <= block[y] /\ Place(x) <= Place(y)
<1>1. Cardinality(list) \in Nat /\ list = 0..(Cardinality(list) - 1)
  BY FS_CardinalityType DEF ListInv, HistoryList
<1>2. \A z \in list : z \in 0..(Cardinality(list) + MaxChanges - changes)
  BY <1>1, ChangesAssumption DEF BlocksInv
<1>3. block[x] \in Nat /\ (x <= y => block[x] <= block[y])
  BY <1>2 DEF BlocksInv
<1> QED
  BY <1>1, <1>3 DEF Place

\* What was asked for is not before the start, nor beyond the stop.
LEMMA HistoryAsked ==
    ASSUME Origin, History, NEW x, Asked(x)
    PROVE  /\ Matches(x)
           /\ Forward => /\ q.start # None => Place(x) >= q.start
                         /\ q.stop # None => Place(x) <= q.stop
           /\ ~Forward => /\ q.start # None => Place(x) <= q.start
                          /\ q.stop # None => Place(x) >= q.stop
BY DEF Asked, InRange, Key, Lower, Upper, Forward, Matches, History, OfOperations

\* Of what is kept of a page all that was asked for is shown; and when something is beyond the
\* stop, what was asked for is before it.
LEMMA ShownReaches ==
    ASSUME Origin, ListInv, HistoryList, BlocksInv, History,
           NEW kept \in SUBSET list, NEW beyond,
           beyond = {x \in kept : q.stop # None /\ IF Forward THEN Place(x) > q.stop ELSE Place(x) < q.stop},
           NEW x \in list, Asked(x)
    PROVE  /\ \A b \in beyond : IF Forward THEN x < b ELSE x > b
           /\ x \in kept => x \in Shown(kept, beyond)
<1>1. q.stop \in Nat \cup {None}
  BY HistoryQueries
<1>2. ASSUME NEW b \in beyond PROVE IF Forward THEN ~(x >= b) ELSE ~(x <= b)
  <2>1. b \in list /\ Place(b) \in Nat /\ Place(x) \in Nat
    BY PlacesAscend
  <2>2. /\ b <= x => Place(b) <= Place(x)
        /\ x <= b => Place(x) <= Place(b)
    BY <2>1, PlacesAscend
  <2>3. CASE Forward
    BY <1>1, <2>1, <2>2, <2>3, HistoryAsked DEF ListInv
  <2>4. CASE ~Forward
    BY <1>1, <2>1, <2>2, <2>4, HistoryAsked DEF ListInv
  <2> QED
    BY <2>3, <2>4
<1>3. \A b \in beyond : b \in Int /\ x \in Int
  BY DEF ListInv
<1>4. x \in kept => x \in Shown(kept, beyond)
  BY <1>2, Zenon DEF Shown
<1> QED
  BY <1>2, <1>3, <1>4

-----------------------------------------------------------------------------
\* Before the pages nothing has been returned.
Searching == {"first", "created", "latest", "search", "back"}

\* The operations that were there at the first request are counted.
CountInv ==
    /\ At("count") => h = Fresh
    /\ ~At("count") => h.max \in Nat /\ \A x \in stay : x <= h.max

\* The search for the first operation that is not before a block: its lower bound, and the
\* index where the pages may begin, have nothing before them that was asked for.
SearchInv ==
    h.pc \in Searching =>
        /\ Forward /\ ~ByIndex /\ q.start \in Nat /\ 0 \in list
        /\ h.max # 0 /\ ~h.filter /\ h.lastRound = FALSE
        /\ h.min \in {0, 1} /\ h.diff \in Nat
        /\ h.pc # "back" =>
              /\ h.diff = 0
              /\ h.low \in Nat /\ h.up \in Int /\ h.guess \in Int /\ h.seen \in Int
        /\ h.pc \in {"first", "created", "latest"} => h.low = 0 /\ h.guess = None
        /\ h.pc \in {"latest", "search"} =>
              /\ h.created \in Int /\ h.created < q.start
              /\ h.guess = None => h.low = 0 /\ h.up >= 1
              /\ \A x \in stay : x <= h.low => block[x] < q.start
        /\ At("search") =>
              /\ h.upBlock \in Int /\ q.start < h.upBlock
              /\ \A x \in stay : x <= h.guess => block[x] <= h.seen
        /\ At("back") =>
              /\ h.est \in Nat /\ h.diff <= h.est
              /\ \A x \in stay : x < h.est => x = 0 \/ block[x] <= q.start

\* Only the first operation is at the stop or before it.
StopsAtOnce == ByIndex /\ q.stop = 0

\* The windows: that of the next page, upwards, begins behind what was returned last; the last
\* one ends at the number of operations.
WindowInv ==
    At("pages") =>
        /\ h.filter => q.filter /\ (~disturbed => OnHive)
        /\ Forward /\ ~Skips =>
              /\ h.first \in Int /\ h.limit \in 0..q.batch /\ h.limit <= h.first + 1
              /\ h.lastRound \in BOOLEAN /\ (h.lastRound => h.first = h.max)
              /\ ~StopsAtOnce =>
                    /\ h.first >= 0
                    /\ q.start = None => h.limit >= 1 /\ h.last <= h.first - h.limit
        /\ ~Forward => h.first \in Nat /\ h.limit = q.batch

\* Operations that no later page will return.
Behind(x) ==
    IF Forward THEN x <= h.first - h.limit ELSE x > h.first \/ (q.start = None /\ x >= h.last)

\* What lies behind was returned; and at the end all.
BehindInv ==
    ~disturbed /\ ~Skips =>
        /\ At("pages") => \A x \in stay : Asked(x) /\ Behind(x) => x \in Returned \/ Excused(x)
        /\ At("done") => \A x \in stay : Asked(x) => x \in Returned \/ Excused(x)

\* Why nothing is left out.
Complete == CountInv /\ SearchInv /\ WindowInv /\ BehindInv

\* At first only the count is missing.
LEMMA CompleteInit == Init /\ History => Complete
<1> SUFFICES ASSUME Init, History PROVE Complete
  OBVIOUS
<1>1. h = Fresh
  BY DEF Init, Begin, History, OfOperations, OfPosts, OfNames, Positional
<1>2. h.pc = "count"
  BY <1>1 DEF Fresh
<1> QED
  BY <1>1, <1>2 DEF Complete, CountInv, SearchInv, WindowInv, BehindInv, At, Searching

\* What is asked for, and may be left out, does not depend on where the reader is.
LEMMA HistoryAskedSame ==
    ASSUME History, UNCHANGED <<q, block>>, NEW x, x \in chosen' <=> x \in chosen
    PROVE  /\ Asked(x)' <=> Asked(x)
           /\ Excused(x)' <=> Excused(x)
<1>1. q' = q /\ block' = block /\ History'
  BY DEF History
<1>2. Place(x)' = Place(x) /\ (ByIndex' <=> ByIndex)
  BY <1>1 DEF Place, ByIndex
<1>3. Key(x)' = Key(x)
  BY <1>1, <1>2 DEF Key
<1>4. InRange(x)' <=> InRange(x)
  BY <1>1, <1>3 DEF InRange, Lower, Upper
<1>5. q.reader \notin OfPosts \cup {"accounts"}
  BY DEF History, OfOperations, OfPosts
<1> QED
  BY <1>1, <1>2, <1>3, <1>4, <1>5 DEF Asked, Excused

\* The history grows, or another node answers.
LEMMA WorldKeepsComplete ==
    ASSUME ListInv, HistoryList, History, HistoryInv, Complete, Appear \/ SwitchNode
    PROVE  Complete'
<1>1. /\ q' = q /\ h' = h /\ out' = out /\ stay' = stay /\ block' = block /\ ~Ended
      /\ list \subseteq list' /\ \A x \in stay : x \in chosen' <=> x \in chosen
  <2>1. CASE Appear
    <3>1. q.reader # "date" /\ ~Threads
      BY DEF History, OfOperations, Threads
    <3>2. /\ list' = list \cup {Cardinality(list)}
          /\ chosen' \in {chosen, chosen \cup {Cardinality(list)}}
      BY <2>1, <3>1 DEF Appear, Places
    <3>3. Cardinality(list) \notin list
      <4>1. Cardinality(list) \in Nat /\ list = 0..(Cardinality(list) - 1)
        BY FS_CardinalityType DEF ListInv, HistoryList
      <4>2. Cardinality(list) \notin 0..(Cardinality(list) - 1)
        BY <4>1
      <4> QED
        BY <4>1, <4>2
    <3>4. \A x \in stay : x \in list
      BY DEF ListInv
    <3> QED
      BY <2>1, <3>1, <3>2, <3>3, <3>4 DEF Appear
  <2>2. CASE SwitchNode
    BY <2>2 DEF SwitchNode
  <2> QED
    BY <2>1, <2>2
<1>2. /\ \A s \in {"count", "pages", "done", "search", "back"} : At(s)' <=> At(s)
      /\ ~At("done") /\ (Forward' <=> Forward) /\ (ByIndex' <=> ByIndex) /\ Returned' = Returned
      /\ (Skips' <=> Skips) /\ (StopsAtOnce' <=> StopsAtOnce)
  BY <1>1 DEF At, Ended, Forward, ByIndex, Returned, Skips, StopsAtOnce
<1>3. /\ disturbed' => disturbed \/ (At("pages") /\ q.filter)
      /\ disturbed => disturbed'
      /\ ~disturbed' => (At("pages") /\ q.filter => node' = node)
  <2>1. CASE Appear
    BY <2>1, Zenon DEF Appear
  <2>2. CASE SwitchNode
    <3>1. disturbed' = (disturbed \/ (At("pages") /\ q.filter))
      BY <2>2 DEF SwitchNode
    <3> QED
      BY <3>1, Zenon
  <2> QED
    BY <2>1, <2>2, Zenon
<1>4. CountInv'
  BY <1>1, <1>2 DEF Complete, CountInv
<1>5. SearchInv'
  BY <1>1, <1>2 DEF Complete, SearchInv
<1>6. WindowInv'
  BY <1>1, <1>2, <1>3 DEF Complete, WindowInv, OnHive
<1>7. BehindInv'
  <2>1. \A x \in stay : (Asked(x)' <=> Asked(x)) /\ (Excused(x)' <=> Excused(x))
    BY <1>1, HistoryAskedSame
  <2>2. \A x \in stay : Behind(x)' <=> Behind(x)
    BY <1>1, <1>2 DEF Behind
  <2> QED
    BY <1>1, <1>2, <1>3, <2>1, <2>2 DEF Complete, BehindInv
<1> QED
  BY <1>4, <1>5, <1>6, <1>7 DEF Complete

\* The block of the operation found at an index, which no operation up to there is after.
LEMMA BlockFound ==
    ASSUME ListInv, HistoryList, BlocksInv, History, 0 \in list, NEW i \in Int
    PROVE  /\ block[Top(Upto(i))] \in Nat
           /\ \A x \in list : x <= i => block[x] <= block[Top(Upto(i))]
           /\ block[Top(list)] \in Nat /\ \A x \in list : block[x] <= block[Top(list)]
<1> DEFINE U == Upto(i)
<1>1. U \in SUBSET list /\ U # {} /\ \A x \in list : x <= i => x \in U
  <2>1. U \in SUBSET list /\ 0 \in U /\ \A x \in list : x <= i => x \in U
    BY DEF Upto
  <2> QED
    BY <2>1
<1> HIDE DEF U
<1>2. Finite(U) /\ Finite(list) /\ list # {}
  <2>1. IsFiniteSet(list) /\ list \in SUBSET Int
    BY DEF ListInv
  <2>2. IsFiniteSet(U) /\ U \in SUBSET Int
    BY <1>1, <2>1, FS_Subset
  <2> QED
    BY <2>1, <2>2 DEF Finite
<1>3. Top(U) \in U /\ \A x \in U : Top(U) >= x
  BY <1>1, <1>2, Extremes
<1>4. Top(list) \in list /\ \A x \in list : Top(list) >= x
  BY <1>2, Extremes
<1>5. \A x \in list : x \in Int
  BY DEF ListInv
<1>6. ASSUME NEW t \in list PROVE block[t] \in Nat /\ \A x \in list : t >= x => block[x] <= block[t]
  <2>1. block[t] \in Nat
    BY PlacesAscend
  <2>2. ASSUME NEW x \in list, t >= x PROVE block[x] <= block[t]
    <3>1. x <= t
      BY <1>5, <2>2
    <3> QED
      BY <3>1, PlacesAscend
  <2> QED
    BY <2>1, <2>2
<1> QED
  BY <1>1, <1>3, <1>4, <1>6 DEF U

\* The first window upwards begins at the start, and nothing before it is missed.
LEMMA WindowOpens ==
    ASSUME Origin, ListInv, History, Forward, UNCHANGED <<q, world, out>>,
           NEW g, DOMAIN g = DOMAIN Fresh, g.max \in Nat, g.max # 0, g.lastRound = FALSE, g.last = None,
           NEW start \in Nat, q.start = None => start = 0,
           \A x \in stay : x <= g.max,
           \A x \in stay : Asked(x) /\ x < start => Excused(x),
           h' = Window(g, start)
    PROVE  Complete'
<1> DEFINE bound == IF q.stop # None /\ ByIndex /\ start + q.stop < q.batch THEN q.stop ELSE q.batch
           over == start + bound - 1 > g.max
           limit == IF over THEN g.max - start ELSE bound
           first == IF over THEN start + limit - 1
                    ELSE IF start + bound - 1 >= bound THEN start + bound - 1
                    ELSE IF OnHive THEN bound - 1 ELSE bound
<1>1. /\ h'.pc = (IF limit < 0 THEN "done" ELSE "pages") /\ h'.limit = limit /\ h'.first = first
      /\ h'.filter = (OnHive /\ q.filter) /\ h'.lastRound = FALSE /\ h'.last = None /\ h'.max = g.max
  BY DEF Window, Fresh
<1>2. /\ q.batch \in Nat /\ q.batch >= 1 /\ q.stop \in Nat \cup {None}
      /\ q.start \in Nat \cup {None}
  BY HistoryQueries, PageAssumption
<1>3. bound \in 0..q.batch /\ (~StopsAtOnce => bound >= 1)
  BY <1>2 DEF StopsAtOnce, None
<1> HIDE DEF bound
<1>4. /\ limit \in Int /\ limit <= q.batch /\ first \in Int
      /\ limit >= 0 => limit <= first + 1
      /\ limit >= 0 /\ ~StopsAtOnce => first >= 0
      /\ start = 0 /\ ~StopsAtOnce => limit >= 1
      /\ -1 <= first - limit \/ limit < 0
      /\ limit < 0 => g.max < start
      /\ first - limit < start \/ first - limit = 0
  BY <1>2, <1>3
<1> HIDE DEF limit, first, over
<1>5. /\ q' = q /\ list' = list /\ stay' = stay /\ out' = out /\ block' = block /\ chosen' = chosen
      /\ node' = node /\ disturbed' = disturbed /\ Returned' = Returned
      /\ (Forward' <=> Forward) /\ (StopsAtOnce' <=> StopsAtOnce) /\ (OnHive' <=> OnHive)
  BY DEF world, Forward, StopsAtOnce, ByIndex, OnHive, Returned
<1>6. \A x \in stay : x \in Nat /\ (Asked(x)' <=> Asked(x)) /\ (Excused(x)' <=> Excused(x))
  BY <1>5, HistoryAskedSame DEF ListInv
<1>7. h'.pc \in {"done", "pages"}
  BY <1>1
<1>8. CountInv' /\ SearchInv'
  BY <1>1, <1>5, <1>7 DEF CountInv, SearchInv, At, Searching
<1>9. WindowInv'
  <2> SUFFICES ASSUME h'.pc = "pages" PROVE WindowInv'
    BY DEF WindowInv, At
  <2>1. limit >= 0
    BY <1>1, <1>4
  <2>2. h'.filter => q.filter /\ OnHive
    BY <1>1
  <2>3. q.start = None /\ ~StopsAtOnce => h'.limit >= 1 /\ h'.last <= h'.first - h'.limit
    BY <1>1, <1>4, <2>1 DEF None
  <2>4. h'.filter => q'.filter /\ (~disturbed' => OnHive')
    BY <1>5, <2>2, Zenon
  <2>5. /\ h'.first \in Int /\ h'.limit \in 0..q.batch /\ h'.limit <= h'.first + 1
        /\ ~StopsAtOnce => h'.first >= 0
    BY <1>1, <1>2, <1>4, <2>1
  <2>6. h'.lastRound \in BOOLEAN /\ ~h'.lastRound
    BY <1>1
  <2> QED
    BY <1>5, <2>3, <2>4, <2>5, <2>6 DEF WindowInv
<1>10. BehindInv'
  <2>1. ASSUME h'.pc = "pages", NEW x \in stay, Asked(x), Behind(x)' PROVE Excused(x)
    <3>1. x <= first - limit
      BY <1>1, <1>5, <2>1 DEF Behind
    <3>2. x < start \/ x = 0
      BY <1>4, <1>6, <3>1
    <3> QED
      BY <2>1, <3>2 DEF Excused
  <2>2. ASSUME h'.pc = "done", NEW x \in stay, Asked(x) PROVE Excused(x)
    <3>1. x < start
      BY <1>1, <1>4, <1>6, <2>2
    <3> QED
      BY <2>2, <3>1
  <2> QED
    BY <1>5, <1>6, <2>1, <2>2 DEF BehindInv, At
<1> QED
  BY <1>8, <1>9, <1>10 DEF Complete

\* The first window downwards ends at the start.
LEMMA WindowDownOpens ==
    ASSUME Origin, ListInv, History, ~Forward, UNCHANGED <<q, world, out>>,
           NEW g, DOMAIN g = DOMAIN Fresh, g.max \in Nat, NEW first \in Nat,
           \A x \in stay : x <= g.max,
           \A x \in stay : Asked(x) => x <= first,
           h' = WindowDown(g, first)
    PROVE  Complete'
<1>1. /\ h'.pc = "pages" /\ h'.limit = q.batch /\ h'.first = first /\ h'.last = first + 1
      /\ h'.filter = (OnHive /\ q.filter) /\ h'.max = g.max
  BY DEF WindowDown, Fresh
<1>2. /\ q' = q /\ list' = list /\ stay' = stay /\ out' = out /\ block' = block /\ chosen' = chosen
      /\ node' = node /\ disturbed' = disturbed /\ Returned' = Returned
      /\ (Forward' <=> Forward) /\ (OnHive' <=> OnHive)
  BY DEF world, Forward, OnHive, Returned
<1>3. \A x \in stay : x \in Nat /\ (Asked(x)' <=> Asked(x)) /\ (Excused(x)' <=> Excused(x))
  BY <1>2, HistoryAskedSame DEF ListInv
<1>4. CountInv' /\ SearchInv' /\ WindowInv'
  BY <1>1, <1>2 DEF CountInv, SearchInv, WindowInv, At, Searching
<1>5. ASSUME NEW x \in stay, Asked(x) PROVE ~Behind(x)'
  <2>1. x \in Nat /\ x <= first
    BY <1>3, <1>5
  <2>2. ~(x > h'.first) /\ ~(x >= h'.last)
    BY <1>1, <2>1
  <2> QED
    BY <1>2, <2>2 DEF Behind
<1>6. BehindInv'
  BY <1>1, <1>2, <1>3, <1>5 DEF BehindInv, At
<1> QED
  BY <1>4, <1>6 DEF Complete

\* No operation is beyond the number of them.
LEMMA CountOfType ==
    ASSUME ListInv
    PROVE  CountOf \in Nat /\ \A x \in list : x <= CountOf
<1>1. CASE list = {}
  BY <1>1 DEF CountOf
<1>2. CASE list # {}
  <2>1. list \in SUBSET Int /\ IsFiniteSet(list) /\ \A x \in list : x \in Nat
    BY DEF ListInv
  <2>2. Top(list) \in list /\ \A x \in list : Top(list) >= x
    BY <1>2, <2>1, Extremes DEF Finite
  <2>3. CountOf = Top(list) + (IF OnHive THEN 1 ELSE 0)
    BY <1>2 DEF CountOf
  <2>4. Top(list) \in Nat
    BY <2>1, <2>2
  <2>5. CountOf \in Nat /\ Top(list) <= CountOf
    BY <2>3, <2>4
  <2>6. \A x \in list : x <= CountOf
    BY <2>1, <2>2, <2>4, <2>5
  <2> QED
    BY <2>5, <2>6
<1> QED
  BY <1>1, <1>2

\* The request for the number of operations: none that was there is beyond it.
LEMMA CountCompletes ==
    ASSUME Origin, ListInv, HistoryList, History, HistoryInv, Complete, Count
    PROVE  Complete'
<1>1. /\ q' = q /\ list' = list /\ stay' = stay /\ out' = out /\ block' = block /\ chosen' = chosen
      /\ Returned' = Returned /\ UNCHANGED <<q, world, out>> /\ (Forward' <=> Forward)
      /\ h = Fresh /\ h.pc = "count" /\ (ByIndex' <=> ByIndex)
  BY DEF Count, world, Complete, CountInv, At, Returned, Forward, ByIndex
<1> DEFINE g == [h EXCEPT !.max = CountOf]
<1>2. /\ DOMAIN g = DOMAIN Fresh /\ g.max = CountOf /\ g.lastRound = FALSE /\ g.last = None /\ g.low = 0
      /\ g.guess = None /\ g.diff = 0 /\ g.min = 0 /\ g.filter = FALSE /\ g.up = 0 /\ g.seen = 0
  BY <1>1 DEF Fresh
<1>3. CountOf \in Nat /\ (\A x \in list : x <= CountOf) /\ (CountOf # 0 => 0 \in list)
  <2>1. CountOf \in Nat /\ \A x \in list : x <= CountOf
    BY CountOfType
  <2>2. CountOf # 0 => list # {}
    BY DEF CountOf
  <2>3. Cardinality(list) \in Nat /\ list = 0..(Cardinality(list) - 1)
    BY FS_CardinalityType DEF ListInv, HistoryList
  <2>4. list # {} => 0 \in list
    BY <2>3
  <2> QED
    BY <2>1, <2>2, <2>4
<1>4. \A x \in stay : x \in list /\ x \in Nat /\ x <= CountOf
  BY <1>3 DEF ListInv
<1>5. /\ q.start \in Nat \cup {None} /\ q.stop \in Nat \cup {None}
      /\ ~Forward /\ q.start # None => ByIndex
  BY HistoryQueries DEF Forward, History, OfOperations
<1>6. h' = (IF g.max = 0 THEN [g EXCEPT !.pc = "done"]
            ELSE IF q.start # None /\ ByIndex
            THEN IF Forward THEN Window(g, q.start) ELSE WindowDown(g, q.start)
            ELSE IF q.start # None /\ g.max > q.batch THEN [g EXCEPT !.pc = "first"]
            ELSE IF Forward THEN Window(g, 0) ELSE WindowDown(g, g.max))
  BY DEF Count
<1> HIDE DEF g
<1>7. CASE g.max = 0
  <2>1. h'.pc = "done" /\ h'.max = 0
    BY <1>2, <1>6, <1>7 DEF Fresh
  <2>2. \A x \in stay : x = 0 /\ (Excused(x)' <=> Excused(x))
    BY <1>1, <1>2, <1>4, <1>7, HistoryAskedSame
  <2>3. \A x \in stay : Excused(x)'
    BY <2>2 DEF Excused
  <2> QED
    BY <1>1, <2>1, <2>2, <2>3 DEF Complete, CountInv, SearchInv, WindowInv, BehindInv, At, Searching
<1>8. CASE g.max # 0 /\ h' = Window(g, q.start) /\ Forward /\ ByIndex /\ q.start # None
  <2>1. \A x \in stay : Asked(x) => ~(x < q.start)
    BY <1>4, <1>5, <1>8, HistoryAsked DEF Place
  <2> QED
    BY <1>1, <1>2, <1>3, <1>4, <1>5, <1>8, <2>1, WindowOpens
<1>9. CASE g.max # 0 /\ h' = WindowDown(g, q.start) /\ ~Forward /\ ByIndex /\ q.start # None
  <2>1. \A x \in stay : Asked(x) => x <= q.start
    BY <1>4, <1>5, <1>9, HistoryAsked DEF Place
  <2> QED
    BY <1>1, <1>2, <1>3, <1>4, <1>5, <1>9, <2>1, WindowDownOpens
<1>10. CASE h' = [g EXCEPT !.pc = "first"] /\ q.start # None /\ ~ByIndex /\ g.max # 0
  <2>1. /\ h'.pc = "first" /\ h'.max = g.max /\ h'.lastRound = FALSE /\ h'.low = 0 /\ h'.guess = None
        /\ h'.diff = 0 /\ h'.min = 0 /\ h'.filter = FALSE /\ h'.up = 0 /\ h'.seen = 0
    BY <1>2, <1>10 DEF Fresh
  <2>2. Forward' /\ ~ByIndex'
    BY <1>1, <1>5, <1>10
  <2>3. CountInv' /\ WindowInv' /\ BehindInv'
    BY <1>1, <1>2, <1>3, <1>4, <2>1 DEF CountInv, WindowInv, BehindInv, At
  <2>4. SearchInv'
    BY <1>1, <1>2, <1>3, <1>5, <1>10, <2>1, <2>2 DEF SearchInv, At, Searching, None
  <2> QED
    BY <2>3, <2>4 DEF Complete
<1>11. CASE g.max # 0 /\ h' = Window(g, 0) /\ Forward
  <2>1. \A x \in stay : ~(x < 0)
    BY <1>4
  <2> QED
    BY <1>1, <1>2, <1>3, <1>4, <1>11, <2>1, WindowOpens
<1>12. CASE g.max # 0 /\ h' = WindowDown(g, g.max) /\ ~Forward
  BY <1>1, <1>2, <1>3, <1>4, <1>12, WindowDownOpens
<1> QED
  BY <1>6, <1>7, <1>8, <1>9, <1>10, <1>11, <1>12

\* While it searches a reader only searches, or fails.
LEMMA SearchGoesOn ==
    ASSUME Complete, UNCHANGED <<q, world, out>>, h.pc \in Searching,
           h'.pc \in Searching \cup {"failed"}, h'.max = h.max
    PROVE  CountInv' /\ WindowInv' /\ BehindInv'
<1>1. stay' = stay
  BY DEF world
<1> QED
  BY <1>1 DEF Complete, CountInv, WindowInv, BehindInv, At, Searching

\* An estimate that no operation but those of the block is before is one.
LEMMA EstimateKeeps ==
    ASSUME Complete, UNCHANGED <<q, world, out>>, h.pc \in Searching, ListInv,
           NEW g, DOMAIN g = DOMAIN Fresh, g.min = h.min, g.diff = 0, g.max = h.max,
           g.filter = h.filter, g.lastRound = h.lastRound, NEW i \in Int,
           \A x \in stay : x < i => x = 0 \/ block[x] <= q.start,
           h' = Estimate(g, i)
    PROVE  Complete'
<1>1. /\ h'.pc = "back" /\ h'.est = Greatest(i, h.min) /\ h'.min = h.min /\ h'.diff = 0
      /\ h'.max = h.max /\ h'.filter = h.filter /\ h'.lastRound = h.lastRound
  BY DEF Estimate, Fresh
<1>2. /\ q' = q /\ list' = list /\ stay' = stay /\ block' = block
      /\ (Forward' <=> Forward) /\ (ByIndex' <=> ByIndex)
  BY DEF world, Forward, ByIndex
<1>3. h.min \in {0, 1} /\ \A x \in stay : x \in Nat
  BY DEF Complete, SearchInv, ListInv
<1>4. Greatest(i, h.min) \in Nat
  BY <1>3 DEF Greatest
<1>5. \A x \in stay : x < Greatest(i, h.min) => x = 0 \/ block[x] <= q.start
  BY <1>3 DEF Greatest
<1>6. SearchInv'
  BY <1>1, <1>2, <1>4, <1>5 DEF Complete, SearchInv, At, Searching
<1>7. CountInv' /\ WindowInv' /\ BehindInv'
  BY <1>1, SearchGoesOn DEF Searching
<1> QED
  BY <1>6, <1>7 DEF Complete

\* A reader that fails owes nothing.
LEMMA FailedKeeps ==
    ASSUME Complete, HistoryInv, UNCHANGED <<q, world, out>>, Failed, ~At("count")
    PROVE  Complete'
<1>1. h'.pc = "failed" /\ h'.max = h.max
  BY DEF Failed, HistoryInv, Fresh
<1>2. stay' = stay
  BY DEF world
<1> QED
  BY <1>1, <1>2 DEF Complete, CountInv, SearchInv, WindowInv, BehindInv, At, Searching

\* The request for the first operation that the node still has.
LEMMA FirstIndexCompletes ==
    ASSUME ListInv, History, HistoryInv, Complete, FirstIndex
    PROVE  Complete'
<1>1. UNCHANGED <<q, world, out>> /\ h.pc = "first" /\ DOMAIN h = DOMAIN Fresh
  BY DEF FirstIndex, HistoryInv, At
<1>2. /\ h'.pc = "created" /\ h'.min \in {0, 1} /\ h'.diff = h.diff /\ h'.low = h.low
      /\ h'.up = h.up /\ h'.guess = h.guess /\ h'.seen = h.seen
      /\ h'.max = h.max /\ h'.filter = h.filter /\ h'.lastRound = h.lastRound
  BY <1>1 DEF FirstIndex, Fresh
<1>3. q' = q /\ list' = list /\ stay' = stay /\ (Forward' <=> Forward) /\ (ByIndex' <=> ByIndex)
  BY <1>1 DEF world, Forward, ByIndex
<1>4. SearchInv'
  BY <1>1, <1>2, <1>3 DEF Complete, SearchInv, At, Searching
<1>5. CountInv' /\ WindowInv' /\ BehindInv'
  BY <1>1, <1>2, SearchGoesOn DEF Searching
<1> QED
  BY <1>4, <1>5 DEF Complete

\* The block at an index that the node lets be read.
LEMMA BlockAtFound ==
    ASSUME ListInv, HistoryList, BlocksInv, History, 0 \in list, NEW i \in Int, h.min \in {0, 1}
    PROVE  BlockAt(i) \in Nat /\ \A x \in list : x <= i => block[x] <= BlockAt(i)
<1>1. IndexAt(i) \in Int /\ i <= IndexAt(i)
  BY DEF IndexAt
<1>2. \A x \in list : x <= i => x <= IndexAt(i)
  BY <1>1 DEF ListInv
<1>3. /\ block[Top(Upto(IndexAt(i)))] \in Nat
      /\ \A x \in list : x <= IndexAt(i) => block[x] <= block[Top(Upto(IndexAt(i)))]
  BY <1>1, BlockFound
<1> QED
  BY <1>2, <1>3 DEF BlockAt

\* The block of the first operation.
LEMMA CreatedCompletes ==
    ASSUME ListInv, HistoryList, BlocksInv, History, HistoryInv, Complete, Created
    PROVE  Complete'
<1>1. UNCHANGED <<q, world, out>> /\ h.pc = "created" /\ DOMAIN h = DOMAIN Fresh /\ ~At("count")
  BY DEF Created, HistoryInv, At
<1>2. CASE Failed
  BY <1>1, <1>2, FailedKeeps
<1>3. CASE ~Failed
  <2> DEFINE g == [h EXCEPT !.up = CountOf, !.created = BlockAt(0)]
  <2>1. /\ DOMAIN g = DOMAIN Fresh /\ g.up = CountOf /\ g.created = BlockAt(0) /\ g.pc = "created"
        /\ g.min = h.min /\ g.diff = h.diff /\ g.low = h.low /\ g.guess = h.guess /\ g.seen = h.seen
        /\ g.max = h.max /\ g.filter = h.filter /\ g.lastRound = h.lastRound
    BY <1>1 DEF Fresh
  <2>2. \/ h' = Estimate(g, 0)
        \/ ~(g.up < 1) /\ ~(q.start <= g.created) /\ h' = [g EXCEPT !.pc = "latest"]
    BY <1>3 DEF Created
  <2> HIDE DEF g
  <2>3. h.min \in {0, 1} /\ 0 \in list /\ h.diff = 0 /\ q.start \in Nat /\ h.low = 0 /\ h.guess = None
    BY <1>1 DEF Complete, SearchInv, Searching
  <2>4. BlockAt(0) \in Nat /\ \A x \in list : x <= 0 => block[x] <= BlockAt(0)
    BY <2>3, BlockAtFound
  <2>5. \A x \in stay : x \in list /\ x \in Nat
    BY DEF ListInv
  <2>6. CASE h' = Estimate(g, 0)
    <3>1. \A x \in stay : x < 0 => x = 0 \/ block[x] <= q.start
      BY <2>5
    <3> QED
      BY <1>1, <2>1, <2>3, <2>6, <3>1, EstimateKeeps DEF Searching
  <2>7. CASE ~(g.up < 1) /\ ~(q.start <= g.created) /\ h' = [g EXCEPT !.pc = "latest"]
    <3>1. /\ h'.pc = "latest" /\ h'.up = CountOf /\ h'.created = BlockAt(0)
          /\ h'.min = h.min /\ h'.diff = h.diff /\ h'.low = h.low /\ h'.guess = h.guess /\ h'.seen = h.seen
          /\ h'.max = h.max /\ h'.filter = h.filter /\ h'.lastRound = h.lastRound
      BY <2>1, <2>7 DEF Fresh
    <3>2. CountOf \in Nat /\ CountOf >= 1 /\ BlockAt(0) < q.start
      BY <2>1, <2>3, <2>4, <2>7, CountOfType
    <3>3. ASSUME NEW x \in stay, x <= 0 PROVE block[x] < q.start
      <4>1. block[x] \in Nat /\ block[x] <= BlockAt(0)
        BY <2>4, <2>5, <3>3, PlacesAscend
      <4> QED
        BY <2>3, <2>4, <3>2, <4>1
    <3>4. q' = q /\ list' = list /\ stay' = stay /\ block' = block
          /\ (Forward' <=> Forward) /\ (ByIndex' <=> ByIndex)
      BY <1>1 DEF world, Forward, ByIndex
    <3>5. SearchInv'
      BY <1>1, <2>3, <2>4, <3>1, <3>2, <3>3, <3>4 DEF Complete, SearchInv, At, Searching
    <3>6. CountInv' /\ WindowInv' /\ BehindInv'
      BY <1>1, <3>1, SearchGoesOn DEF Searching
    <3> QED
      BY <3>5, <3>6 DEF Complete
  <2> QED
    BY <2>2, <2>6, <2>7
<1> QED
  BY <1>2, <1>3

\* The block of the latest operation.
LEMMA LatestCompletes ==
    ASSUME ListInv, HistoryList, BlocksInv, History, HistoryInv, Complete, Latest
    PROVE  Complete'
<1>1. UNCHANGED <<q, world, out>> /\ h.pc = "latest" /\ DOMAIN h = DOMAIN Fresh
  BY DEF Latest, HistoryInv, At
<1> DEFINE g == [h EXCEPT !.upBlock = block[Top(list)]]
<1>2. /\ DOMAIN g = DOMAIN Fresh /\ g.upBlock = block[Top(list)] /\ g.up = h.up /\ g.created = h.created
      /\ g.min = h.min /\ g.diff = h.diff /\ g.low = h.low /\ g.guess = h.guess /\ g.seen = h.seen
      /\ g.max = h.max /\ g.filter = h.filter /\ g.lastRound = h.lastRound
  BY <1>1 DEF Fresh
<1>3. \/ q.start >= g.upBlock /\ h' = Estimate(g, g.up)
      \/ ~(q.start >= g.upBlock) /\ h' = [g EXCEPT !.pc = "search"]
  BY DEF Latest
<1> HIDE DEF g
<1>4. /\ h.min \in {0, 1} /\ 0 \in list /\ h.diff = 0 /\ q.start \in Nat /\ h.low = 0 /\ h.guess = None
      /\ h.up \in Int
  BY <1>1 DEF Complete, SearchInv, Searching
<1>5. block[Top(list)] \in Nat /\ \A x \in list : block[x] <= block[Top(list)]
  BY <1>4, BlockFound, 0 \in Int
<1>6. \A x \in stay : x \in list /\ x \in Nat /\ block[x] \in Nat
  BY PlacesAscend DEF ListInv
<1>7. CASE q.start >= g.upBlock /\ h' = Estimate(g, g.up)
  <2>1. ASSUME NEW x \in stay PROVE block[x] <= q.start
    <3>1. block[x] <= block[Top(list)] /\ block[x] \in Nat
      BY <1>5, <1>6
    <3> QED
      BY <1>2, <1>4, <1>5, <1>7, <3>1
  <2> QED
    BY <1>1, <1>2, <1>4, <1>7, <2>1, EstimateKeeps DEF Searching
<1>8. CASE ~(q.start >= g.upBlock) /\ h' = [g EXCEPT !.pc = "search"]
  <2>1. /\ h'.pc = "search" /\ h'.upBlock = block[Top(list)] /\ h'.up = h.up /\ h'.created = h.created
        /\ h'.min = h.min /\ h'.diff = h.diff /\ h'.low = h.low /\ h'.guess = h.guess /\ h'.seen = h.seen
        /\ h'.max = h.max /\ h'.filter = h.filter /\ h'.lastRound = h.lastRound
    BY <1>2, <1>8 DEF Fresh
  <2>2. q.start < block[Top(list)]
    BY <1>2, <1>4, <1>5, <1>8
  <2>3. q' = q /\ list' = list /\ stay' = stay /\ block' = block
        /\ (Forward' <=> Forward) /\ (ByIndex' <=> ByIndex)
    BY <1>1 DEF world, Forward, ByIndex
  <2>4. \A x \in stay : ~(x <= h.guess)
    BY <1>4, <1>6 DEF None
  <2>5. SearchInv'
    BY <1>1, <1>4, <1>5, <2>1, <2>2, <2>3, <2>4 DEF Complete, SearchInv, At, Searching
  <2>6. CountInv' /\ WindowInv' /\ BehindInv'
    BY <1>1, <2>1, SearchGoesOn DEF Searching
  <2> QED
    BY <2>5, <2>6 DEF Complete
<1> QED
  BY <1>3, <1>7, <1>8

\* A guess; the last one is just after the lower bound at most.
LEMMA GuessType ==
    ASSUME h.low \in Nat, h.up \in Int, h.guess \in Int, q.start \in Int, h.created \in Int,
           h.upBlock \in Int, h.created < q.start, q.start < h.upBlock,
           h.guess = None => h.low = 0 /\ h.up >= 1
    PROVE  IF h.up - h.low <= 1 THEN Guess \in Int /\ Guess <= h.low + 1 ELSE Guess \in Nat
<1> DEFINE a == q.start - h.created
           b == h.upBlock - h.created
<1>1. CASE h.guess = None
  <2>1. a \in Int /\ b \in Nat /\ 0 < a /\ a < b
    OBVIOUS
  <2>2. Guess = h.low + (a * (h.up - h.low)) \div b
    BY <1>1 DEF Guess
  <2> HIDE DEF a, b
  <2>3. PICK d \in Int : d = h.up - h.low
    OBVIOUS
  <2>4. a * d \in Int
    BY <2>1, <2>3
  <2>5. \A e \in Int : e \div b \in Int
    BY <2>1
  <2>6. (a * d) \div b \in Int
    BY <2>4, <2>5, Zenon
  <2>7. Guess = h.low + (a * d) \div b
    BY <2>2, <2>3
  <2>8. ASSUME h.up - h.low <= 1 PROVE (a * d) \div b <= 1
    <3>1. d = 1
      BY <1>1, <2>3, <2>8
    <3>2. a * d = a
      BY <2>1, <3>1
    <3>3. a \div b = 0
      BY <2>1
    <3> QED
      BY <3>2, <3>3
  <2>9. PICK e \in Int : e = (a * d) \div b
    BY <2>6
  <2>10. ASSUME ~(h.up - h.low <= 1) PROVE e >= 0
    <3>1. d >= 1
      BY <2>3, <2>10
    <3>2. a * d >= 0
      BY <2>1, <2>3, <3>1
    <3>3. \A m \in Nat : m \div b >= 0
      BY <2>1
    <3> QED
      BY <2>4, <2>9, <3>2, <3>3
  <2> QED
    BY <2>7, <2>8, <2>9, <2>10
<1>2. CASE h.guess # None
  <2>1. Guess = (h.up + h.low) \div 2 + (IF h.up = h.low + 1 THEN 1 ELSE 0)
    BY <1>2 DEF Guess
  <2> QED
    BY <2>1
<1> QED
  BY <1>1, <1>2

\* One guess of the search.
LEMMA SearchCompletes ==
    ASSUME ListInv, HistoryList, BlocksInv, History, HistoryInv, Complete, Search
    PROVE  Complete'
<1>1. UNCHANGED <<q, world, out>> /\ h.pc = "search" /\ DOMAIN h = DOMAIN Fresh /\ ~At("count")
  BY DEF Search, HistoryInv, At
<1>2. CASE Failed
  BY <1>1, <1>2, FailedKeeps
<1>3. CASE ~Failed
  <2> DEFINE seen == IF Guess = h.guess THEN h.seen ELSE BlockAt(Guess)
             g == [h EXCEPT !.guess = Guess, !.seen = seen]
  <2>1. /\ DOMAIN g = DOMAIN Fresh /\ g.guess = Guess /\ g.seen = seen /\ g.pc = "search"
        /\ g.up = h.up /\ g.low = h.low /\ g.created = h.created /\ g.upBlock = h.upBlock
        /\ g.min = h.min /\ g.diff = h.diff
        /\ g.max = h.max /\ g.filter = h.filter /\ g.lastRound = h.lastRound
    BY <1>1 DEF Fresh
  <2>2. h' = IF h.up - h.low <= 1 THEN Estimate(g, Guess)
             ELSE IF seen < q.start THEN [g EXCEPT !.low = Guess]
             ELSE [g EXCEPT !.up = Guess]
    BY <1>3 DEF Search
  <2> HIDE DEF g
  <2>3. /\ h.min \in {0, 1} /\ 0 \in list /\ h.diff = 0 /\ q.start \in Nat
        /\ h.low \in Nat /\ h.up \in Int /\ h.guess \in Int /\ h.seen \in Int
        /\ h.created \in Int /\ h.created < q.start /\ h.upBlock \in Int /\ q.start < h.upBlock
        /\ h.guess = None => h.low = 0 /\ h.up >= 1
        /\ \A x \in stay : x <= h.low => block[x] < q.start
        /\ \A x \in stay : x <= h.guess => block[x] <= h.seen
    BY <1>1 DEF Complete, SearchInv, Searching, At
  <2>4. IF h.up - h.low <= 1 THEN Guess \in Int /\ Guess <= h.low + 1 ELSE Guess \in Nat
    BY <2>3, GuessType
  <2> HIDE DEF Guess
  <2>5. \A x \in stay : x \in list /\ x \in Nat /\ block[x] \in Nat
    BY PlacesAscend DEF ListInv
  <2>6. seen \in Int /\ \A x \in stay : x <= Guess => block[x] <= seen
    <3>1. BlockAt(Guess) \in Nat /\ \A x \in list : x <= Guess => block[x] <= BlockAt(Guess)
      BY <2>3, <2>4, BlockAtFound
    <3> QED
      BY <2>3, <2>5, <3>1
  <2> HIDE DEF seen
  <2>7. q' = q /\ list' = list /\ stay' = stay /\ block' = block
        /\ (Forward' <=> Forward) /\ (ByIndex' <=> ByIndex)
    BY <1>1 DEF world, Forward, ByIndex
  <2>8. CASE h' = Estimate(g, Guess) /\ h.up - h.low <= 1
    <3>1. ASSUME NEW x \in stay, x < Guess PROVE block[x] <= q.start
      <4>1. x <= h.low
        BY <2>3, <2>4, <2>5, <2>8, <3>1
      <4> QED
        BY <2>3, <2>5, <4>1
    <3> QED
      BY <1>1, <2>1, <2>3, <2>4, <2>8, <3>1, EstimateKeeps DEF Searching
  <2>9. ASSUME NEW low \in Nat, NEW up \in Int, Guess \in Nat,
               h'.pc = "search", h'.low = low, h'.up = up, h'.guess = Guess, h'.seen = seen,
               h'.created = h.created, h'.upBlock = h.upBlock, h'.min = h.min, h'.diff = h.diff,
               h'.max = h.max, h'.filter = h.filter, h'.lastRound = h.lastRound,
               \A x \in stay : x <= low => block[x] < q.start
        PROVE  Complete'
    <3>1. Guess # None
      BY <2>9 DEF None
    <3>2. SearchInv'
      BY <1>1, <2>3, <2>4, <2>6, <2>7, <2>9, <3>1 DEF Complete, SearchInv, At, Searching
    <3>3. CountInv' /\ WindowInv' /\ BehindInv'
      BY <1>1, <2>9, SearchGoesOn DEF Searching
    <3> QED
      BY <3>2, <3>3 DEF Complete
  <2>10. CASE h' = [g EXCEPT !.low = Guess] /\ seen < q.start /\ ~(h.up - h.low <= 1)
    <3>1. ASSUME NEW x \in stay, x <= Guess PROVE block[x] < q.start
      BY <2>3, <2>5, <2>6, <2>10, <3>1
    <3>2. /\ h'.low = Guess /\ h'.up = h.up /\ h'.pc = "search" /\ h'.guess = Guess /\ h'.seen = seen
          /\ h'.created = h.created /\ h'.upBlock = h.upBlock /\ h'.min = h.min /\ h'.diff = h.diff
          /\ h'.max = h.max /\ h'.filter = h.filter /\ h'.lastRound = h.lastRound
      BY <2>1, <2>10 DEF Fresh
    <3> QED
      BY <2>3, <2>4, <2>9, <2>10, <3>1, <3>2
  <2>11. CASE h' = [g EXCEPT !.up = Guess] /\ ~(h.up - h.low <= 1)
    <3>1. /\ h'.low = h.low /\ h'.up = Guess /\ h'.pc = "search" /\ h'.guess = Guess /\ h'.seen = seen
          /\ h'.created = h.created /\ h'.upBlock = h.upBlock /\ h'.min = h.min /\ h'.diff = h.diff
          /\ h'.max = h.max /\ h'.filter = h.filter /\ h'.lastRound = h.lastRound
      BY <2>1, <2>11 DEF Fresh
    <3> QED
      BY <2>3, <2>4, <2>9, <2>11, <3>1
  <2> QED
    BY <2>2, <2>8, <2>10, <2>11
<1> QED
  BY <1>2, <1>3

\* The steps back from where the search ended.
LEMMA BackCompletes ==
    ASSUME Origin, ListInv, HistoryList, BlocksInv, History, HistoryInv, Complete, Back
    PROVE  Complete'
<1>1. UNCHANGED <<q, world, out>> /\ h.pc = "back" /\ DOMAIN h = DOMAIN Fresh /\ ~At("count")
      /\ h.last = None
  BY DEF Back, HistoryInv, At, Before0
<1>2. /\ Forward /\ ~ByIndex /\ q.start \in Nat /\ h.diff \in Nat /\ h.est \in Nat /\ h.diff <= h.est
      /\ h.lastRound = FALSE /\ h.max \in Nat /\ h.max # 0
      /\ \A x \in stay : x < h.est => x = 0 \/ block[x] <= q.start
      /\ \A x \in stay : x <= h.max
  BY <1>1 DEF Complete, SearchInv, CountInv, Searching, At
<1>3. q.batch \in Nat
  BY HistoryQueries, PageAssumption
<1> DEFINE i == h.est - h.diff
<1>4. \/ Failed
      \/ h.est > h.diff + q.batch /\ h' = [h EXCEPT !.diff = @ + q.batch]
      \/ h' = Window(h, i)
  BY <1>2 DEF Back
<1>5. CASE Failed
  BY <1>1, <1>5, FailedKeeps
<1>6. CASE h.est > h.diff + q.batch /\ h' = [h EXCEPT !.diff = @ + q.batch]
  <2>1. /\ h'.pc = "back" /\ h'.diff = h.diff + q.batch /\ h'.est = h.est /\ h'.min = h.min
        /\ h'.max = h.max /\ h'.filter = h.filter /\ h'.lastRound = h.lastRound
    BY <1>1, <1>6 DEF Fresh
  <2>2. h'.diff \in Nat /\ h'.diff <= h'.est
    BY <1>2, <1>3, <1>6, <2>1
  <2>3. q' = q /\ list' = list /\ stay' = stay /\ block' = block
        /\ (Forward' <=> Forward) /\ (ByIndex' <=> ByIndex)
    BY <1>1 DEF world, Forward, ByIndex
  <2>4. SearchInv'
    BY <1>1, <1>2, <2>1, <2>2, <2>3 DEF Complete, SearchInv, At, Searching
  <2>5. CountInv' /\ WindowInv' /\ BehindInv'
    BY <1>1, <2>1, SearchGoesOn DEF Searching
  <2> QED
    BY <2>4, <2>5 DEF Complete
<1>7. CASE h' = Window(h, i)
  <2>1. i \in Nat /\ i <= h.est
    BY <1>2
  <2> HIDE DEF i
  <2>2. ASSUME NEW x \in stay, Asked(x), x < i PROVE Excused(x)
    <3>1. x \in list /\ x \in Nat /\ block[x] \in Nat
      BY PlacesAscend DEF ListInv
    <3>2. x < h.est
      BY <1>2, <2>1, <2>2, <3>1
    <3>3. x = 0 \/ block[x] <= q.start
      BY <1>2, <3>2
    <3>4. Place(x) = block[x] /\ Key(x) = block[x]
      BY <1>2 DEF Place, Key
    <3>5. block[x] >= q.start
      BY <1>2, <2>2, <3>4, HistoryAsked DEF None
    <3> QED
      BY <1>2, <3>1, <3>3, <3>4, <3>5 DEF Excused
  <2>3. q.start # None
    BY <1>2 DEF None
  <2> QED
    BY <1>1, <1>2, <1>7, <2>1, <2>2, <2>3, WindowOpens
<1> QED
  BY <1>4, <1>5, <1>6, <1>7

\* What was returned stays returned, and what is shown is returned.
LEMMA ReturnedGrows ==
    ASSUME out \in Seq(Int), NEW new, Finite(new), NEW t, t \in {Sorted(new), Downwards(new)},
           out' = out \o t, NEW x, x \in Returned \/ x \in new
    PROVE  x \in Returned'
<1>1. t \in Seq(Int) /\ {t[i] : i \in 1..Len(t)} = new
  <2>1. CASE t = Sorted(new)
    <3>1. Sorted(new) \in Seq(Int) /\ {Sorted(new)[i] : i \in 1..Len(Sorted(new))} = new
      BY SortedLists
    <3> QED
      BY <2>1, <3>1
  <2>2. CASE t = Downwards(new)
    <3>1. Downwards(new) \in Seq(Int) /\ {Downwards(new)[i] : i \in 1..Len(Downwards(new))} = new
      BY DownwardsLists
    <3> QED
      BY <2>2, <3>1
  <2> QED
    BY <2>1, <2>2
<1>2. Len(t) \in Nat /\ Len(out) \in Nat
  BY <1>1, LenProperties
<1>3. /\ out' \in Seq(Int) /\ Len(out') = Len(out) + Len(t)
      /\ \A i \in 1..(Len(out) + Len(t)) : out'[i] = IF i <= Len(out) THEN out[i] ELSE t[i - Len(out)]
  BY <1>1, ConcatProperties
<1>4. DOMAIN out = 1..Len(out) /\ DOMAIN out' = 1..Len(out')
  BY <1>3, LenProperties
<1>5. CASE x \in Returned
  <2>1. PICK i \in 1..Len(out) : x = out[i]
    BY <1>4, <1>5 DEF Returned
  <2>2. i \in 1..Len(out') /\ out'[i] = x
    BY <1>2, <1>3, <2>1
  <2> QED
    BY <1>4, <2>2 DEF Returned
<1>6. CASE x \in new
  <2>1. PICK i \in 1..Len(t) : x = t[i]
    BY <1>1, <1>6
  <2>2. Len(out) + i \in 1..Len(out') /\ out'[Len(out) + i] = t[(Len(out) + i) - Len(out)]
    BY <1>2, <1>3
  <2>3. (Len(out) + i) - Len(out) = i
    BY <1>2
  <2>4. out'[Len(out) + i] = x
    BY <2>1, <2>2, <2>3
  <2> QED
    BY <1>4, <2>2, <2>4 DEF Returned
<1> QED
  BY <1>5, <1>6

\* The window upwards that follows one up to first begins behind it; there is none only if this
\* was the last, or the stop is in it.
LEMMA OnwardsGoes ==
    ASSUME DOMAIN h = DOMAIN Fresh, h.pc = "pages", h.limit \in Nat, h.max \in Nat, h.lastRound \in BOOLEAN,
           NEW first \in Int, h.limit <= first + 1, NEW seen,
           ~(h.filter /\ first + 2 * Page < h.max /\ h.limit = Page),
           q.stop \in Nat \cup {None},
           NEW g, g = Onwards(first, seen)
    PROVE  /\ g.first \in Int /\ g.limit \in 0..h.limit /\ g.first - g.limit = first
           /\ g.limit <= g.first + 1 /\ (h.limit >= 1 => g.limit >= 1) /\ g.lastRound \in BOOLEAN
           /\ h.lastRound => g.pc = "done"
           /\ g.lastRound /\ ~h.lastRound => g.first = h.max
           /\ g.pc = "done" => h.lastRound \/ first >= h.max \/ (ByIndex /\ q.stop # None /\ first >= q.stop + 1)
<1>1. CASE first < h.max /\ first + h.limit >= h.max /\ ~h.lastRound
  <2>1. g = [h EXCEPT !.limit = h.max - first, !.first = h.max, !.lastRound = TRUE]
    BY <1>1 DEF Onwards
  <2>2. g.limit = h.max - first /\ g.first = h.max /\ g.lastRound = TRUE /\ g.pc = "pages"
    BY <2>1 DEF Fresh
  <2>3. /\ g.first \in Int /\ g.limit \in 1..h.limit /\ g.first - g.limit = first
        /\ g.limit <= g.first + 1
    BY <1>1, <2>2
  <2>4. g.lastRound \in BOOLEAN /\ ~h.lastRound /\ g.pc # "done"
    BY <1>1, <2>2
  <2> QED
    BY <2>2, <2>3, <2>4
<1>2. CASE ~(first < h.max /\ first + h.limit >= h.max /\ ~h.lastRound)
  <2> DEFINE next == first + h.limit
             over == IF q.stop # None /\ ByIndex /\ next >= q.stop + h.limit + 1 THEN TRUE
                     ELSE next > h.max \/ h.lastRound
  <2>1. g = [h EXCEPT !.first = next, !.pc = IF over THEN "done" ELSE @]
    BY <1>2 DEF Onwards
  <2>2. /\ g.first = next /\ g.limit = h.limit /\ g.lastRound = h.lastRound
        /\ g.pc = IF over THEN "done" ELSE "pages"
    BY <2>1 DEF Fresh
  <2>3. g.first - g.limit = first /\ g.limit <= g.first + 1 /\ g.first \in Int
    BY <2>2
  <2>4. h.lastRound => over
    OBVIOUS
  <2>5. over => h.lastRound \/ first >= h.max \/ (ByIndex /\ q.stop # None /\ first >= q.stop + 1)
    <3>1. next >= q.stop + h.limit + 1 /\ q.stop \in Nat => first >= q.stop + 1
      OBVIOUS
    <3>2. next > h.max => first >= h.max \/ h.lastRound
      BY <1>2
    <3> QED
      BY <3>1, <3>2
  <2> HIDE DEF over, next
  <2> QED
    BY <2>2, <2>3, <2>4, <2>5
<1> QED
  BY <1>1, <1>2

\* A page upwards: its window begins where the one before it ended.
LEMMA PageUpCompletes ==
    ASSUME Origin, ListInv, HistoryList, BlocksInv, History, HistoryInv, Complete, PageUp
    PROVE  Complete'
<1> DEFINE first == IF OnHive THEN Greatest(h.first, h.limit - 1) ELSE Greatest(h.first, h.limit)
           items == Operations(first, h.limit)
           kept == {i \in items : IF q.start = None THEN i > h.last ELSE Place(i) >= q.start}
           beyond == {i \in kept : q.stop # None /\ Place(i) > q.stop}
           shown == Shown(kept, beyond)
           g == Onwards(first, Cardinality(items))
<1>1. /\ UNCHANGED <<q, world>> /\ h.pc = "pages" /\ Forward /\ q.reader = "forward"
      /\ DOMAIN h = DOMAIN Fresh /\ out \in Seq(Int) /\ ~At("count")
  BY DEF PageUp, Forward, HistoryInv, At
<1>2. CASE Failed /\ UNCHANGED out
  BY <1>1, <1>2, FailedKeeps
<1>3. CASE /\ out' = out \o Sorted(shown)
           /\ h' = [g EXCEPT !.last = IF shown = {} THEN @ ELSE Top(shown),
                             !.pc = IF beyond = {} THEN @ ELSE "done"]
  <2>1. /\ g.last = h.last /\ DOMAIN g = DOMAIN Fresh /\ g.pc \in {"pages", "done"}
        /\ g.max = h.max /\ g.filter = h.filter
    <3>1. \A f, n : /\ Onwards(f, n).last = h.last /\ DOMAIN Onwards(f, n) = DOMAIN Fresh
                    /\ Onwards(f, n).pc \in {"pages", "done"}
                    /\ Onwards(f, n).max = h.max /\ Onwards(f, n).filter = h.filter
      BY <1>1 DEF Onwards, Fresh
    <3> QED
      BY <3>1
  <2>2. items \in SUBSET list
    BY OperationsFrom
  <2>3. kept \in SUBSET list /\ kept \in SUBSET items
    BY <2>2
  <2>4. shown \in SUBSET kept /\ Finite(shown)
    BY <2>3, ShownTakes
  <2>5. beyond = {x \in kept : q.stop # None /\ IF Forward THEN Place(x) > q.stop ELSE Place(x) < q.stop}
        /\ beyond \in SUBSET kept
    BY <1>1
  <2>6. ASSUME NEW x \in stay, Asked(x)
        PROVE  /\ \A b \in beyond : x < b
               /\ x \in kept => x \in shown
    <3>1. x \in list
      BY DEF ListInv
    <3> HIDE DEF kept, beyond
    <3>2. /\ \A b \in beyond : IF Forward THEN x < b ELSE x > b
          /\ x \in kept => x \in Shown(kept, beyond)
      BY <2>3, <2>5, <2>6, <3>1, ShownReaches
    <3> QED
      BY <1>1, <3>2
  <2>7. ASSUME NEW x \in items, IF q.start = None THEN x > h.last ELSE Place(x) >= q.start
        PROVE  x \in kept
    BY <2>7
  <2>8. PICK f : f = first
    OBVIOUS
  <2>9. PICK n : n = Cardinality(items)
    OBVIOUS
  <2>10. g = Onwards(f, n) /\ items = Operations(f, h.limit)
    BY <2>8, <2>9
  <2>11. h.first \in Int /\ h.limit \in Int =>
            /\ f \in Int /\ f >= h.first /\ h.limit <= f + 1
            /\ f = h.first \/ f <= h.limit
    BY <2>8 DEF Greatest
  <2> HIDE DEF g, shown, beyond, kept, items, first
  <2>12. /\ h'.last = (IF shown = {} THEN h.last ELSE Top(shown)) /\ h'.max = h.max /\ h'.filter = h.filter
         /\ h'.first = g.first /\ h'.limit = g.limit /\ h'.lastRound = g.lastRound
         /\ h'.pc = (IF beyond = {} THEN g.pc ELSE "done")
    BY <1>3, <2>1 DEF Fresh
  <2>13. /\ q' = q /\ list' = list /\ stay' = stay /\ block' = block /\ chosen' = chosen
         /\ node' = node /\ (OnHive' <=> OnHive)
         /\ (Forward' <=> Forward) /\ (StopsAtOnce' <=> StopsAtOnce)
    BY <1>1 DEF world, Forward, StopsAtOnce, ByIndex, OnHive
  <2>14. disturbed' = disturbed /\ (Skips' <=> Skips)
    BY <2>12, <2>13, <1>1 DEF world, Skips
  <2>15. h'.pc \in {"pages", "done"}
    BY <2>1, <2>12
  <2>16. CountInv' /\ SearchInv'
    BY <1>1, <2>12, <2>13, <2>15 DEF Complete, CountInv, SearchInv, At, Searching
  <2>17. h'.filter => q'.filter /\ (~disturbed' => OnHive')
    <3>1. h.filter => q.filter /\ (~disturbed => OnHive)
      BY <1>1 DEF Complete, WindowInv, At
    <3> QED
      BY <2>12, <2>13, <2>14, <3>1, Zenon
  <2>18. CASE Skips
    <3>1. WindowInv' /\ BehindInv'
      BY <1>1, <2>13, <2>14, <2>17, <2>18 DEF WindowInv, BehindInv
    <3> QED
      BY <2>16, <3>1 DEF Complete
  <2>19. CASE ~Skips
    <3>1. /\ h.first \in Int /\ h.limit \in 0..q.batch /\ h.lastRound \in BOOLEAN
          /\ h.lastRound => h.first = h.max
          /\ ~StopsAtOnce => /\ h.first >= 0
                             /\ q.start = None => h.limit >= 1 /\ h.last <= h.first - h.limit
      BY <1>1, <2>19 DEF Complete, WindowInv, At
    <3>2. /\ q.batch \in 1..Page /\ q.start \in Nat \cup {None} /\ q.stop \in Nat \cup {None}
          /\ h.max \in Nat /\ Page \in Nat /\ (\A x \in stay : x <= h.max)
      BY <1>1, HistoryQueries, PageAssumption DEF Complete, CountInv
    <3>3. h.limit \in Nat /\ h.limit \in 0..Page /\ h.limit <= q.batch
      BY <3>1, <3>2
    <3>4. f \in Int /\ f >= h.first /\ h.limit <= f + 1 /\ (f = h.first \/ f <= h.limit)
      BY <2>11, <3>1, <3>3
    <3>5. ~(h.filter /\ f + 2 * Page < h.max /\ h.limit = Page)
      <4>1. SUFFICES ASSUME h.filter, f + 2 * Page < h.max, h.limit = Page PROVE Skips
        BY <2>19
      <4>2. q.batch = Page /\ h.max >= 3 * Page
        BY <3>2, <3>3, <3>4, <4>1
      <4> QED
        BY <1>1, <4>1, <4>2 DEF Skips
    <3>6. /\ g.first \in Int /\ g.limit \in 0..h.limit /\ g.first - g.limit = f
          /\ g.limit <= g.first + 1 /\ (h.limit >= 1 => g.limit >= 1) /\ g.lastRound \in BOOLEAN
          /\ h.lastRound => g.pc = "done"
          /\ g.lastRound /\ ~h.lastRound => g.first = h.max
          /\ g.pc = "done" => h.lastRound \/ f >= h.max \/ (ByIndex /\ q.stop # None /\ f >= q.stop + 1)
      BY <1>1, <2>10, <3>1, <3>2, <3>3, <3>4, <3>5, OnwardsGoes
    <3>7. ~StopsAtOnce => f \in Nat
      BY <3>1, <3>4
    <3>8. \A x \in stay : x \in list /\ x \in Nat
      BY DEF ListInv
    <3>9. ASSUME ~StopsAtOnce, NEW x \in stay, Asked(x), ~Behind(x), x # 0, x <= f
          PROVE  x \in shown
      <4>1. x \in Nat /\ x \in list /\ ~(x <= h.first - h.limit)
        BY <1>1, <3>8, <3>9 DEF Behind
      <4>2. f - h.limit < x
        BY <3>1, <3>3, <3>4, <3>9, <4>1
      <4>3. Matches(x)
        BY <3>9, HistoryAsked
      <4>4. x \in items
        <5>1. \A y \in list : y <= f /\ f - h.limit < y /\ Matches(y) => y \in Operations(f, h.limit)
          BY <3>3, <3>7, <3>9, OperationsReach
        <5> QED
          BY <2>10, <3>9, <4>1, <4>2, <4>3, <5>1
      <4>5. IF q.start = None THEN x > h.last ELSE Place(x) >= q.start
        <5>1. CASE q.start = None
          <6>1. h.last \in Int
            BY <1>1, <5>1 DEF HistoryInv
          <6> QED
            BY <3>1, <3>3, <3>9, <4>1, <5>1, <6>1
        <5>2. CASE q.start # None
          BY <1>1, <3>9, <5>2, HistoryAsked
        <5> QED
          BY <5>1, <5>2
      <4> QED
        BY <2>6, <2>7, <3>9, <4>4, <4>5
    <3>10. ASSUME NEW x \in stay, Asked(x), ~disturbed, x <= f
           PROVE  x \in Returned' \/ Excused(x)
      <4>1. CASE StopsAtOnce
        <5>1. x <= 0
          BY <1>1, <3>10, <4>1, HistoryAsked DEF StopsAtOnce, Place, None
        <5>2. x = 0
          BY <3>8, <5>1
        <5> QED
          BY <5>2 DEF Excused
      <4>2. CASE Behind(x)
        <5>1. x \in Returned \/ Excused(x)
          BY <1>1, <2>19, <3>10, <4>2 DEF Complete, BehindInv, At
        <5> QED
          BY <1>1, <1>3, <2>4, <5>1, ReturnedGrows
      <4>3. CASE ~StopsAtOnce /\ ~Behind(x) /\ x # 0
        <5>1. x \in shown
          BY <3>9, <3>10, <4>3
        <5> QED
          BY <1>1, <1>3, <2>4, <5>1, ReturnedGrows
      <4>4. CASE x = 0
        BY <4>4 DEF Excused
      <4> QED
        BY <4>1, <4>2, <4>3, <4>4
    <3>11. ASSUME h'.pc = "done", NEW x \in stay, Asked(x) PROVE x <= f \/ StopsAtOnce
      <4>1. CASE beyond = {}
        <5>1. h.lastRound \/ f >= h.max \/ (ByIndex /\ q.stop # None /\ f >= q.stop + 1)
          BY <2>12, <3>6, <3>11, <4>1
        <5>2. h.lastRound => f >= h.max
          BY <3>1, <3>4
        <5>3. ByIndex /\ q.stop # None => x <= q.stop
          BY <1>1, <3>11, HistoryAsked DEF Place
        <5> QED
          BY <3>2, <3>4, <3>8, <5>1, <5>2, <5>3
      <4>2. CASE beyond # {} /\ ~StopsAtOnce
        <5>1. PICK b \in beyond : x < b
          BY <2>6, <3>11, <4>2
        <5>2. b \in items
          BY <2>3, <2>5
        <5>3. \A y \in Operations(f, h.limit) : y \in list /\ y <= f
          BY <3>3, <3>7, <4>2, OperationsReach
        <5>4. b \in Nat /\ b <= f
          BY <2>10, <5>2, <5>3 DEF ListInv
        <5> QED
          BY <3>4, <3>8, <5>1, <5>4
      <4> QED
        BY <4>1, <4>2
    <3>12. ASSUME h'.pc = "pages" PROVE WindowInv'
      <4>1. g.pc = "pages" /\ ~h.lastRound
        BY <2>12, <3>6, <3>12
      <4>2. ASSUME ~StopsAtOnce, q.start = None PROVE h'.last <= h'.first - h'.limit
        <5>1. h.last \in Int /\ h.last <= h.first - h.limit
          BY <1>1, <3>1, <4>2 DEF HistoryInv
        <5>2. CASE shown = {}
          BY <2>12, <3>1, <3>3, <3>4, <3>6, <5>1, <5>2
        <5>3. CASE shown # {}
          <6>1. Top(shown) \in shown
            BY <2>4, <5>3, Extremes
          <6>2. Top(shown) \in items
            BY <2>3, <2>4, <6>1
          <6>3. \A y \in Operations(f, h.limit) : y \in list /\ y <= f
            BY <3>3, <3>7, <4>2, OperationsReach
          <6> QED
            BY <2>10, <2>12, <3>6, <5>3, <6>2, <6>3
        <5> QED
          BY <5>2, <5>3
      <4>3. /\ h'.first \in Int /\ h'.limit \in 0..q.batch /\ h'.limit <= h'.first + 1
            /\ h'.lastRound \in BOOLEAN
        BY <2>12, <3>2, <3>3, <3>6
      <4>4. h'.lastRound => h'.first = h'.max
        BY <2>12, <3>6, <4>1
      <4>5. ~StopsAtOnce => h'.first >= 0 /\ (q.start = None => h'.limit >= 1)
        <5>1. ~StopsAtOnce => g.first >= 0
          BY <3>3, <3>6, <3>7
        <5> QED
          BY <2>12, <3>1, <3>6, <5>1
      <4> QED
        BY <1>1, <2>13, <2>17, <4>2, <4>3, <4>4, <4>5 DEF WindowInv
    <3>13. WindowInv'
      BY <2>15, <3>12 DEF WindowInv, At
    <3>14. ASSUME NEW x \in stay PROVE (Asked(x)' <=> Asked(x)) /\ (Excused(x)' <=> Excused(x))
      BY <2>13, HistoryAskedSame
    <3>15. ASSUME NEW x \in stay, Asked(x), h'.pc = "pages", Behind(x)' PROVE x <= f
      <4>1. x <= h'.first - h'.limit
        BY <1>1, <2>13, <3>15 DEF Behind
      <4> QED
        BY <2>12, <3>6, <4>1
    <3>16. ASSUME ~disturbed, NEW x \in stay, Asked(x), h'.pc = "done" PROVE x \in Returned' \/ Excused(x)
      <4>1. CASE StopsAtOnce
        <5>1. x <= 0
          BY <1>1, <3>16, <4>1, HistoryAsked DEF StopsAtOnce, Place, None
        <5>2. x = 0
          BY <3>8, <5>1
        <5> QED
          BY <5>2 DEF Excused
      <4>2. CASE ~StopsAtOnce
        BY <3>10, <3>11, <3>16, <4>2
      <4> QED
        BY <4>1, <4>2
    <3>17. BehindInv'
      BY <2>13, <2>14, <3>10, <3>14, <3>15, <3>16 DEF BehindInv, At
    <3> QED
      BY <2>16, <3>13, <3>17 DEF Complete
  <2> QED
    BY <2>18, <2>19
<1> QED
  BY <1>2, <1>3 DEF PageUp

\* A page downwards: its window ends where the one before it began.
LEMMA PageDownCompletes ==
    ASSUME Origin, ListInv, HistoryList, BlocksInv, History, HistoryInv, Complete, PageDown
    PROVE  Complete'
<1> DEFINE limit == IF h.first - h.limit >= 0 THEN h.limit
                    ELSE IF OnHive THEN h.first + 1 ELSE h.first
           items == Operations(h.first, limit)
           kept == {i \in items : IF q.start = None THEN i < h.last ELSE Place(i) <= q.start}
           beyond == {i \in kept : q.stop # None /\ Place(i) < q.stop}
           shown == Shown(kept, beyond)
           seen == Cardinality(items)
           step == IF h.filter /\ seen < limit /\ limit = Page THEN 2 * Page ELSE limit
           g == Downward(limit, seen)
<1>1. /\ UNCHANGED <<q, world>> /\ h.pc = "pages" /\ ~Forward
      /\ DOMAIN h = DOMAIN Fresh /\ out \in Seq(Int) /\ ~At("count")
  BY DEF PageDown, Forward, HistoryInv, At
<1>2. CASE Failed /\ UNCHANGED out
  BY <1>1, <1>2, FailedKeeps
<1>3. CASE /\ out' = out \o Downwards(shown)
           /\ h' = [g EXCEPT !.last = IF shown = {} THEN @ ELSE Bottom(shown),
                             !.pc = IF beyond = {} THEN @ ELSE "done"]
  <2>1. /\ h.first \in Nat /\ h.limit = q.batch /\ (h.filter => q.filter /\ (~disturbed => OnHive))
    BY <1>1 DEF Complete, WindowInv, At
  <2>2. q.batch \in 1..Page /\ Page \in Nat /\ h.max \in Nat
    BY <1>1, HistoryQueries, PageAssumption DEF Complete, CountInv
  <2>3. /\ limit \in 0..Page /\ (h.first - limit >= 1 => limit = q.batch)
    BY <2>1, <2>2
  <2>4. step \in Int /\ step >= limit /\ (h.first - step >= 1 => limit = q.batch)
    BY <2>1, <2>2, <2>3
  <2>5. g = [h EXCEPT !.limit = limit, !.first = h.first - step,
                      !.pc = IF h.first - step < 1 THEN "done" ELSE @]
    BY DEF Downward
  <2>6. items \in SUBSET list
    BY OperationsFrom
  <2>7. kept \in SUBSET list /\ kept \in SUBSET items
    BY <2>6
  <2>8. shown \in SUBSET kept /\ Finite(shown)
    BY <2>7, ShownTakes
  <2>9. beyond = {x \in kept : q.stop # None /\ IF Forward THEN Place(x) > q.stop ELSE Place(x) < q.stop}
        /\ beyond \in SUBSET kept
    BY <1>1
  <2>10. ASSUME NEW x \in stay, Asked(x)
         PROVE  /\ \A b \in beyond : x > b
                /\ x \in kept => x \in shown
    <3>1. x \in list
      BY DEF ListInv
    <3> HIDE DEF kept, beyond
    <3>2. /\ \A b \in beyond : IF Forward THEN x < b ELSE x > b
          /\ x \in kept => x \in Shown(kept, beyond)
      BY <2>7, <2>9, <2>10, <3>1, ShownReaches
    <3> QED
      BY <1>1, <3>2
  <2>11. ASSUME NEW x \in items, IF q.start = None THEN x < h.last ELSE Place(x) <= q.start
         PROVE  x \in kept
    BY <2>11
  <2>12. /\ \A x \in items : x \in list /\ x <= h.first
         /\ \A x \in list : x <= h.first /\ h.first - limit < x /\ Matches(x) => x \in items
         /\ \A x \in list, y \in items : y <= x /\ x <= h.first /\ Matches(x) => x \in items
         /\ q.filter /\ OnHive /\ limit = Page /\ seen < Page =>
               \A x \in list : x <= h.first /\ h.first - 2 * Page < x /\ Matches(x) => x \in items
    <3> HIDE DEF limit
    <3> QED
      BY <2>1, <2>3, OperationsReach
  <2> HIDE DEF g, shown, beyond, kept, items, seen, limit
  <2>13. ASSUME ~disturbed, NEW x \in list, x <= h.first, h.first - step < x, Matches(x)
         PROVE  x \in items
    <3>1. CASE h.filter /\ seen < limit /\ limit = Page
      <4>1. q.filter /\ OnHive /\ seen < Page /\ step = 2 * Page
        BY <2>1, <2>13, <3>1
      <4> QED
        BY <2>12, <2>13, <3>1, <4>1
    <3>2. CASE ~(h.filter /\ seen < limit /\ limit = Page)
      <4>1. step = limit
        BY <3>2
      <4> QED
        BY <2>12, <2>13, <4>1
    <3> QED
      BY <3>1, <3>2
  <2> HIDE DEF step
  <2>14. /\ g.last = h.last /\ DOMAIN g = DOMAIN Fresh /\ g.max = h.max /\ g.filter = h.filter
         /\ g.limit = limit /\ g.first = h.first - step
         /\ g.pc = IF h.first - step < 1 THEN "done" ELSE "pages"
    BY <1>1, <2>5 DEF Fresh
  <2>15. /\ h'.last = (IF shown = {} THEN h.last ELSE Bottom(shown)) /\ h'.max = h.max
         /\ h'.filter = h.filter /\ h'.first = h.first - step /\ h'.limit = limit
         /\ h'.pc = (IF beyond = {} THEN g.pc ELSE "done")
    BY <1>3, <2>14 DEF Fresh
  <2>16. /\ q' = q /\ list' = list /\ stay' = stay /\ block' = block /\ chosen' = chosen
         /\ node' = node /\ (OnHive' <=> OnHive) /\ (Forward' <=> Forward)
    BY <1>1 DEF world, Forward, OnHive
  <2>17. disturbed' = disturbed /\ ~Skips /\ ~Skips'
    BY <1>1, <2>16 DEF world, Skips, Forward
  <2>18. h'.pc \in {"pages", "done"} /\ (h'.pc = "pages" => h.first - step >= 1)
         /\ (h'.pc = "done" /\ beyond = {} => h.first - step < 1)
    BY <2>1, <2>4, <2>14, <2>15
  <2>19. CountInv' /\ SearchInv'
    BY <1>1, <2>15, <2>16, <2>18 DEF Complete, CountInv, SearchInv, At, Searching
  <2>20. h'.filter => q'.filter /\ (~disturbed' => OnHive')
    BY <2>1, <2>15, <2>16, <2>17, Zenon
  <2>21. h'.pc = "pages" => h'.first \in Nat /\ h'.limit = q.batch
    BY <2>1, <2>4, <2>15, <2>18
  <2>22. WindowInv'
    BY <1>1, <2>16, <2>20, <2>21 DEF WindowInv, At
  <2>23. \A x \in stay : x \in list /\ x \in Nat
    BY DEF ListInv
  <2>24. ASSUME NEW x \in stay, Asked(x), ~Behind(x), x \in items PROVE x \in shown
    <3>1. IF q.start = None THEN x < h.last ELSE Place(x) <= q.start
      <4>1. CASE q.start = None
        <5>1. h.last \in Int
          BY <1>1, <4>1 DEF HistoryInv, Forward, History, OfOperations, At
        <5>2. ~(x >= h.last)
          BY <1>1, <2>24, <4>1 DEF Behind
        <5> QED
          BY <2>23, <4>1, <5>1, <5>2
      <4>2. CASE q.start # None
        BY <1>1, <2>24, <4>2, HistoryAsked
      <4> QED
        BY <4>1, <4>2
    <3> QED
      BY <2>10, <2>11, <2>24, <3>1
  <2>25. ASSUME ~disturbed, NEW x \in stay, Asked(x), x # 0,
                h.first - step < x \/ (q.start = None /\ x >= h'.last) \/ (h'.pc = "done" /\ beyond # {})
         PROVE  x \in Returned' \/ Excused(x)
    <3>1. CASE Behind(x)
      <4>1. x \in Returned \/ Excused(x)
        BY <1>1, <2>17, <2>25, <3>1 DEF Complete, BehindInv, At
      <4>2. x \in Returned => x \in Returned'
        BY <1>1, <1>3, <2>8, ReturnedGrows
      <4> QED
        BY <4>1, <4>2
    <3>2. CASE ~Behind(x)
      <4>1. x \in Nat /\ x \in list /\ x <= h.first /\ (q.start = None => ~(x >= h.last))
        BY <1>1, <2>1, <2>23, <3>2 DEF Behind
      <4>2. Matches(x)
        BY <2>25, HistoryAsked
      <4>3. x \in items
        <5>1. CASE h.first - step < x
          BY <2>13, <2>25, <4>1, <4>2, <5>1
        <5>2. CASE q.start = None /\ x >= h'.last
          <6>1. shown # {} /\ h'.last = Bottom(shown)
            BY <2>15, <4>1, <5>2
          <6>2. Bottom(shown) \in items
            BY <2>7, <2>8, <6>1, Extremes
          <6>3. Bottom(shown) <= x
            BY <4>1, <5>2, <6>1, <6>2, <2>6 DEF ListInv
          <6> QED
            BY <2>12, <4>1, <4>2, <6>2, <6>3
        <5>3. CASE beyond # {}
          <6>1. PICK b \in beyond : x > b
            BY <2>10, <2>25, <5>3
          <6>2. b \in items /\ b \in Nat
            BY <2>6, <2>7, <2>9 DEF ListInv
          <6> QED
            BY <2>12, <4>1, <4>2, <6>1, <6>2
        <5> QED
          BY <2>25, <5>1, <5>2, <5>3
      <4>4. x \in shown
        BY <2>24, <2>25, <3>2, <4>3
      <4> QED
        BY <1>1, <1>3, <2>8, <4>4, ReturnedGrows
    <3> QED
      BY <3>1, <3>2
  <2>26. ASSUME NEW x \in stay PROVE (Asked(x)' <=> Asked(x)) /\ (Excused(x)' <=> Excused(x))
    BY <2>16, HistoryAskedSame
  <2>27. BehindInv'
    <3>1. ASSUME ~disturbed, NEW x \in stay, Asked(x), h'.pc = "pages", Behind(x)'
          PROVE  x \in Returned' \/ Excused(x)
      <4>1. x > h'.first \/ (q.start = None /\ x >= h'.last)
        BY <1>1, <2>16, <3>1 DEF Behind
      <4>2. x # 0 => h.first - step < x \/ (q.start = None /\ x >= h'.last)
        BY <2>1, <2>4, <2>15, <2>23, <4>1
      <4> QED
        BY <2>25, <3>1, <4>2 DEF Excused
    <3>2. ASSUME ~disturbed, NEW x \in stay, Asked(x), h'.pc = "done"
          PROVE  x \in Returned' \/ Excused(x)
      <4>1. x # 0 => h.first - step < x \/ beyond # {}
        BY <2>1, <2>4, <2>18, <2>23, <3>2
      <4> QED
        BY <2>25, <3>2, <4>1 DEF Excused
    <3> QED
      BY <2>16, <2>17, <2>26, <3>1, <3>2 DEF BehindInv, At
  <2> QED
    BY <2>19, <2>22, <2>27 DEF Complete
<1> QED
  BY <1>2, <1>3 DEF PageDown

\* Every step of a reader of history, and of the world around it.
LEMMA CompleteStep ==
    Origin /\ ListInv /\ HistoryList /\ BlocksInv /\ History /\ HistoryInv /\ Complete /\ [Next]_vars
        => Complete'
<1> SUFFICES ASSUME Origin, ListInv, HistoryList, BlocksInv, History, HistoryInv, Complete, [Next]_vars
             PROVE  Complete'
  OBVIOUS
<1>1. CASE UNCHANGED vars
  <2>1. /\ q' = q /\ h' = h /\ out' = out /\ stay' = stay /\ block' = block /\ chosen' = chosen
        /\ node' = node /\ disturbed' = disturbed
    BY <1>1 DEF vars
  <2>2. /\ \A s \in {"count", "pages", "done", "search", "back"} : At(s)' <=> At(s)
        /\ (Forward' <=> Forward) /\ (ByIndex' <=> ByIndex) /\ Returned' = Returned
        /\ (Skips' <=> Skips) /\ (StopsAtOnce' <=> StopsAtOnce) /\ (OnHive' <=> OnHive)
        /\ Searching' = Searching
    BY <2>1 DEF At, Forward, ByIndex, Returned, Skips, StopsAtOnce, OnHive, Searching
  <2>3. \A x \in stay : (Asked(x)' <=> Asked(x)) /\ (Excused(x)' <=> Excused(x))
    BY <2>1, HistoryAskedSame
  <2>4. \A x \in stay : Behind(x)' <=> Behind(x)
    BY <2>1, <2>2 DEF Behind
  <2>5. CountInv'
    BY <2>1, <2>2 DEF Complete, CountInv
  <2>6. SearchInv'
    <3>1. SearchInv
      BY DEF Complete
    <3>2. list' = list /\ (At("search")' <=> At("search")) /\ (At("back")' <=> At("back"))
      BY <1>1, <2>1 DEF At, vars
    <3> QED
      BY <2>1, <2>2, <3>1, <3>2 DEF SearchInv, Searching
  <2>7. WindowInv'
    BY <2>1, <2>2 DEF Complete, WindowInv
  <2>8. BehindInv'
    BY <2>1, <2>2, <2>3, <2>4 DEF Complete, BehindInv
  <2> QED
    BY <2>5, <2>6, <2>7, <2>8 DEF Complete
<1>2. CASE Appear \/ SwitchNode
  BY <1>2, WorldKeepsComplete
<1>3. CASE Count
  BY <1>3, CountCompletes
<1>4. CASE FirstIndex
  BY <1>4, FirstIndexCompletes
<1>5. CASE Created
  BY <1>5, CreatedCompletes
<1>6. CASE Latest
  BY <1>6, LatestCompletes
<1>7. CASE Search
  BY <1>7, SearchCompletes
<1>8. CASE Back
  BY <1>8, BackCompletes
<1>9. CASE PageUp
  BY <1>9, PageUpCompletes
<1>10. CASE PageDown
  BY <1>10, PageDownCompletes
<1>11. ~Disappear /\ ~ReadPage /\ ~ReadDiscussions /\ ~ReadDates
  BY ReadersDiffer DEF Disappear, ReadPage, ReadDiscussions, ReadDates, History, OfOperations
<1> QED
  BY <1>1, <1>2, <1>3, <1>4, <1>5, <1>6, <1>7, <1>8, <1>9, <1>10, <1>11 DEF Next, World, Read, ReadHistory

-----------------------------------------------------------------------------
(* Dates.                                                                  *)

\* Blocks are at least an interval apart.
DateList ==
    /\ list = 1..Cardinality(list) /\ list # {} /\ list \in SUBSET Nat /\ IsFiniteSet(list)
    /\ q.start \in Int /\ q.limit = None
    /\ q.start > block[1] - BlockInterval
    /\ q.mode = "forwards" => EarlyBlock \in list
    /\ \A x \in list : block[x] \in Int
    /\ \A x \in list : x + 1 \in list => block[x + 1] - block[x] >= BlockInterval

\* Division by the interval.
LEMMA IntervalsType ==
    ASSUME NEW s \in Int
    PROVE  /\ Intervals(s) \in Int
           /\ 3 * Intervals(s) <= s /\ s < 3 * Intervals(s) + 3
BY DEF Intervals, BlockInterval

LEMMA DateListFacts ==
    ASSUME DateList
    PROVE  /\ 1 \in list /\ Finite(list)
           /\ \A y \in list : y \in Int /\ block[y] \in Int /\ 1 <= y
           /\ \A a, b \in list : \A y \in a..b : y \in list
<1>1. Cardinality(list) \in Nat
  BY FS_CardinalityType DEF DateList
<1>2. list \in SUBSET Int /\ IsFiniteSet(list)
  BY DEF DateList
<1> DEFINE n == Cardinality(list)
<1>3. list = 1..n /\ n \in Nat /\ list # {}
  BY <1>1 DEF DateList
<1> HIDE DEF n
<1>4. 1 \in list
  BY <1>3
<1>5. \A a, b \in list : \A y \in a..b : y \in list
  BY <1>3
<1>6. \A y \in list : y \in Int /\ 1 <= y
  BY <1>3
<1>7. \A y \in list : block[y] \in Int
  BY DEF DateList
<1> QED
  BY <1>2, <1>4, <1>5, <1>6, <1>7 DEF Finite

\* A later block is later by its distance at least.
LEMMA BlocksGrow ==
    ASSUME DateList, NEW a \in list, NEW b \in list, a <= b
    PROVE  block[b] >= block[a] + 3 * (b - a)
<1> DEFINE S == {y \in a..b : block[y] < block[a] + 3 * (y - a)}
<1>1. /\ a \in Int /\ b \in Int /\ S \in SUBSET list
      /\ \A y \in a..b : y \in list /\ block[y] \in Int
  BY DateListFacts DEF DateList
<1>2. Finite(S)
  BY <1>1, DateListFacts, FS_Subset DEF Finite
<1>3. CASE S = {}
  <2>1. b \in a..b /\ block[b] \in Int /\ block[a] \in Int
    BY <1>1
  <2>2. b \notin S
    BY <1>3
  <2> QED
    BY <1>1, <2>1, <2>2
<1>4. CASE S # {}
  <2> DEFINE m == Bottom(S)
  <2>1. m \in S /\ \A y \in S : m <= y
    BY <1>2, <1>4, Extremes
  <2> HIDE DEF m
  <2>2. m \in a..b /\ block[m] < block[a] + 3 * (m - a) /\ m # a
    <3>1. block[a] \in Int /\ m \in a..b /\ block[m] < block[a] + 3 * (m - a)
      BY <2>1, <1>1
    <3>2. m = a => FALSE
      BY <1>1, <3>1
    <3> QED
      BY <3>1, <3>2
  <2>3. m - 1 \in a..b /\ m - 1 \notin S /\ (m - 1) + 1 = m
    <3>1. m - 1 \in a..b /\ (m - 1) + 1 = m /\ ~(m <= m - 1)
      BY <1>1, <2>2
    <3> QED
      BY <2>1, <3>1
  <2>4. block[m] - block[m - 1] >= 3
    BY <1>1, <2>2, <2>3 DEF DateList, BlockInterval
  <2>5. ~(block[m - 1] < block[a] + 3 * ((m - 1) - a))
    BY <2>3
  <2>6. block[m] \in Int /\ block[m - 1] \in Int /\ block[a] \in Int /\ m \in Int
    BY <1>1, <2>2, <2>3
  <2> QED
    BY <1>1, <2>2, <2>4, <2>5, <2>6
<1> QED
  BY <1>3, <1>4

\* Blocks that follow one another without a missed slot, up to a time, are an interval apart.
LEMMA SpacedUp ==
    ASSUME DateList, NEW a \in list, NEW b \in list, a <= b, NEW t \in Int,
           \A y \in a..(b - 1) : block[y] < t => block[y + 1] - block[y] <= 3,
           block[a] + 3 * (b - a - 1) < t
    PROVE  block[b] = block[a] + 3 * (b - a)
<1> DEFINE S == {y \in a..b : block[y] # block[a] + 3 * (y - a)}
<1>1. /\ a \in Int /\ b \in Int /\ S \in SUBSET list
      /\ \A y \in a..b : y \in list /\ block[y] \in Int
  BY DateListFacts DEF DateList
<1>2. Finite(S)
  BY <1>1, DateListFacts, FS_Subset DEF Finite
<1>3. CASE S = {}
  <2>1. b \in a..b
    BY <1>1
  <2> QED
    BY <1>3, <2>1
<1>4. CASE S # {}
  <2> DEFINE m == Bottom(S)
  <2>1. m \in S /\ \A y \in S : m <= y
    BY <1>2, <1>4, Extremes
  <2> HIDE DEF m
  <2>2. m \in a..b /\ block[m] # block[a] + 3 * (m - a) /\ m # a
    <3>1. block[a] \in Int /\ m \in a..b /\ block[m] # block[a] + 3 * (m - a)
      BY <2>1, <1>1
    <3>2. m = a => FALSE
      BY <1>1, <3>1
    <3> QED
      BY <3>1, <3>2
  <2>3. m - 1 \in a..(b - 1) /\ m - 1 \in a..b /\ m - 1 \notin S /\ (m - 1) + 1 = m
    <3>1. m - 1 \in a..(b - 1) /\ m - 1 \in a..b /\ (m - 1) + 1 = m /\ ~(m <= m - 1)
      BY <1>1, <2>2
    <3> QED
      BY <2>1, <3>1
  <2>4. block[m - 1] = block[a] + 3 * ((m - 1) - a)
    BY <2>3
  <2>5. block[m] \in Int /\ block[m - 1] \in Int /\ block[a] \in Int /\ m \in Int
    BY <1>1, <2>2, <2>3
  <2>6. block[m - 1] < t
    BY <1>1, <2>2, <2>4, <2>5
  <2>7. block[m] - block[m - 1] <= 3
    BY <2>3, <2>6
  <2>8. block[m] - block[m - 1] >= 3
    BY <1>1, <2>2, <2>3 DEF DateList, BlockInterval
  <2> QED
    BY <1>1, <2>2, <2>4, <2>5, <2>7, <2>8
<1> QED
  BY <1>3, <1>4

\* And so are they down to a time.
LEMMA SpacedDown ==
    ASSUME DateList, NEW a \in list, NEW b \in list, a <= b, NEW t \in Int,
           \A y \in a..(b - 1) : block[y + 1] > t => block[y + 1] - block[y] <= 3,
           block[b] - 3 * (b - a - 1) > t
    PROVE  block[a] = block[b] - 3 * (b - a)
<1> DEFINE S == {y \in a..b : block[y] # block[b] - 3 * (b - y)}
<1>1. /\ a \in Int /\ b \in Int /\ S \in SUBSET list
      /\ \A y \in a..b : y \in list /\ block[y] \in Int
  BY DateListFacts DEF DateList
<1>2. Finite(S)
  BY <1>1, DateListFacts, FS_Subset DEF Finite
<1>3. CASE S = {}
  <2>1. a \in a..b
    BY <1>1
  <2> QED
    BY <1>3, <2>1
<1>4. CASE S # {}
  <2> DEFINE m == Top(S)
  <2>1. m \in S /\ \A y \in S : m >= y
    BY <1>2, <1>4, Extremes
  <2> HIDE DEF m
  <2>2. m \in a..b /\ block[m] # block[b] - 3 * (b - m) /\ m # b
    <3>1. block[b] \in Int /\ m \in a..b /\ block[m] # block[b] - 3 * (b - m)
      BY <2>1, <1>1
    <3>2. m = b => FALSE
      BY <1>1, <3>1
    <3> QED
      BY <3>1, <3>2
  <2>3. m \in a..(b - 1) /\ m + 1 \in a..b /\ m + 1 \notin S
    <3>1. m \in a..(b - 1) /\ m + 1 \in a..b /\ ~(m >= m + 1)
      BY <1>1, <2>2
    <3> QED
      BY <2>1, <3>1
  <2>4. block[m + 1] = block[b] - 3 * (b - (m + 1))
    BY <2>3
  <2>5. block[m] \in Int /\ block[m + 1] \in Int /\ block[b] \in Int /\ m \in Int
    BY <1>1, <2>2, <2>3
  <2>6. block[m + 1] > t
    BY <1>1, <2>2, <2>4, <2>5
  <2>7. block[m + 1] - block[m] <= 3
    BY <2>3, <2>6
  <2>8. block[m + 1] - block[m] >= 3
    BY <1>1, <2>2, <2>3 DEF DateList, BlockInterval
  <2> QED
    BY <1>1, <2>2, <2>4, <2>5, <2>7, <2>8
<1> QED
  BY <1>3, <1>4

\* The block that is reckoned from another is near the date, unless a slot was missed.
LEMMA GuessIsNear ==
    ASSUME DateList, ~q.inclusive, NEW r \in list, NEW x \in list,
           x = Greatest(r + Intervals(q.start - block[r]), 1)
    PROVE  NearDate(x)
<1> DEFINE d == q.start - block[1]
<1>1. \A y \in list : y \in Int /\ block[y] \in Int /\ 1 <= y
  BY DateListFacts
<1>2. 1 \in list /\ q.start \in Int /\ d \in Int /\ d >= -2 /\ block[1] \in Int
  BY <1>1, DateListFacts DEF DateList, BlockInterval
<1>3. CASE \E y \in list : y + 1 \in list /\ block[y + 1] - block[y] > BlockInterval
  BY <1>3 DEF NearDate, Missed
<1>4. CASE ~\E y \in list : y + 1 \in list /\ block[y + 1] - block[y] > BlockInterval
  <2>1. ASSUME NEW b \in list PROVE block[b] = block[1] + 3 * (b - 1)
    <3>1. b \in Int /\ 1 <= b /\ block[1] + 3 * (b - 1) \in Int
      BY <1>1, <1>2
    <3>2. \A y \in 1..(b - 1) : block[y + 1] - block[y] <= 3
      <4> SUFFICES ASSUME NEW y \in 1..(b - 1) PROVE block[y + 1] - block[y] <= 3
        OBVIOUS
      <4>1. y \in 1..b /\ y + 1 \in 1..b
        BY <3>1
      <4>2. y \in list /\ y + 1 \in list
        BY <1>2, <4>1, DateListFacts
      <4>3. ~(block[y + 1] - block[y] > 3)
        BY <1>4, <4>2 DEF BlockInterval
      <4> QED
        BY <1>1, <4>2, <4>3
    <3>3. block[1] + 3 * (b - 1 - 1) < block[1] + 3 * (b - 1)
      BY <1>2, <3>1
    <3> QED
      BY <1>2, <3>1, <3>2, <3>3, SpacedUp
  <2> DEFINE k == Intervals(q.start - block[r])
  <2>2. /\ k \in Int /\ 3 * k <= q.start - block[r] /\ q.start - block[r] < 3 * k + 3
        /\ r \in Int /\ block[r] \in Int /\ x \in Int /\ block[x] \in Int
    <3>1. r \in Int /\ block[r] \in Int /\ x \in Int /\ block[x] \in Int
      BY <1>1
    <3>2. q.start - block[r] \in Int
      BY <1>2, <3>1
    <3> QED
      BY <3>1, <3>2, IntervalsType
  <2>3. x = IF r + k > 1 THEN r + k ELSE 1
    BY DEF Greatest
  <2>4. block[r] = block[1] + 3 * (r - 1) /\ block[x] = block[1] + 3 * (x - 1)
    BY <2>1
  <2> HIDE DEF k
  <2>5. block[x] - q.start >= -2 /\ block[x] - q.start <= 2
    BY <1>2, <2>2, <2>3, <2>4
  <2> QED
    BY <1>2, <2>2, <2>5 DEF NearDate, BlockInterval
<1> QED
  BY <1>3, <1>4

\* Of a block that is not near the date: it is apart from it, and no slot was missed between.
LEMMA FarFromDate ==
    ASSUME DateList, NEW x \in list, ~NearDate(x)
    PROVE  /\ q.start \in Int /\ block[x] \in Int
           /\ q.start - block[x] >= 3 \/ q.start - block[x] <= -3
           /\ \A y \in list : y + 1 \in list /\ block[y + 1] - block[y] > 3 =>
                  /\ q.start >= block[x] => block[y] >= q.start \/ block[y + 1] <= block[x]
                  /\ q.start <= block[x] => block[y] >= block[x] \/ block[y + 1] <= q.start
<1>1. \A y \in list : block[y] \in Int
  BY DEF DateList
<1>2. q.start \in Int /\ block[x] \in Int
  BY <1>1 DEF DateList
<1>3. ~(block[x] - q.start \in -2..2)
  BY DEF NearDate, BlockInterval
<1>4. \A y \in list : y + 1 \in list /\ block[y + 1] - block[y] > 3 =>
          ~(block[y] < Greatest(block[x], q.start) /\ block[y + 1] > Least(block[x], q.start))
  BY DEF NearDate, Missed, BlockInterval
<1>5. q.start >= block[x] => Least(block[x], q.start) = block[x] /\ Greatest(block[x], q.start) = q.start
  BY <1>2 DEF Least, Greatest
<1>6. q.start <= block[x] => Least(block[x], q.start) = q.start /\ Greatest(block[x], q.start) = block[x]
  BY <1>2 DEF Least, Greatest
<1> HIDE DEF Least, Greatest
<1>7. ASSUME NEW y \in list, y + 1 \in list, block[y + 1] - block[y] > 3
      PROVE  /\ q.start >= block[x] => block[y] >= q.start \/ block[y + 1] <= block[x]
             /\ q.start <= block[x] => block[y] >= block[x] \/ block[y + 1] <= q.start
  <2>1. block[y] \in Int /\ block[y + 1] \in Int
    BY <1>1, <1>7
  <2>2. ~(block[y] < Greatest(block[x], q.start) /\ block[y + 1] > Least(block[x], q.start))
    BY <1>4, <1>7
  <2>3. q.start >= block[x] => block[y] >= q.start \/ block[y + 1] <= block[x]
    BY <1>2, <1>5, <2>1, <2>2
  <2>4. q.start <= block[x] => block[y] >= block[x] \/ block[y + 1] <= q.start
    BY <1>2, <1>6, <2>1, <2>2
  <2> QED
    BY <2>3, <2>4
<1>8. q.start - block[x] >= 3 \/ q.start - block[x] <= -3
  BY <1>2, <1>3
<1> QED
  BY <1>2, <1>7, <1>8

\* From a block that is near the date, but for its own distance, one step leads to a block
\* that is near.
LEMMA StepIsNear ==
    ASSUME DateList, NEW b \in list, q.start - block[b] \in -3..3,
           NEW x \in list, x = b + StepTo(q.start - block[b])
    PROVE  NearDate(x)
<1> DEFINE d == q.start - block[b]
<1> SUFFICES ASSUME ~NearDate(x) PROVE FALSE
  OBVIOUS
<1>1. \A y \in list : y \in Int /\ block[y] \in Int
  BY DEF DateList
<1>2. b \in Int /\ x \in Int /\ block[b] \in Int /\ block[x] \in Int /\ q.start \in Int /\ d \in -3..3
  BY <1>1 DEF DateList
<1>3. /\ q.start - block[x] >= 3 \/ q.start - block[x] <= -3
      /\ \A y \in list : y + 1 \in list /\ block[y + 1] - block[y] > 3 =>
             /\ q.start >= block[x] => block[y] >= q.start \/ block[y + 1] <= block[x]
             /\ q.start <= block[x] => block[y] >= block[x] \/ block[y + 1] <= q.start
  BY FarFromDate
<1>4. StepTo(d) = IF d > 0 THEN 1 ELSE IF d = 0 THEN 0 ELSE -1
  <2>1. Intervals(d) \in Int /\ 3 * Intervals(d) <= d /\ d < 3 * Intervals(d) + 3
    BY <1>2, IntervalsType
  <2>2. d > 0 => Intervals(d) <= 1
    BY <1>2, <2>1
  <2>3. d = 0 => Intervals(d) = 0
    BY <1>2, <2>1
  <2>4. d < 0 => Intervals(d) = -1
    BY <1>2, <2>1
  <2> HIDE DEF d
  <2> QED
    BY <1>2, <2>1, <2>2, <2>3, <2>4 DEF StepTo, Greatest
<1>5. CASE d > 0
  <2>1. x = b + 1 /\ b + 1 \in list
    BY <1>4, <1>5
  <2>2. block[x] - block[b] >= 3
    BY <2>1 DEF DateList, BlockInterval
  <2>3. block[x] - block[b] > 3 /\ q.start <= block[x]
    BY <1>2, <1>3, <1>5, <2>2
  <2> QED
    BY <1>2, <1>3, <1>5, <2>1, <2>3
<1>6. CASE d = 0
  BY <1>2, <1>3, <1>4, <1>6
<1>7. CASE d < 0
  <2>1. x = b - 1 /\ x + 1 = b
    BY <1>2, <1>4, <1>7
  <2>2. block[b] - block[x] >= 3
    BY <2>1 DEF DateList, BlockInterval
  <2>3. block[b] - block[x] > 3 /\ q.start >= block[x]
    BY <1>2, <1>3, <1>7, <2>2
  <2> QED
    BY <1>2, <1>3, <1>7, <2>1, <2>3
<1> QED
  BY <1>2, <1>5, <1>6, <1>7

\* What is left of a time when whole intervals are taken off it.
LEMMA Remainder ==
    ASSUME NEW s \in Int, NEW d \in Int, NEW e \in Int, NEW k \in Int,
           NEW x \in Int, NEW p \in Int, NEW bx \in Int, NEW bp \in Int,
           d = s - bx, e = s - bp, p - x = k, bp = bx + 3 * (p - x),
           3 * k <= d, d < 3 * k + 3
    PROVE  e \in 0..2 /\ e = d - 3 * k
<1>1. e = s - (bx + 3 * k)
  OBVIOUS
<1>2. e = d - 3 * k
  BY <1>1
<1> QED
  BY <1>2

\* One step back does not make up for a whole interval and more.
LEMMA NoWayBack ==
    ASSUME NEW d \in Int, NEW e \in 0..2, NEW k \in Int, NEW x \in Int, NEW p \in Int, NEW f,
           d <= -3, k <= -1, p = x + k, x = p + f, e = d - 3 * k, f = IF e > 0 THEN 1 ELSE 0
    PROVE  FALSE
<1>1. f \in Int /\ f + k = 0
  OBVIOUS
<1>2. k = -1 /\ e > 0
  BY <1>1
<1> QED
  BY <1>2

\* A block to which the step from it, and the step after that, lead back is near the date.
LEMMA ToAndFroIsNear ==
    ASSUME DateList, NEW x \in list, NEW p \in list,
           p = x + StepTo(q.start - block[x]), x = p + StepTo(q.start - block[p])
    PROVE  NearDate(x)
<1> SUFFICES ASSUME ~NearDate(x) PROVE FALSE
  OBVIOUS
<1>1. \A y \in list : y \in Int /\ block[y] \in Int
  BY DateListFacts
<1> DEFINE d == q.start - block[x]
           e == q.start - block[p]
           k == Intervals(d)
<1>2. /\ p \in Int /\ x \in Int /\ block[p] \in Int /\ block[x] \in Int /\ q.start \in Int
      /\ d \in Int /\ d = q.start - block[x]
      /\ e \in Int /\ e = q.start - block[p]
      /\ p = x + StepTo(d) /\ x = p + StepTo(e)
  <2>1. p \in Int /\ x \in Int /\ block[p] \in Int /\ block[x] \in Int /\ q.start \in Int
    BY <1>1 DEF DateList
  <2> QED
    BY <2>1
<1> HIDE DEF d, e
<1>3. /\ q.start - block[x] >= 3 \/ q.start - block[x] <= -3
      /\ \A y \in list : y + 1 \in list /\ block[y + 1] - block[y] > 3 =>
             /\ q.start >= block[x] => block[y] >= q.start \/ block[y + 1] <= block[x]
             /\ q.start <= block[x] => block[y] >= block[x] \/ block[y + 1] <= q.start
  BY FarFromDate
<1>4. k \in Int /\ 3 * k <= d /\ d < 3 * k + 3
  BY <1>2, IntervalsType
<1>5. e \in 0..2 => StepTo(e) = IF e > 0 THEN 1 ELSE 0
  <2>1. Intervals(e) \in Int /\ 3 * Intervals(e) <= e /\ e < 3 * Intervals(e) + 3
    BY <1>2, IntervalsType
  <2>2. e \in 0..2 => Intervals(e) = 0
    BY <1>2, <2>1
  <2>3. e \in 0..2 => (e > 0 /\ Greatest(Intervals(e), 1) = 1) \/ (~(e > 0) /\ Intervals(e) = 0)
    BY <1>2, <2>2 DEF Greatest
  <2> QED
    BY <2>3, Zenon DEF StepTo
<1>6. CASE d >= 3
  <2>1. k >= 1 /\ StepTo(d) = k /\ p = x + k
    <3>1. k >= 1
      BY <1>2, <1>4, <1>6
    <3>2. StepTo(d) = Greatest(k, 1)
      <4>1. d > 0
        BY <1>2, <1>6
      <4> QED
        BY <4>1, Zenon DEF StepTo
    <3> HIDE DEF k
    <3>3. StepTo(d) = k
      BY <1>4, <3>1, <3>2 DEF Greatest
    <3> QED
      BY <1>2, <3>1, <3>3
  <2> HIDE DEF k
  <2>2. x <= p /\ p - x = k
    BY <1>2, <1>4, <2>1
  <2>3. \A y \in x..(p - 1) : block[y] < q.start => block[y + 1] - block[y] <= 3
    <3> SUFFICES ASSUME NEW y \in x..(p - 1), block[y] < q.start
                 PROVE  block[y + 1] - block[y] <= 3
      OBVIOUS
    <3>1. y \in x..p /\ y + 1 \in x..p /\ x <= y + 1
      BY <1>2
    <3>2. y \in list /\ y + 1 \in list
      BY <3>1, DateListFacts
    <3>3. block[y + 1] >= block[x] + 3 * ((y + 1) - x) /\ y + 1 > x
      BY <3>1, <3>2, <1>2, BlocksGrow
    <3>4. block[y + 1] > block[x] /\ q.start >= block[x] /\ block[y] \in Int /\ block[y + 1] \in Int
      BY <1>1, <1>2, <1>6, <3>2, <3>3
    <3> QED
      BY <1>2, <1>3, <3>2, <3>4
  <2>4. block[x] + 3 * (p - x - 1) < q.start
    BY <1>2, <1>4, <2>2
  <2>5. block[p] = block[x] + 3 * (p - x)
    BY <1>2, <2>2, <2>3, <2>4, SpacedUp
  <2>6. e \in 0..2
    BY <1>2, <1>4, <2>2, <2>5, Remainder
  <2>7. StepTo(e) \in {0, 1}
    BY <1>5, <2>6
  <2> QED
    BY <1>2, <1>4, <2>1, <2>7
<1>7. CASE d <= -3
  <2>1. k <= -1 /\ StepTo(d) = k /\ p = x + k
    <3>1. k <= -1
      BY <1>2, <1>4, <1>7
    <3>2. StepTo(d) = k
      <4>1. ~(d > 0)
        BY <1>2, <1>7
      <4> QED
        BY <4>1, Zenon DEF StepTo
    <3> HIDE DEF k
    <3> QED
      BY <1>2, <3>1, <3>2
  <2> HIDE DEF k
  <2>2. p <= x /\ p - x = k
    BY <1>2, <1>4, <2>1
  <2>3. \A y \in p..(x - 1) : block[y + 1] > q.start => block[y + 1] - block[y] <= 3
    <3> SUFFICES ASSUME NEW y \in p..(x - 1), block[y + 1] > q.start
                 PROVE  block[y + 1] - block[y] <= 3
      OBVIOUS
    <3>1. y \in p..x /\ y + 1 \in p..x /\ y < x
      BY <1>2
    <3>2. y \in list /\ y + 1 \in list
      BY <3>1, DateListFacts
    <3>3. block[x] >= block[y] + 3 * (x - y)
      BY <3>1, <3>2, <1>2, BlocksGrow
    <3>4. block[y] < block[x] /\ q.start <= block[x] /\ block[y] \in Int /\ block[y + 1] \in Int
      BY <1>1, <1>2, <1>7, <3>1, <3>2, <3>3
    <3> QED
      BY <1>2, <1>3, <3>2, <3>4
  <2>4. block[x] - 3 * (x - p - 1) > q.start
    BY <1>2, <1>4, <2>2
  <2>5. block[p] = block[x] - 3 * (x - p)
    BY <1>2, <2>2, <2>3, <2>4, SpacedDown
  <2>6. block[p] = block[x] + 3 * (p - x)
    BY <1>2, <2>5
  <2>7. e \in 0..2
    BY <1>2, <1>4, <2>2, <2>6, Remainder
  <2>8. e = d - 3 * k
    <3>1. block[p] = block[x] + 3 * k
      BY <2>2, <2>6
    <3>2. q.start - (block[x] + 3 * k) = (q.start - block[x]) - 3 * k
      BY <1>2, <1>4
    <3> QED
      BY <1>2, <3>1, <3>2, Zenon
  <2>9. StepTo(e) = IF e > 0 THEN 1 ELSE 0
    BY <1>5, <2>7
  <2> QED
    BY <1>2, <1>4, <1>7, <2>1, <2>7, <2>8, <2>9, NoWayBack
<1>8. d >= 3 \/ d <= -3
  BY <1>2, <1>3
<1> QED
  BY <1>6, <1>7, <1>8

\* The block that the search has come to was reckoned from the one before it, and that one
\* from the one before it.
Reckoned(diff, a, b) == diff = q.start - block[a] /\ b = a + StepTo(diff)
OnTheWay ==
    \/ h.diff = 10 /\ h.last = 10
    \/ h.last = 10 /\ \E a \in list : Reckoned(h.diff, a, h.number)
    \/ \E a, b \in list : Reckoned(h.last, b, a) /\ Reckoned(h.diff, a, h.number)

DateStates == [pc : {"guess", "header", "done"}, number : Int, diff : Int, last : Int]

DateInv ==
    /\ DateList
    /\ h \in DateStates
    /\ At("guess") => h = NoDate /\ out = <<>>
    /\ At("header") => h.number \in list /\ out = <<>> /\ OnTheWay
    /\ out = <<>> \/ \E x : out = <<x>> /\ (x \in list => NearDate(x))

LEMMA DateInit == Init /\ OfDate => DateInv
<1> SUFFICES ASSUME Init, OfDate PROVE DateInv
  OBVIOUS
<1>1. PICK c \in Cases : /\ q = c.q /\ list = c.list /\ block = c.block
                         /\ c.q.reader = "date"
  BY DEF Init, Begin, OfDate
<1>2. DateCase(c) /\ IsFiniteSet(c.list) /\ c.list \subseteq Nat
  BY <1>1, CasesAssumption
<1>3. DateList
  BY <1>1, <1>2 DEF DateList, DateCase
<1>4. h = NoDate /\ out = <<>>
  BY ReadersDiffer DEF Init, Begin, OfDate, OfPosts, OfNames, Positional, OfOperations
<1>5. h.pc = "guess" /\ h \in DateStates
  BY <1>4 DEF NoDate, DateStates
<1> QED
  BY <1>3, <1>4, <1>5 DEF DateInv, At

\* The first guess.
LEMMA GuessStep ==
    ASSUME DateInv, OfDate, FirstGuess
    PROVE  DateInv'
<1>1. UNCHANGED <<q, list, block>> /\ h = NoDate /\ out = <<>>
  BY DEF FirstGuess, DateInv, world
<1>2. DateList' /\ DateList
  BY <1>1 DEF DateInv, DateList
<1>3. /\ \A y \in list : y \in Int /\ block[y] \in Int /\ 1 <= y
      /\ 1 \in list /\ Finite(list) /\ q.start \in Int
  BY <1>2, DateListFacts DEF DateList
<1> DEFINE r == IF q.mode = "forwards" THEN EarlyBlock ELSE Top(list)
           k == Intervals(q.start - block[r])
           n == Greatest(r + k, 1)
<1>4. Top(list) \in list /\ Top(list) \in Int /\ 1 <= Top(list)
  <2>1. Top(list) \in list
    BY <1>3, Extremes
  <2> QED
    BY <1>3, <2>1
<1>5. r \in list
  BY <1>2, <1>4 DEF DateList
<1>6. k \in Int
  <2>1. q.start - block[r] \in Int
    BY <1>3, <1>5
  <2> QED
    BY <2>1, IntervalsType
<1>7. n \in Int /\ n >= 1
  <2>1. r \in Int
    BY <1>3, <1>5
  <2> HIDE DEF r, k
  <2> QED
    BY <1>6, <2>1 DEF Greatest
<1>8. IF q.inclusive
      THEN h' = [h EXCEPT !.pc = "header", !.number = Least(n, Top(list))] /\ out' = out
      ELSE out' = <<n>> /\ h' = [h EXCEPT !.pc = "done"]
  BY DEF FirstGuess, Found, Done
<1>9. CASE q.inclusive
  <2> DEFINE m == Least(n, Top(list))
  <2>1. m \in Int /\ m >= 1 /\ m <= Top(list)
    <3> HIDE DEF n
    <3> QED
      BY <1>4, <1>7 DEF Least
  <2>2. m \in list
    <3> HIDE DEF m
    <3>1. m \in 1..Top(list)
      BY <1>4, <2>1
    <3> QED
      BY <1>2, <1>3, <1>4, <3>1, DateListFacts
  <2>3. h' = [h EXCEPT !.pc = "header", !.number = m] /\ out' = <<>>
    BY <1>1, <1>8, <1>9
  <2> HIDE DEF m
  <2>4. h' = [pc |-> "header", number |-> m, diff |-> 10, last |-> 10]
    BY <1>1, <2>3 DEF NoDate
  <2>5. /\ h' \in DateStates
        /\ h'.pc = "header" /\ h'.number = m /\ h'.diff = 10 /\ h'.last = 10
    BY <2>1, <2>4 DEF DateStates
  <2>6. OnTheWay'
    BY <2>5 DEF OnTheWay
  <2> QED
    BY <1>1, <1>2, <2>2, <2>3, <2>5, <2>6 DEF DateInv, At
<1>10. CASE ~q.inclusive
  <2>1. n \in list => NearDate(n)
    BY <1>2, <1>5, <1>10, GuessIsNear
  <2> HIDE DEF n
  <2>2. PICK x : x = n
    OBVIOUS
  <2>3. out' = <<x>> /\ h' = [pc |-> "done", number |-> 0, diff |-> 10, last |-> 10]
    BY <1>1, <1>8, <1>10, <2>2 DEF NoDate
  <2>4. NearDate(x)' <=> NearDate(x)
    BY <1>1 DEF NearDate, Missed
  <2>5. x \in list' => NearDate(x)'
    BY <1>1, <2>1, <2>2, <2>4
  <2>6. h'.pc = "done" /\ h' \in DateStates
    BY <2>3 DEF DateStates
  <2> QED
    BY <1>2, <2>3, <2>5, <2>6 DEF DateInv, At
<1> QED
  BY <1>9, <1>10

\* Every further one.
LEMMA HeaderStep ==
    ASSUME DateInv, OfDate, NextGuess
    PROVE  DateInv'
<1>1. UNCHANGED <<q, list, block>> /\ h.number \in list /\ out = <<>> /\ OnTheWay
  BY DEF NextGuess, DateInv, world
<1>2. DateList' /\ DateList
  BY <1>1 DEF DateInv, DateList
<1>3. /\ \A y \in list : y \in Int /\ block[y] \in Int
      /\ q.start \in Int /\ h \in DateStates
  BY <1>2, DateListFacts DEF DateList, DateInv
<1> DEFINE d == q.start - block[h.number]
           n == h.number + StepTo(d)
<1>4. d \in Int /\ d = q.start - block[h.number] /\ n = h.number + StepTo(d)
  <2>1. block[h.number] \in Int
    BY <1>1, <1>3
  <2> QED
    BY <1>3, <2>1
<1>5. \/ d = h.last /\ d < 10 /\ out' = <<h.number>> /\ h' = [h EXCEPT !.pc = "done"]
      \/ (n \notin list \/ d \in -3..3) /\ out' = <<n>> /\ h' = [h EXCEPT !.pc = "done"]
      \/ n \in list /\ h' = [h EXCEPT !.number = n, !.diff = d, !.last = h.diff] /\ out' = out
  BY DEF NextGuess, Found, Done, BlockInterval
<1>6. ASSUME NEW x, x \in list => NearDate(x), out' = <<x>>, h' = [h EXCEPT !.pc = "done"]
      PROVE  DateInv'
  <2>1. NearDate(x)' <=> NearDate(x)
    BY <1>1 DEF NearDate, Missed
  <2>2. /\ h'.pc = "done"
        /\ h' \in DateStates
    <3>1. h' = [h EXCEPT !.pc = "done"]
      BY <1>6
    <3> QED
      BY <1>3, <3>1 DEF DateStates
  <2>3. x \in list' => NearDate(x)'
    BY <1>1, <1>6, <2>1
  <2> QED
    BY <1>2, <1>6, <2>2, <2>3 DEF DateInv, At
<1>7. CASE d = h.last /\ d < 10 /\ out' = <<h.number>> /\ h' = [h EXCEPT !.pc = "done"]
  <2>1. h.last # 10
    BY <1>4, <1>7
  <2>2. PICK a, b \in list : Reckoned(h.last, b, a) /\ Reckoned(h.diff, a, h.number)
    BY <1>1, <2>1 DEF OnTheWay
  <2>3. a \in Int /\ b \in Int /\ h.number \in Int /\ block[a] \in Int /\ block[b] \in Int
        /\ block[h.number] \in Int
    BY <1>1, <1>3
  <2>4. block[b] = block[h.number]
    <3>1. q.start - block[b] = q.start - block[h.number]
      BY <1>4, <1>7, <2>2 DEF Reckoned
    <3> QED
      BY <1>3, <2>3, <3>1
  <2>5. b = h.number
    <3>1. b <= h.number => block[h.number] >= block[b] + 3 * (h.number - b)
      BY <1>1, <1>2, BlocksGrow
    <3>2. h.number <= b => block[b] >= block[h.number] + 3 * (b - h.number)
      BY <1>1, <1>2, BlocksGrow
    <3> QED
      BY <2>3, <2>4, <3>1, <3>2
  <2>6. /\ a = h.number + StepTo(q.start - block[h.number])
        /\ h.number = a + StepTo(q.start - block[a])
    BY <2>2, <2>5, Zenon DEF Reckoned
  <2>7. NearDate(h.number)
    BY <1>1, <1>2, <2>6, ToAndFroIsNear
  <2> QED
    BY <1>6, <1>7, <2>7
<1>8. CASE (n \notin list \/ d \in -3..3) /\ out' = <<n>> /\ h' = [h EXCEPT !.pc = "done"]
  <2>1. n \in list => NearDate(n)
    BY <1>1, <1>2, <1>8, StepIsNear
  <2> HIDE DEF n
  <2> QED
    BY <1>6, <1>8, <2>1
<1>9. CASE n \in list /\ h' = [h EXCEPT !.number = n, !.diff = d, !.last = h.diff] /\ out' = out
  <2> HIDE DEF d, n
  <2>1. /\ h'.pc = h.pc /\ h'.number = n /\ h'.diff = d /\ h'.last = h.diff
        /\ n \in Int /\ h.diff \in Int /\ h.pc = "header"
    BY <1>3, <1>9 DEF NextGuess, At, DateStates
  <2>2. h' \in DateStates
    BY <1>3, <1>4, <1>9, <2>1 DEF DateStates
  <2>3. Reckoned(d, h.number, n)
    BY <1>4 DEF Reckoned
  <2>4. h.diff = 10 \/ \E a \in list : Reckoned(h.diff, a, h.number)
    BY <1>1 DEF OnTheWay
  <2>5. \/ h'.last = 10 /\ \E a \in list : Reckoned(h'.diff, a, h'.number)
        \/ \E a, b \in list : Reckoned(h'.last, b, a) /\ Reckoned(h'.diff, a, h'.number)
    BY <1>1, <2>1, <2>3, <2>4
  <2>6. \A e, a, b : Reckoned(e, a, b)' <=> (e = q.start - block[a] /\ b = a + StepTo(e))
    BY <1>1 DEF Reckoned
  <2>7. OnTheWay'
    BY <1>1, <2>5 DEF OnTheWay, Reckoned
  <2> QED
    BY <1>1, <1>2, <1>9, <2>1, <2>2, <2>7 DEF DateInv, At
<1> QED
  BY <1>5, <1>7, <1>8, <1>9

LEMMA DateStep ==
    ASSUME DateInv, OfDate, [Next]_vars
    PROVE  DateInv'
<1>1. CASE UNCHANGED vars
  BY <1>1 DEF vars, DateInv, DateList, OnTheWay, Reckoned, NearDate, Missed, At
<1>2. ~Appear /\ ~Disappear
  BY DEF Appear, Disappear, Places, OfDate, Positional
<1>3. CASE SwitchNode
  BY <1>3 DEF SwitchNode, DateInv, DateList, OnTheWay, Reckoned, NearDate, Missed, At
<1>4. CASE Read
  <2>1. ReadDates
    BY <1>4 DEF Read, ReadHistory, ReadPage, ReadDiscussions, History, OfOperations, OfDate, Blog,
       Feed, Replies, RankedPosts, AccountPosts, ByPosition, Communities, AllAccounts, Reputations,
       Positional
  <2> QED
    BY <2>1, GuessStep, HeaderStep DEF ReadDates
<1> QED
  BY <1>1, <1>2, <1>3, <1>4 DEF Next, World

-----------------------------------------------------------------------------
(* The theorem.                                                            *)

ReadersInv ==
    /\ Origin /\ ListInv /\ ThreadInv /\ HistoryList /\ BlocksInv
    /\ OfPages => PageInv /\ AskedInv
    /\ History => HistoryInv /\ KeptInv
    /\ OfDate => DateInv

LEMMA ReadersInvInit == Init => ReadersInv
<1> SUFFICES ASSUME Init PROVE ReadersInv
  OBVIOUS
<1>1. History => KeptInv
  <2>1. out = <<>>
    BY DEF Init, Begin
  <2> QED
    BY <2>1 DEF KeptInv
<1> QED
  BY <1>1, ListInit, ThreadInit, HistoryListInit, BlocksInit, PageInit, HistoryInit, DateInit
     DEF ReadersInv

LEMMA ReadersInvStep == ReadersInv /\ [Next]_vars => ReadersInv'
<1> SUFFICES ASSUME ReadersInv, [Next]_vars PROVE ReadersInv'
  OBVIOUS
<1>1. Origin /\ ListInv /\ ThreadInv /\ HistoryList /\ BlocksInv
  BY DEF ReadersInv
<1>2. Origin' /\ ListInv' /\ ThreadInv' /\ HistoryList' /\ BlocksInv'
  BY <1>1, ListStep, ThreadStep, HistoryListStep, BlocksStep
<1>3. q' = q
  BY DEF Next, World, Appear, Disappear, SwitchNode, Read, ReadHistory, Count, FirstIndex, Created,
         Latest, Search, Back, PageUp, PageDown, ReadPage, ReadDiscussions, ReadDates, FirstGuess,
         NextGuess, vars
<1>4. (OfPages' <=> OfPages) /\ (History' <=> History) /\ (OfDate' <=> OfDate)
  BY <1>3 DEF OfPages, History, OfDate
<1>5. OfPages => PageInv' /\ AskedInv'
  BY <1>1, PageStep DEF ReadersInv
<1>6. History => HistoryInv' /\ KeptInv'
  BY <1>1, HistoryStep, KeptStep DEF ReadersInv
<1>7. OfDate => DateInv'
  BY DateStep DEF ReadersInv
<1> QED
  BY <1>2, <1>4, <1>5, <1>6, <1>7 DEF ReadersInv

LEMMA ReadersKinds == Origin => OfPages \/ History \/ OfDate
<1> SUFFICES ASSUME Origin PROVE OfPages \/ History \/ OfDate
  OBVIOUS
<1>1. PICK c \in Cases : c.q = q
  BY DEF Origin
<1> QED
  BY <1>1, CasesAssumption DEF OfPages, History, OfDate

LEMMA OrderFollows == ReadersInv => NothingTwice
<1> SUFFICES ASSUME ReadersInv, ~OfTags, q.reader = "forward" => q.start = None
             PROVE  \A i, j \in DOMAIN out :
                        i < j => IF q.reader = "reverse" THEN out[i] > out[j] ELSE out[i] < out[j]
  BY DEF NothingTwice
<1>1. CASE OfPages
  <2>1. out \in Seq(Int) /\ Increasing(out) /\ q.reader # "reverse"
    BY <1>1, ReadersDiffer DEF ReadersInv, PageInv, History, OfOperations
  <2> QED
    BY <2>1 DEF Increasing
<1>2. CASE History
  <2>1. out \in Seq(Int) /\ (IF q.reader = "reverse" THEN Decreasing(out) ELSE Increasing(out))
    BY <1>2 DEF ReadersInv, HistoryInv, History, OfOperations
  <2> QED
    BY <2>1 DEF Increasing, Decreasing
<1>3. CASE OfDate
  <2>1. out = <<>> \/ \E x : out = <<x>>
    BY <1>3 DEF ReadersInv, DateInv
  <2>2. DOMAIN out \subseteq {1}
    BY <2>1
  <2> QED
    BY <2>2
<1> QED
  BY <1>1, <1>2, <1>3, ReadersKinds DEF ReadersInv

\* Whatever the pages, and whatever changes between them, a reader returns its entries in
\* their order, and each of them once.
THEOREM ReturnedInOrder == Spec => []NothingTwice
<1>1. Init => ReadersInv
  BY ReadersInvInit
<1>2. ReadersInv /\ [Next]_vars => ReadersInv'
  BY ReadersInvStep
<1>3. ReadersInv => NothingTwice
  BY OrderFollows
<1> QED
  BY <1>1, <1>2, <1>3, PTL DEF Spec

LEMMA OnlyAskedFollows == ReadersInv => NothingElse
<1> SUFFICES ASSUME ReadersInv PROVE NothingElse
  OBVIOUS
<1>1. CASE OfPages
  <2>1. ~OfDate /\ ~History /\ out \in Seq(Int)
    <3>1. out \in Seq(Int)
      BY <1>1 DEF ReadersInv, PageInv
    <3>2. ~OfDate /\ ~History
      BY <1>1, ReadersDiffer DEF OfDate, OfPages
    <3> QED
      BY <3>1, <3>2
  <2>2. AskedInv /\ DOMAIN out = 1..Len(out)
    BY <1>1, <2>1 DEF ReadersInv
  <2> QED
    BY <2>1, <2>2 DEF AskedInv, Owed, NothingElse, Returned
<1>2. CASE History
  <2>1. ~OfDate /\ out \in Seq(Int)
    BY <1>2 DEF ReadersInv, HistoryInv, OfDate, History, OfOperations
  <2>2. KeptInv /\ DOMAIN out = 1..Len(out)
    BY <1>2, <2>1 DEF ReadersInv
  <2> QED
    BY <1>2, <2>1, <2>2 DEF KeptInv, NothingElse, Returned
<1>3. CASE OfDate
  <2>1. q.limit = None
    BY <1>3 DEF ReadersInv, DateInv, DateList
  <2>2. out = <<>> \/ \E x : out = <<x>> /\ (x \in list => NearDate(x))
    BY <1>3 DEF ReadersInv, DateInv
  <2>3. \A x \in Returned : x \in list => NearDate(x)
    BY <2>2 DEF Returned
  <2> QED
    BY <1>3, <2>1, <2>3 DEF NothingElse
<1> QED
  BY <1>1, <1>2, <1>3, ReadersKinds DEF ReadersInv

\* A reader returns what was asked for: nothing from beyond the start or the stop, no more
\* than the limit; and the block of a date is near it unless slots were missed.
THEOREM OnlyAsked == Spec => []NothingElse
<1>1. Init => ReadersInv
  BY ReadersInvInit
<1>2. ReadersInv /\ [Next]_vars => ReadersInv'
  BY ReadersInvStep
<1>3. ReadersInv => NothingElse
  BY OnlyAskedFollows
<1> QED
  BY <1>1, <1>2, <1>3, PTL DEF Spec

\* Why nothing is left out: of pages, and of windows of a history.
LeavesNothingOut ==
    /\ OfPages => SeenInv /\ Placed /\ KindInv
    /\ History => Complete

\* A reader that comes to its end has returned every entry asked for that was there all the
\* time, whatever was added or removed between its requests: pages overlap by what they drop,
\* the windows of a history abut, and the search for its start begins behind nothing asked for.
THEOREM NothingLeftOut == Spec => []NothingMissed
<1>1. Init => ReadersInv /\ LeavesNothingOut
  BY ReadersInvInit, SeenInit, CompleteInit DEF LeavesNothingOut
<1>2. ReadersInv /\ LeavesNothingOut /\ [Next]_vars => ReadersInv' /\ LeavesNothingOut'
  <2> SUFFICES ASSUME ReadersInv, LeavesNothingOut, [Next]_vars
               PROVE  ReadersInv' /\ LeavesNothingOut'
    OBVIOUS
  <2>1. ReadersInv'
    BY ReadersInvStep
  <2>2. q' = q
    BY DEF Next, World, Appear, Disappear, SwitchNode, Read, ReadHistory, Count, FirstIndex, Created,
           Latest, Search, Back, PageUp, PageDown, ReadPage, ReadDiscussions, ReadDates, FirstGuess,
           NextGuess, vars
  <2>3. (OfPages' => OfPages) /\ (History' => History)
    BY <2>2 DEF OfPages, History
  <2>4. OfPages => SeenInv' /\ Placed' /\ KindInv'
    BY SeenStep, KindStep DEF ReadersInv, LeavesNothingOut
  <2>5. History => Complete'
    BY CompleteStep DEF ReadersInv, LeavesNothingOut
  <2> QED
    BY <2>1, <2>3, <2>4, <2>5 DEF LeavesNothingOut
<1>3. ReadersInv /\ LeavesNothingOut => NothingMissed
  <2> SUFFICES ASSUME ReadersInv, LeavesNothingOut PROVE NothingMissed
    OBVIOUS
  <2>1. CASE OfPages
    BY <2>1 DEF LeavesNothingOut, SeenInv, NothingMissed
  <2>2. CASE History
    BY <2>2 DEF LeavesNothingOut, Complete, BehindInv, NothingMissed
  <2>3. CASE OfDate
    BY <2>3 DEF NothingMissed
  <2> QED
    BY <2>1, <2>2, <2>3, ReadersKinds DEF ReadersInv
<1> QED
  BY <1>1, <1>2, <1>3, PTL DEF Spec
=============================================================================
