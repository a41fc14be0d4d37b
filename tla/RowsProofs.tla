----------------------------- MODULE RowsProofs -----------------------------
(* What the proofs of the other modules use of lists of rows and of finite  *)
(* sets of numbers.                                                         *)
EXTENDS Rows, FiniteSetsExt, WellFoundedInduction, FiniteSetTheorems, SequenceTheorems,
        TLAPS

(* Induction over a set of numbers.  The library states induction for a      *)
(* predicate; the least element of a set needs none.                         *)

Below == OpToRel(<, Nat)

LEMMA BelowWellFounded == IsWellFoundedOn(Below, Nat)
  BY NatLessThanWellFounded, Zenon DEF Below

LEMMA BelowHolds == ASSUME NEW k \in Nat, NEW m \in Nat, k < m PROVE <<k, m>> \in Below
  BY Zenon DEF Below, OpToRel

\* A set of natural numbers that is not empty has a least element.
LEMMA LeastElement ==
    ASSUME NEW S \in SUBSET Nat, NEW n \in S
    PROVE  \E m \in S : \A k \in S : m <= k
<1>1. PICK m \in S : \A k \in S : <<k, m>> \notin Below
  BY BelowWellFounded, WFMin, Zenon
<1>2. \A k \in S : ~(k < m)
  BY <1>1, BelowHolds
<1>3. QED
  BY <1>2

\* A set that holds 0, and with each number the next, holds them all.
LEMMA SetInduction ==
    ASSUME NEW S \in SUBSET Nat, 0 \in S, \A n \in S : n + 1 \in S
    PROVE  S = Nat
<1> SUFFICES ASSUME NEW n \in Nat \ S PROVE FALSE
  OBVIOUS
<1>1. PICK m \in Nat \ S : \A k \in Nat \ S : m <= k
  BY LeastElement
<1>2. m - 1 \in Nat /\ ~(m <= m - 1) /\ m = (m - 1) + 1
  BY <1>1
<1>3. QED
  BY <1>1, <1>2

\* The least element of a set of numbers.
LEMMA MinOfSet ==
    ASSUME NEW S \in SUBSET Nat, S # {}
    PROVE  Min(S) \in S /\ \A k \in S : Min(S) <= k
<1>1. \E m \in S : \A k \in S : m <= k
  BY LeastElement
<1>2. QED
  BY <1>1, Zenon DEF Min

\* The greatest element of a finite set of numbers.
LEMMA MaxOfSet ==
    ASSUME NEW S \in SUBSET Nat, IsFiniteSet(S), S # {}
    PROVE  Max(S) \in S /\ \A k \in S : k <= Max(S)
<1> DEFINE Bounded(T) == \E m \in T : \A k \in T : m >= k
           N == {n \in Nat : \A T \in SUBSET Nat :
                    IsFiniteSet(T) /\ Cardinality(T) = n + 1 => Bounded(T)}
<1>1. 0 \in N
  <2> SUFFICES ASSUME NEW T \in SUBSET Nat, IsFiniteSet(T), Cardinality(T) = 0 + 1
               PROVE  Bounded(T)
    OBVIOUS
  <2>1. PICK m : T = {m}
    <3>1. Cardinality(T) = 1
      OBVIOUS
    <3>2. QED
      BY <3>1, FS_Singleton
  <2>2. QED
    BY <2>1
<1>2. ASSUME NEW n \in N PROVE n + 1 \in N
  <2> SUFFICES ASSUME NEW T \in SUBSET Nat, IsFiniteSet(T), Cardinality(T) = (n + 1) + 1
               PROVE  Bounded(T)
    OBVIOUS
  <2>1. n \in Nat
    OBVIOUS
  <2>2. PICK x : x \in T
    BY <2>1, FS_EmptySet
  <2>3. IsFiniteSet(T \ {x}) /\ Cardinality(T \ {x}) = n + 1
    BY <2>1, <2>2, FS_RemoveElement
  <2>4. PICK m \in T \ {x} : \A k \in T \ {x} : m >= k
    BY <2>3
  <2>5. CASE m >= x
    BY <2>4, <2>5
  <2>6. CASE ~(m >= x)
    <3>1. \A k \in T : x >= k
      BY <2>2, <2>4, <2>6
    <3>2. QED
      BY <2>2, <3>1
  <2>7. QED
    BY <2>5, <2>6
<1>3. N = Nat
  <2> HIDE DEF N
  <2>1. N \in SUBSET Nat
    BY DEF N
  <2>2. QED
    BY <1>1, <1>2, <2>1, SetInduction
<1>4. Bounded(S)
  <2>1. Cardinality(S) \in Nat /\ Cardinality(S) # 0
    BY FS_CardinalityType, FS_EmptySet
  <2>2. Cardinality(S) - 1 \in N /\ Cardinality(S) = (Cardinality(S) - 1) + 1
    BY <1>3, <2>1
  <2>3. QED
    BY <2>2
<1>5. Max(S) \in S /\ \A k \in S : Max(S) >= k
  BY <1>4, Zenon DEF Max
<1>6. QED
  BY <1>5

\* Products of numbers.
LEMMA Products ==
    ASSUME NEW a \in Nat, NEW b \in Nat, NEW m \in Nat
    PROVE  /\ a * m \in Nat /\ (a + 1) * m = a * m + m
           /\ a <= b => a * m <= b * m
  BY SMT

-----------------------------------------------------------------------------
(* Without.                                                                  *)

\* f counts up what Without keeps of the first N rows of s.
Keeps(f, s, D, N) ==
    f = [n \in 0..N |->
            IF n = 0 THEN << >>
            ELSE IF s[n] \in D THEN f[n - 1] ELSE Append(f[n - 1], s[n])]

\* The recursion of Without has a solution.
LEMMA WithoutExists == ASSUME NEW s, NEW D, NEW N \in Nat PROVE \E f : Keeps(f, s, D, N)
<1> DEFINE S == {n \in Nat : \E f : Keeps(f, s, D, n)}
<1>1. 0 \in S
  <2>1. Keeps([n \in 0..0 |-> << >>], s, D, 0)
    BY DEF Keeps
  <2>2. QED
    BY <2>1
<1>2. ASSUME NEW n \in S PROVE n + 1 \in S
  <2>1. PICK f : Keeps(f, s, D, n)
    OBVIOUS
  <2> DEFINE last == IF s[n + 1] \in D THEN f[n] ELSE Append(f[n], s[n + 1])
             g == [i \in 0..(n + 1) |-> IF i = n + 1 THEN last ELSE f[i]]
             h == [i \in 0..(n + 1) |->
                    IF i = 0 THEN << >>
                    ELSE IF s[i] \in D THEN g[i - 1] ELSE Append(g[i - 1], s[i])]
  <2>2. ASSUME NEW i \in 0..(n + 1) PROVE g[i] = h[i]
    <3>1. CASE i = n + 1
      BY <3>1
    <3>2. CASE i # n + 1
      <4>1. i \in 0..n /\ (i # 0 => i - 1 \in 0..(n + 1) /\ i - 1 # n + 1)
        BY <3>2
      <4>2. g[i] = f[i] /\ (i # 0 => g[i - 1] = f[i - 1])
        BY <4>1, <3>2
      <4>3. f[i] = IF i = 0 THEN << >>
                   ELSE IF s[i] \in D THEN f[i - 1] ELSE Append(f[i - 1], s[i])
        BY <2>1, <4>1 DEF Keeps
      <4>4. QED
        BY <4>2, <4>3
    <3>3. QED
      BY <3>1, <3>2
  <2>3. g = h
    BY <2>2
  <2>4. Keeps(g, s, D, n + 1)
    BY <2>3 DEF Keeps
  <2>5. QED
    BY <2>4
<1>3. S = Nat
  <2> HIDE DEF S
  <2>1. S \in SUBSET Nat
    BY DEF S
  <2>2. QED
    BY <1>1, <1>2, <2>1, SetInduction
<1>4. QED
  BY <1>3

LEMMA WithoutDef == ASSUME NEW s, NEW D, Len(s) \in Nat
                    PROVE  \E f : Keeps(f, s, D, Len(s)) /\ Without(s, D) = f[Len(s)]
<1> DEFINE k == CHOOSE f : Keeps(f, s, D, Len(s))
<1>1. Keeps(k, s, D, Len(s))
  BY WithoutExists
<1>2. Without(s, D) = k[Len(s)]
  BY DEF Without, Keeps
<1>3. QED
  BY <1>1, <1>2

\* g says where in s the rows of t, those of the first n that are not in D, are.
Picks(g, t, s, D, n) ==
    /\ g \in [1..Len(t) -> 1..n]
    /\ \A k \in 1..Len(t) : t[k] = s[g[k]] /\ t[k] \notin D
    /\ \A j, k \in 1..Len(t) : j < k => g[j] < g[k]
    /\ \A i \in 1..n : s[i] \notin D => \E k \in 1..Len(t) : g[k] = i

\* What Without keeps are rows of s, each once, in their order, and no others.
LEMMA WithoutPicks ==
    ASSUME NEW A, NEW s \in Seq(A), NEW D
    PROVE  /\ Without(s, D) \in Seq(A)
           /\ \E g : Picks(g, Without(s, D), s, D, Len(s))
<1>1. PICK f : Keeps(f, s, D, Len(s)) /\ Without(s, D) = f[Len(s)]
  BY WithoutDef
<1> DEFINE Good(n) == f[n] \in Seq(A) /\ \E g : Picks(g, f[n], s, D, n)
           S == {n \in Nat : n <= Len(s) => Good(n)}
<1>2. 0 \in S
  <2>1. f[0] = << >>
    BY <1>1 DEF Keeps
  <2>2. Picks(<< >>, << >>, s, D, 0)
    BY DEF Picks
  <2>3. Good(0)
    <3>1. << >> \in Seq(A)
      OBVIOUS
    <3>2. QED
      BY <2>1, <2>2, <3>1
  <2>4. QED
    BY <2>3
<1>3. ASSUME NEW n \in S PROVE n + 1 \in S
  <2> SUFFICES ASSUME n + 1 <= Len(s) PROVE Good(n + 1)
    OBVIOUS
  <2>1. n \in Nat /\ f[n] \in Seq(A) /\ s[n + 1] \in A
    OBVIOUS
  <2>2. PICK g : Picks(g, f[n], s, D, n)
    OBVIOUS
  <2>3. f[n + 1] = IF s[n + 1] \in D THEN f[n] ELSE Append(f[n], s[n + 1])
    <3>1. n + 1 \in 0..Len(s) /\ n + 1 # 0 /\ (n + 1) - 1 = n
      OBVIOUS
    <3>2. QED
      BY <1>1, <3>1 DEF Keeps
  <2> HIDE DEF S
  <2>4. CASE s[n + 1] \in D
    <3>1. f[n + 1] = f[n]
      BY <2>3, <2>4
    <3>2. Picks(g, f[n], s, D, n + 1)
      BY <2>1, <2>2, <2>4 DEF Picks
    <3>3. QED
      BY <2>1, <3>1, <3>2
  <2>5. CASE s[n + 1] \notin D
    <3> DEFINE t == Append(f[n], s[n + 1])
               h == [k \in 1..(Len(f[n]) + 1) |-> IF k = Len(f[n]) + 1 THEN n + 1 ELSE g[k]]
    <3>1. t \in Seq(A) /\ Len(t) = Len(f[n]) + 1 /\ t[Len(f[n]) + 1] = s[n + 1]
          /\ \A k \in 1..Len(f[n]) : t[k] = f[n][k]
      BY <2>1
    <3>2. n \in Nat /\ Len(f[n]) \in Nat
      BY <2>1
    <3> HIDE DEF t
    <3>3. h \in [1..Len(t) -> 1..(n + 1)]
      BY <2>2, <3>1, <3>2 DEF Picks
    <3>4. /\ \A k \in 1..Len(f[n]) : h[k] = g[k] /\ g[k] \in 1..n
          /\ h[Len(f[n]) + 1] = n + 1
      <4>1. \A k \in 1..Len(f[n]) : g[k] \in 1..n
        BY <2>2 DEF Picks
      <4>2. \A k \in 1..Len(f[n]) : h[k] = g[k]
        BY <3>2
      <4>3. h[Len(f[n]) + 1] = n + 1
        BY <3>2
      <4>4. QED
        BY <4>1, <4>2, <4>3
    <3> HIDE DEF h
    <3>5. /\ \A k \in 1..Len(t) : t[k] = s[h[k]] /\ t[k] \notin D
          /\ \A j, k \in 1..Len(t) : j < k => h[j] < h[k]
      <4>1. ASSUME NEW k \in 1..Len(t) PROVE t[k] = s[h[k]] /\ t[k] \notin D
        <5>1. CASE k \in 1..Len(f[n])
          BY <2>2, <3>1, <3>4, <5>1 DEF Picks
        <5>2. CASE k = Len(f[n]) + 1
          BY <2>5, <3>1, <3>4, <5>2
        <5>3. QED
          BY <3>1, <3>2, <5>1, <5>2
      <4>2. ASSUME NEW j \in 1..Len(t), NEW k \in 1..Len(t), j < k PROVE h[j] < h[k]
        <5>1. j \in 1..Len(f[n])
          BY <3>1, <3>2, <4>2
        <5>2. CASE k \in 1..Len(f[n])
          BY <2>2, <3>4, <4>2, <5>1, <5>2 DEF Picks
        <5>3. CASE k = Len(f[n]) + 1
          BY <3>2, <3>4, <5>1, <5>3
        <5>4. QED
          BY <3>1, <3>2, <5>2, <5>3
      <4>3. QED
        BY <4>1, <4>2
    <3>6. \A i \in 1..(n + 1) : s[i] \notin D => \E k \in 1..Len(t) : h[k] = i
      <4>1. ASSUME NEW i \in 1..n, s[i] \notin D PROVE \E k \in 1..Len(t) : h[k] = i
        <5>1. PICK k \in 1..Len(f[n]) : g[k] = i
          BY <2>2, <4>1 DEF Picks
        <5>2. k \in 1..Len(t) /\ h[k] = i
          BY <3>1, <3>2, <3>4, <5>1
        <5>3. QED
          BY <5>2
      <4>2. Len(f[n]) + 1 \in 1..Len(t) /\ h[Len(f[n]) + 1] = n + 1
        BY <3>1, <3>2, <3>4
      <4>3. QED
        BY <3>2, <4>1, <4>2
    <3>7. Picks(h, t, s, D, n + 1)
      BY <3>3, <3>5, <3>6 DEF Picks
    <3>8. f[n + 1] = t
      BY <2>3, <2>5 DEF t
    <3>9. QED
      BY <3>1, <3>7, <3>8
  <2>6. QED
    BY <2>4, <2>5
<1>4. S = Nat
  <2> HIDE DEF S
  <2>1. S \in SUBSET Nat
    BY DEF S
  <2>2. QED
    BY <1>2, <1>3, <2>1, SetInduction
<1>5. Good(Len(s))
  <2>1. Len(s) \in S
    BY <1>4
  <2>2. QED
    BY <2>1
<1>6. QED
  BY <1>1, <1>5

\* A row is kept when it is in s and not in D.
LEMMA WithoutRange ==
    ASSUME NEW A, NEW s \in Seq(A), NEW D
    PROVE  Range(Without(s, D)) = Range(s) \ D
<1> DEFINE t == Without(s, D)
<1>1. PICK g : t \in Seq(A) /\ Picks(g, t, s, D, Len(s))
  BY WithoutPicks
<1> HIDE DEF t
<1>2. DOMAIN t = 1..Len(t) /\ DOMAIN s = 1..Len(s)
  BY <1>1
<1>3. ASSUME NEW x \in Range(t) PROVE x \in Range(s) \ D
  BY <1>1, <1>2 DEF Range, Picks
<1>4. ASSUME NEW x \in Range(s) \ D PROVE x \in Range(t)
  <2>1. PICK i \in 1..Len(s) : s[i] = x
    BY <1>2 DEF Range
  <2>2. PICK k \in 1..Len(t) : g[k] = i
    BY <1>1, <2>1 DEF Picks
  <2>3. t[k] = x
    BY <1>1, <2>1, <2>2 DEF Picks
  <2>4. QED
    BY <1>2, <2>3 DEF Range
<1>5. QED
  BY <1>3, <1>4 DEF t
\* A list over A is one over a larger set.
LEMMA SeqOverMore == ASSUME NEW A, NEW B, A \subseteq B, NEW s \in Seq(A) PROVE s \in Seq(B)
<1>1. s \in [1..Len(s) -> B] /\ Len(s) \in Nat
  OBVIOUS
<1>2. QED
  BY <1>1

-----------------------------------------------------------------------------
(* Lists grow row by row: what holds of none and of one more holds of all.   *)

LEMMA ListInduction ==
    ASSUME NEW A, NEW S \in SUBSET Seq(A), << >> \in S, \A s \in S, x \in A : Append(s, x) \in S
    PROVE  S = Seq(A)
<1> DEFINE N == {n \in Nat : \A s \in Seq(A) : Len(s) = n => s \in S}
<1>1. 0 \in N
  <2>1. \A s \in Seq(A) : Len(s) = 0 => s = << >>
    BY EmptySeq
  <2>2. QED
    BY <2>1
<1>2. ASSUME NEW n \in N PROVE n + 1 \in N
  <2>1. ASSUME NEW s \in Seq(A), Len(s) = n + 1 PROVE s \in S
    <3>1. s # << >>
      BY <2>1, EmptySeq
    <3>2. PICK t \in Seq(A), x \in A : s = Append(t, x)
      BY <3>1, SequenceEmptyOrAppend
    <3>3. Len(t) = n
      BY <2>1, <3>2
    <3>4. QED
      BY <3>2, <3>3
  <2>2. QED
    BY <2>1
<1>3. N = Nat
  <2> HIDE DEF N
  <2>1. N \in SUBSET Nat
    BY DEF N
  <2>2. QED
    BY <1>1, <1>2, <2>1, SetInduction
<1>4. ASSUME NEW s \in Seq(A) PROVE s \in S
  <2>1. Len(s) \in N
    BY <1>3
  <2>2. QED
    BY <2>1
<1>5. QED
  BY <1>4

\* The last row is kept or not.
LEMMA WithoutAppend ==
    ASSUME NEW A, NEW s \in Seq(A), NEW x \in A, NEW D
    PROVE  Without(Append(s, x), D) =
              IF x \in D THEN Without(s, D) ELSE Append(Without(s, D), x)
<1> DEFINE t == Append(s, x)
           n == Len(s)
<1>1. /\ n \in Nat /\ Len(t) = n + 1 /\ t[n + 1] = x
      /\ \A i \in 1..n : t[i] = s[i]
  OBVIOUS
<1>2. PICK f : Keeps(f, s, D, n) /\ Without(s, D) = f[n]
  BY <1>1, WithoutDef
<1> HIDE DEF t, n
<1>3. PICK g : Keeps(g, t, D, n + 1) /\ Without(t, D) = g[n + 1]
  <2>1. PICK g : Keeps(g, t, D, Len(t)) /\ Without(t, D) = g[Len(t)]
    BY <1>1, WithoutDef
  <2>2. QED
    BY <1>1, <2>1
<1> DEFINE S == {i \in Nat : i <= n => f[i] = g[i]}
<1>4. 0 \in S
  BY <1>1, <1>2, <1>3 DEF Keeps
<1>5. ASSUME NEW i \in S PROVE i + 1 \in S
  <2> SUFFICES ASSUME i + 1 <= n PROVE f[i + 1] = g[i + 1]
    OBVIOUS
  <2>1. i + 1 \in 0..n /\ i + 1 \in 0..(n + 1) /\ i + 1 # 0 /\ (i + 1) - 1 = i /\ i + 1 \in 1..n
    BY <1>1
  <2>2. f[i] = g[i] /\ t[i + 1] = s[i + 1]
    BY <1>1, <2>1
  <2>3. f[i + 1] = IF s[i + 1] \in D THEN f[i] ELSE Append(f[i], s[i + 1])
    BY <1>2, <2>1 DEF Keeps
  <2>4. g[i + 1] = IF t[i + 1] \in D THEN g[i] ELSE Append(g[i], t[i + 1])
    BY <1>3, <2>1 DEF Keeps
  <2>5. QED
    BY <2>2, <2>3, <2>4
<1>6. S = Nat
  <2> HIDE DEF S
  <2>1. S \in SUBSET Nat
    BY DEF S
  <2>2. QED
    BY <1>4, <1>5, <2>1, SetInduction
<1>7. f[n] = g[n]
  <2>1. n \in S
    BY <1>1, <1>6
  <2>2. QED
    BY <1>1, <2>1
<1>8. g[n + 1] = IF t[n + 1] \in D THEN g[n] ELSE Append(g[n], t[n + 1])
  <2>1. n + 1 \in 0..(n + 1) /\ n + 1 # 0 /\ (n + 1) - 1 = n
    BY <1>1
  <2>2. QED
    BY <1>3, <2>1 DEF Keeps
<1>9. QED
  BY <1>1, <1>2, <1>3, <1>7, <1>8 DEF t

LEMMA WithoutEmpty == ASSUME NEW D PROVE Without(<< >>, D) = << >>
<1>1. Len(<< >>) = 0
  OBVIOUS
<1>2. PICK f : Keeps(f, << >>, D, 0) /\ Without(<< >>, D) = f[0]
  BY <1>1, WithoutDef
<1>3. QED
  BY <1>2 DEF Keeps

LEMMA WithoutIsList ==
    ASSUME NEW A, NEW s \in Seq(A), NEW D
    PROVE  Without(s, D) \in Seq(A)
  BY WithoutPicks

\* Two deletions are one.
LEMMA WithoutTwice ==
    ASSUME NEW A, NEW s \in Seq(A), NEW D, NEW E
    PROVE  Without(Without(s, D), E) = Without(s, D \cup E)
<1> DEFINE S == {r \in Seq(A) : Without(Without(r, D), E) = Without(r, D \cup E)}
<1>1. << >> \in S
  BY WithoutEmpty
<1>2. ASSUME NEW r \in S, NEW x \in A PROVE Append(r, x) \in S
  <2>1. /\ Append(r, x) \in Seq(A) /\ Without(r, D) \in Seq(A)
        /\ Without(Without(r, D), E) = Without(r, D \cup E)
    BY WithoutIsList
  <2>2. Without(Append(r, x), D \cup E) =
           IF x \in D \cup E THEN Without(r, D \cup E) ELSE Append(Without(r, D \cup E), x)
    BY WithoutAppend
  <2>3. Without(Append(r, x), D) = IF x \in D THEN Without(r, D) ELSE Append(Without(r, D), x)
    BY WithoutAppend
  <2>4. Without(Append(Without(r, D), x), E) =
           IF x \in E THEN Without(Without(r, D), E) ELSE Append(Without(Without(r, D), E), x)
    <3>1. PICK q : q = Without(r, D)
      OBVIOUS
    <3>2. q \in Seq(A)
      BY <2>1, <3>1
    <3>3. Without(Append(q, x), E) = IF x \in E THEN Without(q, E) ELSE Append(Without(q, E), x)
      BY <3>2, WithoutAppend
    <3>4. QED
      BY <3>1, <3>3
  <2>5. Without(Without(Append(r, x), D), E) = Without(Append(r, x), D \cup E)
    <3>1. CASE x \in D
      BY <2>1, <2>2, <2>3, <3>1
    <3>2. CASE x \notin D
      BY <2>1, <2>2, <2>3, <2>4, <3>2
    <3>3. QED
      BY <3>1, <3>2
  <2>6. QED
    BY <2>1, <2>5
<1> HIDE DEF S
<1>3. S = Seq(A)
  <2>1. S \in SUBSET Seq(A)
    BY DEF S
  <2>2. QED
    BY <1>1, <1>2, <2>1, ListInduction
<1>4. QED
  BY <1>3 DEF S

\* A list without rows it has none of is the list.
LEMMA WithoutNone ==
    ASSUME NEW A, NEW s \in Seq(A), NEW D, Range(s) \cap D = {}
    PROVE  Without(s, D) = s
<1> DEFINE S == {r \in Seq(A) : Range(r) \cap D = {} => Without(r, D) = r}
<1>1. << >> \in S
  BY WithoutEmpty
<1>2. ASSUME NEW r \in S, NEW x \in A PROVE Append(r, x) \in S
  <2>1. Append(r, x) \in Seq(A)
    OBVIOUS
  <2>2. ASSUME Range(Append(r, x)) \cap D = {} PROVE Without(Append(r, x), D) = Append(r, x)
    <3>1. /\ DOMAIN Append(r, x) = 1..(Len(r) + 1) /\ DOMAIN r = 1..Len(r) /\ Len(r) \in Nat
          /\ Append(r, x)[Len(r) + 1] = x
          /\ \A i \in 1..Len(r) : Append(r, x)[i] = r[i]
      OBVIOUS
    <3>2. x \in Range(Append(r, x)) /\ Range(r) \subseteq Range(Append(r, x))
      BY <3>1 DEF Range
    <3>3. x \notin D /\ Without(r, D) = r
      BY <2>2, <3>2
    <3>4. QED
      BY <3>3, WithoutAppend
  <2>3. QED
    BY <2>1, <2>2
<1> HIDE DEF S
<1>3. S = Seq(A)
  <2>1. S \in SUBSET Seq(A)
    BY DEF S
  <2>2. QED
    BY <1>1, <1>2, <2>1, ListInduction
<1>4. QED
  BY <1>3 DEF S

\* A list without all its rows is empty.
LEMMA WithoutAll ==
    ASSUME NEW A, NEW s \in Seq(A), NEW D, Range(s) \subseteq D
    PROVE  Without(s, D) = << >>
<1>1. Without(s, D) \in Seq(A) /\ Range(Without(s, D)) = {}
  BY WithoutIsList, WithoutRange
<1>2. ASSUME NEW t \in Seq(A), Range(t) = {} PROVE t = << >>
  <2>1. DOMAIN t = 1..Len(t) /\ Len(t) \in Nat
    OBVIOUS
  <2>2. 1 \notin DOMAIN t
    BY <1>2 DEF Range
  <2>3. Len(t) = 0
    BY <2>1, <2>2
  <2>4. QED
    BY <2>3, EmptySeq
<1>3. QED
  BY <1>1, <1>2

LEMMA WithoutConcat ==
    ASSUME NEW A, NEW s \in Seq(A), NEW t \in Seq(A), NEW D
    PROVE  Without(s \o t, D) = Without(s, D) \o Without(t, D)
<1> DEFINE S == {r \in Seq(A) : Without(s \o r, D) = Without(s, D) \o Without(r, D)}
<1>1. << >> \in S
  BY WithoutEmpty, WithoutIsList, ConcatEmptySeq
<1>2. ASSUME NEW r \in S, NEW x \in A PROVE Append(r, x) \in S
  <2>1. /\ Append(r, x) \in Seq(A) /\ Without(r, D) \in Seq(A) /\ Without(s, D) \in Seq(A)
        /\ s \o r \in Seq(A) /\ Without(s \o r, D) = Without(s, D) \o Without(r, D)
    BY WithoutIsList
  <2>2. \A u \in Seq(A), v \in Seq(A) : u \o Append(v, x) = Append(u \o v, x)
    OBVIOUS
  <2>3. s \o Append(r, x) = Append(s \o r, x)
        /\ Without(s, D) \o Append(Without(r, D), x) = Append(Without(s, D) \o Without(r, D), x)
    BY <2>1, <2>2
  <2>4. Without(Append(s \o r, x), D) =
           IF x \in D THEN Without(s \o r, D) ELSE Append(Without(s \o r, D), x)
    <3>1. PICK q : q = s \o r
      OBVIOUS
    <3>2. q \in Seq(A)
      BY <2>1, <3>1
    <3>3. Without(Append(q, x), D) = IF x \in D THEN Without(q, D) ELSE Append(Without(q, D), x)
      BY <3>2, WithoutAppend
    <3>4. QED
      BY <3>1, <3>3
  <2>5. Without(Append(r, x), D) = IF x \in D THEN Without(r, D) ELSE Append(Without(r, D), x)
    BY WithoutAppend
  <2>6. QED
    BY <2>1, <2>3, <2>4, <2>5
<1> HIDE DEF S
<1>3. S = Seq(A)
  <2>1. S \in SUBSET Seq(A)
    BY DEF S
  <2>2. QED
    BY <1>1, <1>2, <2>1, ListInduction
<1>4. QED
  BY <1>3 DEF S
=============================================================================
