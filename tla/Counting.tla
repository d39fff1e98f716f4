------------------------------ MODULE Counting ------------------------------
(***************************************************************************)
(* Facts about sets of numbers that the proofs of several components need: *)
(* induction in the form the provers can use (on a set, not a predicate),  *)
(* and ranks, as GTag::ToReln gives a message number its position; of      *)
(* lists to which a message is added, or from which one is removed; and of *)
(* functions that follow a loop, or a recursion.                           *)
(***************************************************************************)
EXTENDS Listing, SequencesExt, FiniteSetTheorems, SequenceTheorems, TLAPS

\* A set of numbers has a least one.
LEMMA LeastNumber ==
    ASSUME NEW T, T \subseteq Nat, T # {}
    PROVE  \E x \in T : \A y \in T : x <= y
  <1> DEFINE R == OpToRel(<, Nat)
  <1>1. IsWellFoundedOn(R, Nat)
    BY NatLessThanWellFounded
  <1>2. \A x, y \in Nat : x < y => <<x, y>> \in R
    BY DEF OpToRel
  <1> HIDE DEF R
  <1>3. PICK x \in T : \A y \in T : ~ (<<y, x>> \in R)
    BY <1>1, WFMin
  <1>4. ASSUME NEW y \in T PROVE x <= y
    <2>1. x \in Nat /\ y \in Nat
      OBVIOUS
    <2>2. ~ (y < x)
      BY <1>2, <1>3, <2>1
    <2> QED BY <2>1, <2>2
  <1> QED BY <1>4

\* A finite set of numbers has a greatest one.
LEMMA GreatestNumber ==
    ASSUME NEW T, T # {}, NEW n \in Nat, T \subseteq 0..n
    PROVE  \E x \in T : \A y \in T : y <= x
  <1> DEFINE U == {m \in Nat : \A y \in T : y <= m}
  <1>1. n \in U
    OBVIOUS
  <1>2. PICK x \in U : \A y \in U : x <= y
    <2>1. U # {} /\ U \subseteq Nat
      BY <1>1
    <2> HIDE DEF U
    <2> QED BY <2>1, LeastNumber
  <1>3. CASE x \in T
    BY <1>3
  <1>4. CASE x \notin T
    <2>1. \A y \in T : y <= x - 1
      <3>1. x \in Nat /\ \A y \in T : y <= x /\ y # x /\ y \in Nat
        BY <1>4
      <3> QED BY <3>1
    <2>2. x - 1 \in Nat
      <3>1. PICK y \in T : TRUE
        OBVIOUS
      <3>2. y \in Nat /\ y <= x - 1 /\ x \in Nat
        BY <2>1
      <3> QED BY <3>2
    <2>3. x - 1 \in U
      BY <2>1, <2>2
    <2>4. x <= x - 1 /\ x \in Nat
      BY <1>2, <2>3
    <2> QED BY <2>4
  <1> QED BY <1>3, <1>4

\* Induction: a set that has 0, and with each number the next one, has all.
LEMMA Induction ==
    ASSUME NEW S, 0 \in S, \A n \in Nat : n \in S => n + 1 \in S
    PROVE  Nat \subseteq S
  <1> SUFFICES ASSUME ~ (Nat \subseteq S) PROVE FALSE
    OBVIOUS
  <1>1. PICK x \in Nat \ S : \A y \in Nat \ S : x <= y
    <2>1. Nat \ S # {} /\ Nat \ S \subseteq Nat
      OBVIOUS
    <2> QED BY <2>1, LeastNumber
  <1>2. x # 0
    OBVIOUS
  <1>3. x - 1 \in Nat \ S
    BY <1>1, <1>2
  <1> QED BY <1>1, <1>3

\* A finite set of numbers has an upper bound.
LEMMA FiniteBounded ==
    ASSUME NEW S, IsFiniteSet(S), S \subseteq Nat \ {0}
    PROVE  \E n \in Nat : S \subseteq 1..n
  <1>1. PICK c \in Nat : c = Cardinality(S)
    BY FS_CardinalityType
  <1>2. PICK f : f \in [1..c -> S] /\ \A m \in S : \E i \in 1..c : f[i] = m
    <2>1. ExistsBijection(1..c, S)
      BY <1>1, FS_CardinalityType
    <2> QED BY <2>1 DEF ExistsBijection, Bijection, Surjection
  <1>3. \A m \in S : m \in Nat /\ m >= 1
    OBVIOUS
  <1> DEFINE R == {i \in Nat : i <= c => \E n \in Nat : \A j \in 1..i : f[j] <= n}
  <1>4. 0 \in R
    OBVIOUS
  <1>5. ASSUME NEW i \in Nat, i \in R PROVE i + 1 \in R
    <2> SUFFICES ASSUME i + 1 <= c PROVE \E n \in Nat : \A j \in 1..(i + 1) : f[j] <= n
      OBVIOUS
    <2>1. PICK n \in Nat : \A j \in 1..i : f[j] <= n
      BY <1>5
    <2>2. PICK a \in Nat : a = f[i + 1]
      <3>1. i + 1 \in 1..c
        OBVIOUS
      <3> QED BY <1>2, <1>3, <3>1
    <2>3. n + a \in Nat /\ n <= n + a /\ a <= n + a
      OBVIOUS
    <2>4a. 1..(i + 1) \subseteq 1..c
      OBVIOUS
    <2>4. ASSUME NEW j \in 1..(i + 1) PROVE f[j] <= n + a
      <3>1. f[j] \in Nat
        <4>1. j \in 1..c
          BY <2>4a
        <4> QED BY <1>2, <1>3, <4>1
      <3>2. CASE j = i + 1
        BY <2>2, <2>3, <3>2
      <3>3. CASE j # i + 1
        <4>1. f[j] <= n
          BY <2>1, <3>3
        <4> QED BY <3>1, <4>1
      <3> QED BY <3>2, <3>3
    <2> QED BY <2>3, <2>4
  <1>6. c \in R
    <2> HIDE DEF R
    <2> QED BY <1>4, <1>5, Induction
  <1>7. PICK n \in Nat : \A j \in 1..c : f[j] <= n
    BY <1>6
  <1>8. \A m \in S : m <= n
    BY <1>2, <1>7
  <1>9. S \subseteq 1..n
    BY <1>3, <1>8
  <1> QED BY <1>9

-----------------------------------------------------------------------------
\* How many of a set of numbers are not above a number.
Rank(S, m) == Cardinality({k \in S : k <= m})

LEMMA RankType ==
    ASSUME NEW S, IsFiniteSet(S), NEW m
    PROVE  /\ IsFiniteSet({k \in S : k <= m})
           /\ Rank(S, m) \in 0..Cardinality(S)
           /\ Cardinality(S) \in Nat
  <1>1. {k \in S : k <= m} \in SUBSET S
    OBVIOUS
  <1>2. IsFiniteSet({k \in S : k <= m}) /\ Rank(S, m) <= Cardinality(S)
    BY <1>1, FS_Subset DEF Rank
  <1>3. Rank(S, m) \in Nat /\ Cardinality(S) \in Nat
    BY <1>2, FS_CardinalityType DEF Rank
  <1> QED BY <1>2, <1>3

\* Ranks rise with the numbers of the set ...
LEMMA RankRises ==
    ASSUME NEW S, S \subseteq Int, IsFiniteSet(S), NEW m \in Int, NEW n \in Int, m <= n
    PROVE  /\ Rank(S, m) <= Rank(S, n)
           /\ m < n /\ n \in S => Rank(S, m) < Rank(S, n)
  <1> DEFINE A == {k \in S : k <= m}  B == {k \in S : k <= n}
  <1>1. A \subseteq B
    <2>1. ASSUME NEW k \in S, k <= m PROVE k <= n
      <3>1. k \in Int
        OBVIOUS
      <3> QED BY <2>1, <3>1
    <2> QED BY <2>1
  <1>2. IsFiniteSet(B) /\ IsFiniteSet(A) /\ Cardinality(A) \in Nat /\ Cardinality(B) \in Nat
    <2>1. A \in SUBSET S /\ B \in SUBSET S
      OBVIOUS
    <2>2. IsFiniteSet(A) /\ IsFiniteSet(B)
      BY <2>1, FS_Subset
    <2> HIDE DEF A, B
    <2> QED BY <2>2, FS_CardinalityType
  <1>3. Cardinality(A) <= Cardinality(B) /\ (Cardinality(A) = Cardinality(B) => A = B)
    <2> HIDE DEF A, B
    <2> QED BY <1>1, <1>2, FS_Subset
  <1>4. m < n /\ n \in S => A # B
    OBVIOUS
  <1> QED BY <1>2, <1>3, <1>4 DEF Rank

\* ... so that no two share one, and each of a set's has one from 1 on ...
LEMMA RankInjective ==
    ASSUME NEW S, S \subseteq Int, IsFiniteSet(S), NEW m \in S, NEW n \in S
    PROVE  /\ Rank(S, m) \in 1..Cardinality(S)
           /\ Rank(S, m) = Rank(S, n) <=> m = n
           /\ Rank(S, m) < Rank(S, n) <=> m < n
  <1>1. Rank(S, m) \in 0..Cardinality(S) /\ Rank(S, n) \in 0..Cardinality(S)
        /\ Cardinality(S) \in Nat
    BY RankType
  <1>2. Rank(S, m - 1) < Rank(S, m) /\ Rank(S, m - 1) \in Nat
    <2>1. m - 1 \in Int /\ m \in Int /\ m - 1 <= m /\ m - 1 < m
      OBVIOUS
    <2>2. Rank(S, m - 1) < Rank(S, m)
      BY <2>1, RankRises
    <2>3. Rank(S, m - 1) \in 0..Cardinality(S)
      BY RankType
    <2> QED BY <1>1, <2>2, <2>3
  <1>t. m \in Int /\ n \in Int
    OBVIOUS
  <1>3. ASSUME m < n PROVE Rank(S, m) < Rank(S, n)
    <2>1. m <= n
      BY <1>t, <1>3
    <2> QED BY <1>t, <1>3, <2>1, RankRises
  <1>4. ASSUME n < m PROVE Rank(S, n) < Rank(S, m)
    <2>1. n <= m
      BY <1>t, <1>4
    <2> QED BY <1>t, <1>4, <2>1, RankRises
  <1> QED BY <1>1, <1>2, <1>3, <1>4, <1>t

\* ... and every rank is that of one of them.
LEMMA RankTaken ==
    ASSUME NEW n \in Nat, NEW S, S \subseteq 0..n, NEW r \in 1..Cardinality(S)
    PROVE  \E m \in S : Rank(S, m) = r
  <1>1. IsFiniteSet(S) /\ S \subseteq Int
    <2>1. IsFiniteSet(0..n)
      BY FS_Interval
    <2>2. IsFiniteSet(S)
      BY <2>1, FS_Subset
    <2>3. S \subseteq Int
      OBVIOUS
    <2> QED BY <2>2, <2>3
  <1>d. Cardinality(S) \in Nat /\ r \in Nat /\ r <= Cardinality(S) /\ r > 0
    <2>1. Cardinality(S) \in Nat
      BY <1>1, FS_CardinalityType
    <2> QED BY <2>1
  <1>c. \A m \in Int : Rank(S, m) \in Nat
    <2>1. ASSUME NEW m \in Int PROVE Rank(S, m) \in 0..Cardinality(S)
      BY <1>1, RankType
    <2> QED BY <1>d, <2>1
  <1> DEFINE T == {m \in Nat : Rank(S, m) >= r}
  <1>2. n \in T
    <2>1. {k \in S : k <= n} = S
      <3>1. ASSUME NEW k \in S PROVE k <= n
        <4>1. k \in 0..n
          OBVIOUS
        <4> QED BY <4>1
      <3> QED BY <3>1
    <2>2. Rank(S, n) = Cardinality(S)
      BY <2>1 DEF Rank
    <2> QED BY <1>d, <2>2
  <1>3. PICK x \in T : \A y \in T : x <= y
    <2>1. T # {} /\ T \subseteq Nat
      BY <1>2
    <2> HIDE DEF T
    <2> QED BY <2>1, LeastNumber
  <1> DEFINE A == {k \in S : k <= x}  B == {k \in S : k <= x - 1}
  <1>4. Rank(S, x - 1) < r
    <2>1. CASE x = 0
      <3>1. B = {}
        <4>1. ASSUME NEW k \in S PROVE ~ (k <= x - 1)
          <5>1. k \in 0..n
            OBVIOUS
          <5> QED BY <2>1, <5>1
        <4> QED BY <4>1
      <3>2. Rank(S, x - 1) = 0
        BY <3>1, FS_EmptySet DEF Rank
      <3> QED BY <3>2, <1>d
    <2>2. CASE x # 0
      <3>1. x - 1 \in Nat /\ x - 1 \notin T
        BY <1>3, <2>2
      <3>2. Rank(S, x - 1) \in Nat
        BY <1>c, <3>1
      <3> QED BY <1>d, <3>1, <3>2
    <2> QED BY <2>1, <2>2
  <1>5. x \in S
    <2> SUFFICES ASSUME x \notin S PROVE FALSE
      OBVIOUS
    <2>1. A = B
      <3>1. ASSUME NEW k \in S PROVE k <= x <=> k <= x - 1
        <4>1. k \in Nat /\ x \in Nat /\ k # x
          OBVIOUS
        <4> QED BY <4>1
      <3> QED BY <3>1
    <2>2. Rank(S, x) = Rank(S, x - 1)
      BY <2>1 DEF Rank
    <2>3. Rank(S, x) >= r /\ Rank(S, x) \in Nat
      BY <1>3, <1>c
    <2> QED BY <1>4, <1>d, <2>2, <2>3
  <1>6. Rank(S, x) <= Rank(S, x - 1) + 1
    <2>1. A = B \cup {x}
      <3>1. ASSUME NEW k \in S PROVE k <= x <=> k <= x - 1 \/ k = x
        <4>1. k \in Nat /\ x \in Nat
          OBVIOUS
        <4> QED BY <4>1
      <3> QED BY <1>5, <3>1
    <2>2. IsFiniteSet(B)
      BY <1>1, RankType
    <2>3. Cardinality(B \cup {x}) = IF x \in B THEN Cardinality(B) ELSE Cardinality(B) + 1
      BY <2>2, FS_AddElement
    <2>4. x \notin B
      OBVIOUS
    <2>5. Rank(S, x) = Rank(S, x - 1) + 1
      BY <2>1, <2>3, <2>4 DEF Rank
    <2>6. Rank(S, x) \in Nat /\ Rank(S, x - 1) \in Nat
      BY <1>3, <1>c
    <2> QED BY <2>5, <2>6
  <1>7. Rank(S, x) = r
    <2>1. Rank(S, x) >= r /\ Rank(S, x) \in Nat /\ Rank(S, x - 1) \in Nat
      BY <1>3, <1>c
    <2> QED BY <1>4, <1>6, <1>d, <2>1
  <1> QED BY <1>5, <1>7
-----------------------------------------------------------------------------
(***************************************************************************)
(* Lists of numbers, as raw_scan makes them and Area::DeleteMsg shortens   *)
(* them: sequences that rise.                                              *)
(***************************************************************************)
Rises(seq, R) ==
    /\ seq \in Seq(Nat) /\ Range(seq) = R
    /\ \A i, j \in 1..Len(seq) : i < j => seq[i] < seq[j]

\* The k-th of a set of places.
LEMMA NthFacts ==
    ASSUME NEW n \in Nat, NEW S, S \subseteq 1..n
    PROVE  /\ IsFiniteSet(S) /\ Cardinality(S) \in Nat
           /\ \A k \in 1..Cardinality(S) : Nth(S, k) \in S /\ Rank(S, Nth(S, k)) = k
           /\ \A i \in S : Rank(S, i) \in 1..Cardinality(S) /\ Nth(S, Rank(S, i)) = i
           /\ \A k, l \in 1..Cardinality(S) : k < l => Nth(S, k) < Nth(S, l)
  <1>1. IsFiniteSet(S) /\ Cardinality(S) \in Nat /\ S \subseteq Int /\ S \subseteq 0..n
    <2>1. IsFiniteSet(1..n)
      BY FS_Interval
    <2>2. IsFiniteSet(S)
      BY <2>1, FS_Subset
    <2> QED BY <2>2, FS_CardinalityType
  <1>2. ASSUME NEW k \in 1..Cardinality(S) PROVE Nth(S, k) \in S /\ Rank(S, Nth(S, k)) = k
    <2>1. \E i \in S : Rank(S, i) = k
      BY <1>1, RankTaken
    <2> QED BY <2>1 DEF Nth, Rank
  <1>3. ASSUME NEW i \in S
        PROVE  Rank(S, i) \in 1..Cardinality(S) /\ Nth(S, Rank(S, i)) = i
    <2>1. Rank(S, i) \in 1..Cardinality(S)
      BY <1>1, RankInjective
    <2>2. Nth(S, Rank(S, i)) \in S /\ Rank(S, Nth(S, Rank(S, i))) = Rank(S, i)
      BY <1>2, <2>1
    <2> QED BY <1>1, <2>1, <2>2, RankInjective
  <1>4. ASSUME NEW k \in 1..Cardinality(S), NEW l \in 1..Cardinality(S), k < l
        PROVE  Nth(S, k) < Nth(S, l)
    <2>1. Nth(S, k) \in S /\ Nth(S, l) \in S /\ Rank(S, Nth(S, k)) = k /\ Rank(S, Nth(S, l)) = l
      BY <1>2
    <2>2. Rank(S, Nth(S, k)) < Rank(S, Nth(S, l)) <=> Nth(S, k) < Nth(S, l)
      BY <1>1, <2>1, RankInjective
    <2> QED BY <1>4, <2>1, <2>2
  <1> QED BY <1>1, <1>2, <1>3, <1>4

\* What is chosen from rising numbers rises, and is just that.
LEMMA ChosenRises ==
    ASSUME NEW n \in Nat, NEW S, S \subseteq 1..n, NEW x,
           \A i \in S : x[i] \in Nat,
           \A i, j \in S : i < j => x[i] < x[j]
    PROVE  /\ Rises(Chosen(x, S), {x[i] : i \in S})
           /\ Len(Chosen(x, S)) = Cardinality(S)
  <1> DEFINE c == Cardinality(S)
             v(k) == x[Nth(S, k)]
             seq == [k \in 1..c |-> v(k)]
  <1>1. /\ c \in Nat /\ \A k \in 1..c : Nth(S, k) \in S
        /\ \A i \in S : Rank(S, i) \in 1..c /\ Nth(S, Rank(S, i)) = i
        /\ \A k, l \in 1..c : k < l => Nth(S, k) < Nth(S, l)
    BY NthFacts
  <1>2. Chosen(x, S) = seq
    BY DEF Chosen
  <1>3. \A k \in 1..c : v(k) \in Nat
    BY <1>1
  <1>4. \A k, l \in 1..c : k < l => v(k) < v(l)
    BY <1>1
  <1>5. {v(k) : k \in 1..c} = {x[i] : i \in S}
    <2>1. ASSUME NEW k \in 1..c PROVE v(k) \in {x[i] : i \in S}
      BY <1>1
    <2>2. ASSUME NEW i \in S PROVE x[i] = v(Rank(S, i)) /\ Rank(S, i) \in 1..c
      BY <1>1
    <2> QED BY <2>1, <2>2
  <1> HIDE DEF c, v
  <1>6. seq \in Seq(Nat) /\ Len(seq) = c /\ DOMAIN seq = 1..c /\ \A k \in 1..c : seq[k] = v(k)
    BY <1>1, <1>3
  <1>7. Range(seq) = {v(k) : k \in 1..c}
    BY <1>6 DEF Range
  <1> HIDE DEF seq
  <1>8. Rises(seq, {x[i] : i \in S}) /\ Len(seq) = c
    BY <1>4, <1>5, <1>6, <1>7 DEF Rises
  <1> QED BY <1>2, <1>8 DEF c

\* In a rising list the place of a number is its rank.
LEMMA RisesRank ==
    ASSUME NEW s, NEW R, Rises(s, R), NEW k \in 1..Len(s)
    PROVE  s[k] \in R /\ s[k] \in Nat /\ Rank(R, s[k]) = k
  <1> DEFINE T == {r \in R : r <= s[k]}
             f == [i \in 1..k |-> s[i]]
  <1>1. s \in Seq(Nat) /\ R = Range(s) /\ DOMAIN s = 1..Len(s) /\ Len(s) \in Nat
        /\ \A i \in 1..Len(s) : s[i] \in Nat
    BY DEF Rises
  <1>2. \A i, j \in 1..Len(s) : i < j => s[i] < s[j]
    BY DEF Rises
  <1>3. R = {s[i] : i \in 1..Len(s)}
    BY <1>1 DEF Range
  <1>4. k \in Nat /\ 1..k \subseteq 1..Len(s)
    BY <1>1
  <1>5. ASSUME NEW i \in 1..Len(s) PROVE s[i] <= s[k] <=> i <= k
    <2>1. i \in Int /\ k \in Int /\ s[i] \in Nat /\ s[k] \in Nat
      BY <1>1
    <2>2. (i < k => s[i] < s[k]) /\ (k < i => s[k] < s[i])
      BY <1>2
    <2> QED BY <2>1, <2>2
  <1>6. T = {s[i] : i \in 1..k}
    <2>1. ASSUME NEW i \in 1..k PROVE s[i] \in T
      <3>1. i \in 1..Len(s) /\ i <= k
        BY <1>4
      <3> QED BY <1>3, <1>5, <3>1
    <2>2. ASSUME NEW r \in T PROVE r \in {s[i] : i \in 1..k}
      <3>1. PICK i \in 1..Len(s) : r = s[i]
        BY <1>3
      <3>2. i <= k
        BY <1>5, <3>1
      <3>3. i \in 1..k
        BY <1>1, <1>4, <3>2
      <3> QED BY <3>1, <3>3
    <2> QED BY <2>1, <2>2
  <1>7. f \in Bijection(1..k, T)
    <2>1. \A i, j \in 1..k : s[i] = s[j] => i = j
      <3> SUFFICES ASSUME NEW i \in 1..k, NEW j \in 1..k, s[i] = s[j] PROVE i = j
        OBVIOUS
      <3>1. i \in 1..Len(s) /\ j \in 1..Len(s)
        BY <1>4
      <3>2. s[i] \in Nat /\ (i < j => s[i] < s[j]) /\ (j < i => s[j] < s[i])
        BY <1>1, <1>2, <3>1
      <3> QED BY <3>2
    <2>2. f \in [1..k -> T] /\ \A i \in 1..k : f[i] = s[i]
      <3> HIDE DEF T
      <3> QED BY <1>6
    <2>3. \A r \in T : \E i \in 1..k : f[i] = r
      <3> HIDE DEF T, f
      <3> QED BY <1>6, <2>2
    <2> HIDE DEF T, f
    <2>4. f \in Injection(1..k, T) /\ f \in Surjection(1..k, T)
      BY <2>1, <2>2, <2>3 DEF Injection, IsInjective, Surjection
    <2> QED BY <2>4 DEF Bijection
  <1>8. Cardinality(T) = k
    <2>1. IsFiniteSet(1..k) /\ Cardinality(1..k) = k
      BY <1>4, FS_Interval
    <2>2. ExistsBijection(1..k, T)
      BY <1>7 DEF ExistsBijection
    <2> HIDE DEF T
    <2> QED BY <2>1, <2>2, FS_Bijection
  <1> QED BY <1>1, <1>3, <1>8 DEF Rank

\* So there is one rising list of a set of numbers.
LEMMA RisesOnce ==
    ASSUME NEW R, NEW s, NEW t, Rises(s, R), Rises(t, R)
    PROVE  s = t
  <1>1. /\ s \in Seq(Nat) /\ t \in Seq(Nat) /\ Range(s) = R /\ Range(t) = R
        /\ DOMAIN s = 1..Len(s) /\ DOMAIN t = 1..Len(t) /\ Len(s) \in Nat /\ Len(t) \in Nat
    BY DEF Rises
  <1>2. ASSUME NEW k \in 1..Len(s) PROVE k \in 1..Len(t) /\ s[k] = t[k]
    <2>1. s[k] \in R /\ Rank(R, s[k]) = k
      BY RisesRank
    <2>2. PICK j \in 1..Len(t) : t[j] = s[k]
      BY <1>1, <2>1 DEF Range
    <2>3. Rank(R, t[j]) = j
      BY RisesRank
    <2> QED BY <2>1, <2>2, <2>3
  <1>3. ASSUME NEW k \in 1..Len(t) PROVE k \in 1..Len(s)
    <2>1. t[k] \in R /\ Rank(R, t[k]) = k
      BY RisesRank
    <2>2. PICK j \in 1..Len(s) : s[j] = t[k]
      BY <1>1, <2>1 DEF Range
    <2>3. Rank(R, s[j]) = j
      BY RisesRank
    <2> QED BY <2>1, <2>2, <2>3
  <1>4. Len(s) = Len(t)
    <2>1. Len(s) > 0 => Len(s) <= Len(t)
      <3> SUFFICES ASSUME Len(s) > 0 PROVE Len(s) \in 1..Len(t)
        BY <1>1
      <3>1. Len(s) \in 1..Len(s)
        BY <1>1
      <3> QED BY <1>2, <3>1
    <2>2. Len(t) > 0 => Len(t) <= Len(s)
      <3> SUFFICES ASSUME Len(t) > 0 PROVE Len(t) \in 1..Len(s)
        BY <1>1
      <3>1. Len(t) \in 1..Len(t)
        BY <1>1
      <3> QED BY <1>3, <3>1
    <2>3. Len(s) \in Nat /\ Len(t) \in Nat
      BY <1>1
    <2> QED BY <2>1, <2>2, <2>3
  <1> QED BY <1>1, <1>2, <1>4

\* A list to which a higher number is added, or from which one is taken away.
LEMMA AppendRises ==
    ASSUME NEW s, NEW R, Rises(s, R), NEW n \in Nat, \A m \in R : m < n
    PROVE  Rises(Append(s, n), R \cup {n})
  <1>1. /\ s \in Seq(Nat) /\ R = Range(s) /\ DOMAIN s = 1..Len(s) /\ Len(s) \in Nat
        /\ \A i, j \in 1..Len(s) : i < j => s[i] < s[j]
    BY DEF Rises
  <1> DEFINE t == Append(s, n)
  <1>2. /\ t \in Seq(Nat) /\ Len(t) = Len(s) + 1 /\ DOMAIN t = 1..(Len(s) + 1)
        /\ t[Len(s) + 1] = n /\ \A i \in 1..Len(s) : t[i] = s[i]
    BY <1>1
  <1>3. \A i \in 1..Len(s) : s[i] \in R
    BY <1>1 DEF Range
  <1> HIDE DEF t
  <1>4. Range(t) = R \cup {n}
    <2>1. \A i \in 1..(Len(s) + 1) : i \in 1..Len(s) \/ i = Len(s) + 1
      BY <1>1
    <2>2. ASSUME NEW m \in Range(t) PROVE m \in R \cup {n}
      <3>1. PICK i \in 1..(Len(s) + 1) : m = t[i]
        BY <1>2 DEF Range
      <3> QED BY <1>2, <1>3, <2>1, <3>1
    <2>3. ASSUME NEW m \in R PROVE m \in Range(t)
      <3>1. PICK i \in 1..Len(s) : m = s[i]
        BY <1>1 DEF Range
      <3>2. i \in 1..(Len(s) + 1) /\ t[i] = m
        BY <1>1, <1>2, <3>1
      <3> QED BY <1>2, <3>2 DEF Range
    <2>4. n \in Range(t)
      <3>1. Len(s) + 1 \in DOMAIN t
        BY <1>1, <1>2
      <3> QED BY <1>2, <3>1 DEF Range
    <2> QED BY <2>2, <2>3, <2>4
  <1>5. ASSUME NEW i \in 1..Len(t), NEW j \in 1..Len(t), i < j PROVE t[i] < t[j]
    <2>0. i \in 1..(Len(s) + 1) /\ j \in 1..(Len(s) + 1) /\ Len(s) \in Nat
      BY <1>1, <1>2
    <2>1. i \in 1..Len(s) /\ (j \in 1..Len(s) \/ j = Len(s) + 1)
      BY <1>5, <2>0
    <2> QED BY <1>1, <1>2, <1>3, <1>5, <2>1
  <1> QED BY <1>2, <1>4, <1>5 DEF Rises, t

LEMMA WithoutRises ==
    ASSUME NEW s, NEW R, Rises(s, R), NEW n
    PROVE  Rises(Chosen(s, {i \in DOMAIN s : s[i] # n}), R \ {n})
  <1>1. /\ s \in Seq(Nat) /\ R = Range(s) /\ DOMAIN s = 1..Len(s) /\ Len(s) \in Nat
        /\ \A i, j \in 1..Len(s) : i < j => s[i] < s[j]
    BY DEF Rises
  <1> DEFINE S == {i \in DOMAIN s : s[i] # n}
  <1>2. S \subseteq 1..Len(s) /\ \A i \in S : s[i] \in Nat
    BY <1>1
  <1>3. {s[i] : i \in S} = R \ {n}
    BY <1>1 DEF Range
  <1>4. \A i, j \in S : i < j => s[i] < s[j]
    BY <1>1, <1>2
  <1> HIDE DEF S
  <1>5. Rises(Chosen(s, S), {s[i] : i \in S})
    BY <1>1, <1>2, <1>4, ChosenRises
  <1> QED BY <1>3, <1>5 DEF S

\* A set of numbers in order.
LEMMA InOrderRises ==
    ASSUME NEW n \in Nat, NEW S, S \subseteq 1..n
    PROVE  Rises(InOrder(S), S) /\ Len(InOrder(S)) = Cardinality(S)
  <1> DEFINE x == [m \in S |-> m]
  <1>1. (\A i \in S : x[i] \in Nat) /\ (\A i, j \in S : i < j => x[i] < x[j])
    OBVIOUS
  <1>2. {x[i] : i \in S} = S
    OBVIOUS
  <1> HIDE DEF x
  <1>3. Rises(Chosen(x, S), {x[i] : i \in S}) /\ Len(Chosen(x, S)) = Cardinality(S)
    BY <1>1, ChosenRises
  <1> QED BY <1>2, <1>3 DEF InOrder, x

\* The last of a list is the greatest number in it.
LEMMA RisesLast ==
    ASSUME NEW s, NEW R, Rises(s, R), R # {}
    PROVE  s[Len(s)] \in R /\ s[Len(s)] \in Nat /\ \A m \in R : m <= s[Len(s)]
  <1>1. /\ s \in Seq(Nat) /\ R = Range(s) /\ DOMAIN s = 1..Len(s) /\ Len(s) \in Nat
        /\ \A i, j \in 1..Len(s) : i < j => s[i] < s[j]
    BY DEF Rises
  <1>2. R = {s[i] : i \in 1..Len(s)} /\ \A i \in 1..Len(s) : s[i] \in Nat
    BY <1>1 DEF Range
  <1>3. Len(s) \in 1..Len(s)
    BY <1>1, <1>2
  <1>4. ASSUME NEW m \in R PROVE m <= s[Len(s)]
    <2>1. PICK i \in 1..Len(s) : m = s[i]
      BY <1>2
    <2>2. i < Len(s) \/ i = Len(s)
      <3>1. i \in 1..Len(s) /\ Len(s) \in Nat
        BY <1>1
      <3> QED BY <3>1
    <2>3. s[i] \in Nat /\ s[Len(s)] \in Nat
      BY <1>2, <1>3
    <2>4. i < Len(s) => s[i] < s[Len(s)]
      BY <1>1, <1>3
    <2> QED BY <2>1, <2>2, <2>3, <2>4
  <1> QED BY <1>2, <1>3, <1>4

\* The numbers up to a bound are at the first places of a list.
LEMMA RisesUpTo ==
    ASSUME NEW s, NEW R, Rises(s, R), IsFiniteSet(R), NEW lr \in Nat
    PROVE  /\ Rank(R, lr) \in 0..Len(s)
           /\ \A i \in 1..Rank(R, lr) : i \in 1..Len(s) /\ s[i] <= lr
  <1>1. /\ s \in Seq(Nat) /\ Len(s) \in Nat /\ R \subseteq Int /\ R = Range(s)
        /\ DOMAIN s = 1..Len(s)
    BY DEF Rises, Range
  <1>2. Rank(R, lr) \in Nat
    <2>1. Rank(R, lr) \in 0..Cardinality(R) /\ Cardinality(R) \in Nat
      BY RankType
    <2> QED BY <2>1
  <1>3. ASSUME NEW i \in 1..Len(s) PROVE s[i] \in R /\ s[i] \in Nat /\ Rank(R, s[i]) = i
    BY RisesRank
  <1>4. ASSUME NEW i \in 1..Len(s), lr < s[i] PROVE Rank(R, lr) < i
    <2>1. lr <= s[i] /\ s[i] \in Int /\ lr \in Int
      BY <1>3, <1>4
    <2>2. Rank(R, lr) < Rank(R, s[i])
      BY <1>1, <1>3, <1>4, <2>1, RankRises
    <2> QED BY <1>3, <2>2
  <1>5. Rank(R, lr) <= Len(s)
    <2>1. CASE Len(s) = 0
      <3>1. R = {}
        BY <1>1, <2>1 DEF Range
      <3>2. {k \in R : k <= lr} = {}
        BY <3>1
      <3>3. Rank(R, lr) = 0
        BY <3>2, FS_EmptySet DEF Rank
      <3> QED BY <2>1, <3>3
    <2>2. CASE Len(s) # 0
      <3>1. Len(s) \in 1..Len(s)
        BY <1>1, <2>2
      <3>2. \A m \in R : m <= s[Len(s)]
        <4>1. R # {}
          BY <1>3, <3>1
        <4> QED BY <4>1, RisesLast
      <3>4. Rank(R, s[Len(s)]) = Len(s) /\ s[Len(s)] \in Nat
        BY <1>3, <3>1
      <3>5. {k \in R : k <= lr} \subseteq {k \in R : k <= s[Len(s)]}
        BY <3>2
      <3>6. IsFiniteSet({k \in R : k <= s[Len(s)]})
        BY RankType
      <3>7. Cardinality({k \in R : k <= lr}) <= Cardinality({k \in R : k <= s[Len(s)]})
        BY <3>5, <3>6, FS_Subset
      <3> QED BY <3>4, <3>7 DEF Rank
    <2> QED BY <2>1, <2>2
  <1>6. ASSUME NEW i \in 1..Rank(R, lr) PROVE i \in 1..Len(s) /\ s[i] <= lr
    <2>1. i \in 1..Len(s)
      BY <1>1, <1>2, <1>5
    <2>2. ~ (lr < s[i])
      BY <1>2, <1>4, <2>1
    <2> QED BY <1>3, <2>1, <2>2
  <1> QED BY <1>1, <1>2, <1>5, <1>6

\* A list that begins at a number or above it has its places at least as high.
LEMMA RisesAbove ==
    ASSUME NEW s, NEW R, Rises(s, R), NEW f \in Nat, Len(s) # 0 => f <= s[1]
    PROVE  \A i \in 1..Len(s) : i + f - 1 <= s[i]
  <1>1. /\ s \in Seq(Nat) /\ Len(s) \in Nat /\ (\A i \in 1..Len(s) : s[i] \in Nat)
        /\ \A i, j \in 1..Len(s) : i < j => s[i] < s[j]
    BY DEF Rises
  <1> DEFINE S == {k \in Nat : k + 1 \in 1..Len(s) => k + f <= s[k + 1]}
  <1>2. 0 \in S
    BY <1>1
  <1>3. ASSUME NEW k \in Nat, k \in S PROVE k + 1 \in S
    <2> SUFFICES ASSUME k + 2 \in 1..Len(s) PROVE k + 1 + f <= s[k + 2]
      BY <1>1
    <2>1. k + 1 \in 1..Len(s) /\ k + 1 < k + 2
      BY <1>1
    <2>2. s[k + 1] < s[k + 2] /\ s[k + 1] \in Nat /\ s[k + 2] \in Nat /\ k + f <= s[k + 1]
      BY <1>1, <1>3, <2>1
    <2> QED BY <2>2
  <1> HIDE DEF S
  <1>4. Nat \subseteq S
    BY <1>2, <1>3, Induction
  <1>5. ASSUME NEW i \in 1..Len(s) PROVE i + f - 1 <= s[i]
    <2>1. i - 1 \in S /\ i - 1 + 1 = i
      BY <1>1, <1>4
    <2> QED BY <1>1, <2>1 DEF S
  <1> QED BY <1>5

\* t is s, of length n, without its k-th element.
Shorter(t, s, n, k) ==
    /\ Len(t) = n - 1 /\ DOMAIN t = 1..(n - 1)
    /\ \A i \in 1..(n - 1) : t[i] = IF i < k THEN s[i] ELSE s[i + 1]

LEMMA RemoveAtIs ==
    ASSUME NEW T, NEW s, s \in Seq(T), NEW n \in Nat, Len(s) = n, NEW k \in 1..n
    PROVE  RemoveAt(s, k) \in Seq(T) /\ Shorter(RemoveAt(s, k), s, n, k)
  <1>1. DOMAIN s = 1..n /\ k \in Nat
    OBVIOUS
  <1> DEFINE a == SubSeq(s, 1, k - 1)
             b == SubSeq(s, k + 1, Len(s))
  <1>2. a \in Seq(T) /\ Len(a) = k - 1 /\ \A i \in 1..(k - 1) : a[i] = s[i]
    <2>1. \A i \in 1..(k - 1) : s[i] \in T /\ 1 + i - 1 = i
      BY <1>1
    <2>2. 1 \in Int /\ k - 1 \in Int /\ \A i \in 1..(k - 1) : s[i] \in T
      BY <1>1, <2>1
    <2>3. /\ a \in Seq(T) /\ Len(a) = IF 1 <= k - 1 THEN k - 1 - 1 + 1 ELSE 0
          /\ \A i \in 1..(k - 1 - 1 + 1) : a[i] = s[1 + i - 1]
      BY <2>2, SubSeqProperties
    <2> HIDE DEF a
    <2> QED BY <1>1, <2>1, <2>3
  <1>3. b \in Seq(T) /\ Len(b) = n - k /\ \A i \in 1..(n - k) : b[i] = s[i + k]
    <2>1. \A i \in (k + 1)..n : s[i] \in T
      BY <1>1
    <2>2. k + 1 \in Int /\ n \in Int
      BY <1>1
    <2>3. /\ b \in Seq(T) /\ Len(b) = IF k + 1 <= n THEN n - (k + 1) + 1 ELSE 0
          /\ \A i \in 1..(n - (k + 1) + 1) : b[i] = s[k + 1 + i - 1]
      BY <2>1, <2>2, SubSeqProperties
    <2>4. /\ n - (k + 1) + 1 = n - k
          /\ \A i \in 1..(n - k) : k + 1 + i - 1 = i + k
      BY <1>1
    <2>5. k = n \/ k + 1 <= n
      BY <1>1
    <2> HIDE DEF b
    <2> QED BY <1>1, <2>3, <2>4, <2>5
  <1> HIDE DEF a, b
  <1>4. a \o b \in Seq(T) /\ Len(a \o b) = n - 1
    <2>1. a \o b \in Seq(T) /\ Len(a \o b) = Len(a) + Len(b)
      BY <1>2, <1>3, ConcatProperties
    <2>2. Len(a) + Len(b) = n - 1
      BY <1>1, <1>2, <1>3
    <2> QED BY <2>1, <2>2
  <1>5. \A i \in 1..(n - 1) : (a \o b)[i] = IF i < k THEN s[i] ELSE s[i + 1]
    <2> SUFFICES ASSUME NEW i \in 1..(n - 1)
                 PROVE  (a \o b)[i] = IF i < k THEN s[i] ELSE s[i + 1]
      OBVIOUS
    <2>1. (a \o b)[i] = IF i <= k - 1 THEN a[i] ELSE b[i - (k - 1)]
      <3>1. \A j \in 1..(Len(a) + Len(b)) :
                (a \o b)[j] = IF j <= Len(a) THEN a[j] ELSE b[j - Len(a)]
        BY <1>2, <1>3, ConcatProperties
      <3>2. Len(a) = k - 1 /\ i \in 1..(Len(a) + Len(b))
        BY <1>1, <1>2, <1>3
      <3> QED BY <3>1, <3>2
    <2>2. CASE i < k
      <3>1. i <= k - 1 /\ i \in 1..(k - 1)
        BY <1>1, <2>2
      <3> QED BY <1>2, <2>1, <2>2, <3>1
    <2>3. CASE ~ (i < k)
      <3>1. ~ (i <= k - 1) /\ i - (k - 1) \in 1..(n - k) /\ i - (k - 1) + k = i + 1
        BY <1>1, <2>3
      <3> QED BY <1>3, <2>1, <2>3, <3>1
    <2> QED BY <2>2, <2>3
  <1>6. RemoveAt(s, k) = a \o b
    BY DEF RemoveAt, a, b
  <1>7. DOMAIN (a \o b) = 1..(n - 1)
    BY <1>1, <1>4
  <1> QED BY <1>4, <1>5, <1>6, <1>7 DEF Shorter

LEMMA RemoveAtRises ==
    ASSUME NEW s, NEW R, Rises(s, R), NEW n \in Nat, Len(s) = n, NEW k \in 1..n
    PROVE  Rises(RemoveAt(s, k), R \ {s[k]})
  <1> DEFINE t == RemoveAt(s, k)
             m == n - 1
  <1>1. /\ s \in Seq(Nat) /\ DOMAIN s = 1..n /\ k \in Nat
        /\ \A i, j \in 1..n : i < j => s[i] < s[j]
        /\ R = {s[i] : i \in 1..n} /\ \A i \in 1..n : s[i] \in Nat
    BY DEF Rises, Range
  <1>2. /\ t \in Seq(Nat) /\ Len(t) = m /\ DOMAIN t = 1..m
        /\ \A i \in 1..m : t[i] = IF i < k THEN s[i] ELSE s[i + 1]
    <2>1. t \in Seq(Nat) /\ Shorter(t, s, n, k)
      BY <1>1, RemoveAtIs
    <2> QED BY <2>1 DEF Shorter
  <1> HIDE DEF t
  <1>3. \A i, j \in 1..Len(t) : i < j => t[i] < t[j]
    <2> SUFFICES ASSUME NEW i \in 1..Len(t), NEW j \in 1..Len(t), i < j PROVE t[i] < t[j]
      OBVIOUS
    <2>1. /\ i \in 1..m /\ j \in 1..m /\ i \in 1..n /\ j \in 1..n
          /\ i + 1 \in 1..n /\ j + 1 \in 1..n
      BY <1>1, <1>2
    <2>2. CASE j < k
      BY <1>1, <1>2, <2>1, <2>2
    <2>3. CASE i < k /\ ~ (j < k)
      <3>1. t[i] = s[i] /\ t[j] = s[j + 1] /\ i < j + 1
        BY <1>2, <2>1, <2>3
      <3> QED BY <1>1, <2>1, <3>1
    <2>4. CASE ~ (i < k)
      <3>1. t[i] = s[i + 1] /\ t[j] = s[j + 1] /\ i + 1 < j + 1
        BY <1>1, <1>2, <2>1, <2>4
      <3> QED BY <1>1, <2>1, <3>1
    <2> QED BY <1>1, <2>1, <2>2, <2>3, <2>4
  <1>4. Range(t) = R \ {s[k]}
    <2>1. ASSUME NEW i \in 1..m PROVE t[i] \in R \ {s[k]}
      <3>1. i \in 1..n /\ i + 1 \in 1..n
        BY <1>1
      <3>2. CASE i < k
        <4>1. t[i] = s[i] /\ s[i] < s[k] /\ s[i] \in Nat /\ s[k] \in Nat
          BY <1>1, <1>2, <3>1, <3>2
        <4> QED BY <1>1, <3>1, <4>1
      <3>3. CASE ~ (i < k)
        <4>1. t[i] = s[i + 1] /\ s[k] < s[i + 1] /\ s[i + 1] \in Nat /\ s[k] \in Nat
          BY <1>1, <1>2, <3>1, <3>3
        <4> QED BY <1>1, <3>1, <4>1
      <3> QED BY <3>2, <3>3
    <2>2. ASSUME NEW x \in R \ {s[k]} PROVE \E i \in 1..m : x = t[i]
      <3>1. PICK j \in 1..n : x = s[j] /\ j # k
        BY <1>1
      <3>2. CASE j < k
        BY <1>1, <1>2, <3>1, <3>2
      <3>3. CASE k < j
        <4>1. j - 1 \in 1..m /\ ~ (j - 1 < k) /\ (j - 1) + 1 = j
          BY <1>1, <3>3
        <4> QED BY <1>2, <3>1, <4>1
      <3> QED BY <1>1, <3>1, <3>2, <3>3
    <2>3. Range(t) = {t[i] : i \in 1..m}
      BY <1>2 DEF Range
    <2> QED BY <2>1, <2>2, <2>3
  <1> QED BY <1>2, <1>3, <1>4 DEF Rises, t

-----------------------------------------------------------------------------
\* The list of MsgList, for a list of messages, ...
AsList(ids) == [i \in 1..Len(ids) |-> [msgno |-> ids[i], by |-> "anyone"]]

LEMMA AsListFacts ==
    ASSUME NEW ids, NEW R, Rises(ids, R), NEW n \in Nat, \A m \in R : m <= n
    PROVE  /\ AsList(ids) \in Seq([msgno : Nat, by : {"anyone"}])
           /\ \A i \in DOMAIN AsList(ids) : AsList(ids)[i].msgno <= n
           /\ \A i, j \in DOMAIN AsList(ids) : i < j => AsList(ids)[i].msgno < AsList(ids)[j].msgno
  <1>1. /\ ids \in Seq(Nat) /\ DOMAIN ids = 1..Len(ids) /\ Len(ids) \in Nat
        /\ \A i \in 1..Len(ids) : ids[i] \in Nat /\ ids[i] <= n
        /\ \A i, j \in 1..Len(ids) : i < j => ids[i] < ids[j]
    BY DEF Rises, Range
  <1>2. /\ AsList(ids) \in Seq([msgno : Nat, by : {"anyone"}])
        /\ DOMAIN AsList(ids) = 1..Len(ids)
        /\ \A i \in 1..Len(ids) : AsList(ids)[i].msgno = ids[i]
    BY <1>1 DEF AsList
  <1> QED BY <1>1, <1>2

\* ... to which one is added, ...
LEMMA AsListAppend ==
    ASSUME NEW ids \in Seq(Nat), NEW new \in Nat
    PROVE  AsList(Append(ids, new)) = Append(AsList(ids), [msgno |-> new, by |-> "anyone"])
  <1>1. /\ Len(Append(ids, new)) = Len(ids) + 1 /\ Append(ids, new)[Len(ids) + 1] = new
        /\ \A i \in 1..Len(ids) : Append(ids, new)[i] = ids[i]
    OBVIOUS
  <1> QED BY <1>1 DEF AsList

\* ... or from which one is removed.
LEMMA AsListRemove ==
    ASSUME NEW ids \in Seq(Nat), NEW k \in 1..Len(ids)
    PROVE  AsList(RemoveAt(ids, k)) = RemoveAt(AsList(ids), k)
  <1> DEFINE M == [msgno : Nat, by : {"anyone"}]
  <1>1. Len(ids) \in Nat
    OBVIOUS
  <1>2. /\ AsList(ids) \in Seq(M) /\ Len(AsList(ids)) = Len(ids)
        /\ \A i \in 1..Len(ids) : AsList(ids)[i] = [msgno |-> ids[i], by |-> "anyone"]
    BY <1>1 DEF AsList
  <1>3. /\ RemoveAt(AsList(ids), k) \in Seq(M)
        /\ Shorter(RemoveAt(AsList(ids), k), AsList(ids), Len(ids), k)
    <2> HIDE DEF M
    <2> QED BY <1>1, <1>2, RemoveAtIs
  <1>4. /\ RemoveAt(AsList(ids), k) \in Seq(M)
        /\ Len(RemoveAt(AsList(ids), k)) = Len(ids) - 1
        /\ DOMAIN RemoveAt(AsList(ids), k) = 1..(Len(ids) - 1)
        /\ \A i \in 1..(Len(ids) - 1) : RemoveAt(AsList(ids), k)[i] =
                IF i < k THEN AsList(ids)[i] ELSE AsList(ids)[i + 1]
    BY <1>3 DEF Shorter
  <1>5. /\ Len(RemoveAt(ids, k)) = Len(ids) - 1
        /\ \A i \in 1..(Len(ids) - 1) : RemoveAt(ids, k)[i] = IF i < k THEN ids[i] ELSE ids[i + 1]
    <2>1. Shorter(RemoveAt(ids, k), ids, Len(ids), k)
      BY <1>1, RemoveAtIs
    <2> QED BY <2>1 DEF Shorter
  <1>6. ASSUME NEW i \in 1..(Len(ids) - 1)
        PROVE  RemoveAt(AsList(ids), k)[i] = [msgno |-> RemoveAt(ids, k)[i], by |-> "anyone"]
    <2>1. i \in 1..Len(ids) /\ i + 1 \in 1..Len(ids)
      BY <1>1
    <2> QED BY <1>2, <1>4, <1>5, <2>1
  <1>7. RemoveAt(AsList(ids), k) = [i \in 1..(Len(ids) - 1) |-> RemoveAt(AsList(ids), k)[i]]
    BY <1>4
  <1> QED BY <1>5, <1>6, <1>7 DEF AsList

-----------------------------------------------------------------------------
\* A recursive function that finds its value in a loop is one that exists.

\* A loop: from x, next is taken until `done' holds, and then the value is
\* val.  There is a function that is what the loop finds, whether or not the
\* loop ends from everywhere.
Loops(f, S, done, next, val) ==
    f = [x \in S |-> IF x \in done THEN val[x] ELSE f[next[x]]]

LEMMA LoopExists ==
    ASSUME NEW S, NEW V, NEW done, NEW next \in [S -> S], NEW val \in [S -> V]
    PROVE  \E f : Loops(f, S, done, next, val)
  <1> DEFINE Closed(R) == /\ R \in [S -> SUBSET V]
                          /\ \A x \in S : IF x \in done THEN val[x] \in R[x]
                                          ELSE R[next[x]] \subseteq R[x]
             L == [x \in S |-> {v \in V : \A R \in [S -> SUBSET V] : Closed(R) => v \in R[x]}]
             f == [x \in S |-> CHOOSE v : v \in L[x]]
  <1>1. L \in [S -> SUBSET V]
    OBVIOUS
  <1>2. \A x \in S : \A v \in V : v \in L[x] <=> \A R \in [S -> SUBSET V] : Closed(R) => v \in R[x]
    OBVIOUS
  <1>3. \A R \in [S -> SUBSET V] : Closed(R) => \A x \in S : L[x] \subseteq R[x]
    BY <1>1, <1>2
  <1> HIDE DEF L
  <1>4. Closed(L)
    <2>1. ASSUME NEW x \in S, x \in done PROVE val[x] \in L[x]
      BY <1>2, <2>1
    <2>2. ASSUME NEW x \in S, x \notin done PROVE L[next[x]] \subseteq L[x]
      <3>1. next[x] \in S
        OBVIOUS
      <3>2. ASSUME NEW v \in L[next[x]] PROVE v \in L[x]
        <4>1. v \in V
          BY <1>1, <3>1
        <4>2. ASSUME NEW R \in [S -> SUBSET V], Closed(R) PROVE v \in R[x]
          <5>1. v \in R[next[x]]
            BY <1>2, <3>1, <4>1, <4>2
          <5> QED BY <2>2, <4>2, <5>1
        <4> QED BY <1>2, <4>1, <4>2
      <3> QED BY <3>2
    <2> QED BY <1>1, <2>1, <2>2
  <1>5. ASSUME NEW x \in S, x \in done PROVE L[x] = {val[x]}
    <2> DEFINE R == [L EXCEPT ![x] = {val[x]}]
    <2>1. R \in [S -> SUBSET V] /\ R[x] = {val[x]} /\ \A y \in S : y # x => R[y] = L[y]
      BY <1>1
    <2> HIDE DEF R
    <2>2. ASSUME NEW y \in S PROVE IF y \in done THEN val[y] \in R[y] ELSE R[next[y]] \subseteq R[y]
      <3>1. next[y] \in S /\ val[x] \in L[x]
        BY <1>4, <1>5
      <3>2. R[next[y]] \subseteq L[next[y]]
        BY <2>1, <3>1
      <3> QED BY <1>4, <1>5, <2>1, <3>1, <3>2
    <2>3. Closed(R)
      BY <2>1, <2>2
    <2>4. L[x] \subseteq {val[x]}
      BY <1>3, <2>1, <2>3
    <2> QED BY <1>4, <1>5, <2>4
  <1>6. ASSUME NEW x \in S, x \notin done PROVE L[x] = L[next[x]]
    <2> DEFINE R == [L EXCEPT ![x] = L[next[x]]]
    <2>0. next[x] \in S
      OBVIOUS
    <2>1. R \in [S -> SUBSET V] /\ R[x] = L[next[x]] /\ \A y \in S : y # x => R[y] = L[y]
      BY <1>1, <2>0
    <2> HIDE DEF R
    <2>2. ASSUME NEW y \in S PROVE IF y \in done THEN val[y] \in R[y] ELSE R[next[y]] \subseteq R[y]
      <3>1. next[y] \in S /\ L[next[x]] \subseteq L[x]
        BY <1>4, <1>6
      <3>2. R[next[y]] \subseteq L[next[y]]
        BY <2>1, <3>1
      <3>3. CASE y = x
        BY <1>6, <2>1, <3>2, <3>3
      <3>4. CASE y # x
        BY <1>4, <2>1, <3>2, <3>4
      <3> QED BY <3>3, <3>4
    <2>3. Closed(R)
      BY <2>1, <2>2
    <2>4. L[x] \subseteq L[next[x]]
      BY <1>3, <2>1, <2>3
    <2> QED BY <1>4, <1>6, <2>4
  <1>7. ASSUME NEW x \in S PROVE f[x] = IF x \in done THEN val[x] ELSE f[next[x]]
    <2>1. CASE x \in done
      <3>1. f[x] = CHOOSE v : v \in {val[x]}
        BY <1>5, <2>1
      <3> QED BY <2>1, <3>1
    <2>2. CASE x \notin done
      <3>1. next[x] \in S
        OBVIOUS
      <3> QED BY <1>6, <2>2, <3>1
    <2> QED BY <2>1, <2>2
  <1>8. f = [x \in S |-> f[x]]
    OBVIOUS
  <1> HIDE DEF f
  <1>9. Loops(f, S, done, next, val)
    BY <1>7, <1>8 DEF Loops
  <1> QED BY <1>9

\* A function that follows a recursion on ranks, which looks at what has a lower
\* rank alone, exists.
Recursive(f, S, step) == \A x \in S : f[x] = step[<<x, f>>]
LooksBelow(step, r, S, V) ==
    \A x \in S : \A f, g \in [S -> V] :
        (\A y \in S : r[y] < r[x] => f[y] = g[y]) => step[<<x, f>>] = step[<<x, g>>]

LEMMA RecursionExists ==
    ASSUME NEW S, NEW V, NEW v \in V, NEW k \in Nat, NEW r \in [S -> 0..k],
           NEW step \in [S \X [S -> V] -> V],
           LooksBelow(step, r, S, V)
    PROVE  \E f \in [S -> V] : Recursive(f, S, step)
  <1> DEFINE Upto(f, n) == \A x \in S : r[x] < n => f[x] = step[<<x, f>>]
             R == {n \in Nat : \E f \in [S -> V] : Upto(f, n)}
  <1>1. 0 \in R
    <2>1. [x \in S |-> v] \in [S -> V]
      OBVIOUS
    <2>2. \A x \in S : ~(r[x] < 0)
      OBVIOUS
    <2> QED BY <2>1, <2>2
  <1>2. ASSUME NEW n \in Nat, n \in R PROVE n + 1 \in R
    <2>1. PICK f \in [S -> V] : Upto(f, n)
      BY <1>2
    <2> DEFINE g == [x \in S |-> IF r[x] < n THEN f[x] ELSE step[<<x, f>>]]
    <2>2. g \in [S -> V] /\ \A x \in S : g[x] = IF r[x] < n THEN f[x] ELSE step[<<x, f>>]
      OBVIOUS
    <2> HIDE DEF g
    <2>3. ASSUME NEW x \in S, r[x] < n + 1 PROVE g[x] = step[<<x, g>>]
      <3>1. r[x] \in Nat /\ r[x] <= n /\ \A y \in S : r[y] \in Nat
        BY <2>3
      <3>2. ASSUME NEW y \in S, r[y] < r[x] PROVE g[y] = f[y]
        <4>1. PICK a \in Nat, b \in Nat : a = r[y] /\ b = r[x]
          BY <3>1
        <4>2. r[y] < n
          BY <3>1, <3>2, <4>1
        <4> QED BY <2>2, <4>2
      <3>3. \A p, q \in [S -> V] : (\A y \in S : r[y] < r[x] => p[y] = q[y])
                                       => step[<<x, p>>] = step[<<x, q>>]
        BY DEF LooksBelow
      <3>4. (\A y \in S : r[y] < r[x] => g[y] = f[y]) => step[<<x, g>>] = step[<<x, f>>]
        BY <2>1, <2>2, <3>3
      <3>5. step[<<x, g>>] = step[<<x, f>>]
        BY <3>2, <3>4
      <3>6. r[x] < n => f[x] = step[<<x, f>>]
        BY <2>1
      <3> QED BY <2>2, <3>5, <3>6
    <2>4. Upto(g, n + 1)
      BY <2>3
    <2> QED BY <2>2, <2>4
  <1>3. k + 1 \in R
    <2>1. k + 1 \in Nat
      OBVIOUS
    <2> HIDE DEF R
    <2> QED BY <1>1, <1>2, <2>1, Induction
  <1>4. PICK f \in [S -> V] : Upto(f, k + 1)
    BY <1>3
  <1>5. \A x \in S : r[x] < k + 1
    OBVIOUS
  <1> QED BY <1>4, <1>5 DEF Recursive
=============================================================================
