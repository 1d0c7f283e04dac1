------------------------------ MODULE Counting ------------------------------
(***************************************************************************)
(* Facts about sets of numbers that the proofs of the two list algorithms  *)
(* rest on: wifi_manager_filter_unique() (src/main/wifi_manager.c) and     *)
(* json_print_string() (src/main/json.c).  Induction is over a set, from   *)
(* the well-foundedness of <, so that no operator has to be instantiated.  *)
(***************************************************************************)
EXTENDS Naturals, FiniteSetsExt, WellFoundedInduction, FiniteSetTheorems, TLAPS

Less == {p \in Nat \X Nat : p[1] < p[2]}

LEMMA LessWellFounded == IsWellFoundedOn(Less, Nat)
  BY NatLessThanWellFounded DEF OpToRel, Less

\* A set of natural numbers that is not empty has a least element.
LEMMA LeastElement ==
  ASSUME NEW T \in SUBSET Nat, T # {}
  PROVE  \E x \in T : \A y \in T : x <= y
<1>1. PICK x \in T : \A y \in T : ~ (<<y, x>> \in Less)
  BY LessWellFounded, WFMin
<1>2. ASSUME NEW y \in T PROVE x <= y
  <2>1. x \in Nat /\ y \in Nat
    OBVIOUS
  <2>2. ~ (<<y, x>> \in Less)
    BY <1>1
  <2> QED
    BY <2>1, <2>2 DEF Less
<1> QED
  BY <1>2

\* Induction over the natural numbers, for a set instead of a predicate.
LEMMA SetInduction ==
  ASSUME NEW P \in SUBSET Nat, 0 \in P, \A n \in P : n + 1 \in P
  PROVE  Nat \subseteq P
<1> SUFFICES ASSUME ~(Nat \subseteq P) PROVE FALSE
  OBVIOUS
<1>1. PICK x \in Nat \ P : \A y \in Nat \ P : x <= y
  BY LeastElement
<1>2. x # 0 /\ x - 1 \in Nat
  BY <1>1
<1>3. x - 1 \in P
  BY <1>1, <1>2
<1>4. (x - 1) + 1 = x
  BY <1>1
<1> QED
  BY <1>1, <1>3, <1>4

\* A finite set of natural numbers that is not empty has a greatest element.
LEMMA GreatestElement ==
  ASSUME NEW S \in SUBSET Nat, IsFiniteSet(S), S # {}
  PROVE  \E x \in S : \A y \in S : x >= y
<1> DEFINE HasMax == {U \in SUBSET S : U # {} => \E x \in U : \A y \in U : x >= y}
           P == {n \in Nat : \A U \in SUBSET S : Cardinality(U) = n => U \in HasMax}
<1>1. \A U \in SUBSET S : IsFiniteSet(U) /\ Cardinality(U) \in Nat
  BY FS_Subset, FS_CardinalityType
<1>2. 0 \in P
  BY <1>1, FS_EmptySet
<1>3. ASSUME NEW n \in P PROVE n + 1 \in P
  <2> SUFFICES ASSUME NEW U \in SUBSET S, Cardinality(U) = n + 1 PROVE U \in HasMax
    OBVIOUS
  <2> SUFFICES ASSUME NEW z \in U PROVE \E x \in U : \A y \in U : x >= y
    OBVIOUS
  <2>1. Cardinality(U \ {z}) = n
    <3>1. Cardinality(U \ {z}) = Cardinality(U) - 1
      BY <1>1, FS_RemoveElement
    <3> QED
      BY <3>1
  <2>2. CASE U \ {z} = {}
    BY <2>2
  <2>3. CASE U \ {z} # {}
    <3>1. PICK x \in U \ {z} : \A y \in U \ {z} : x >= y
      BY <2>1, <2>3
    <3>2. x \in Nat /\ z \in Nat
      OBVIOUS
    <3>3. CASE x >= z
      BY <3>1, <3>2, <3>3
    <3>4. CASE ~(x >= z)
      <4>1. \A y \in U \ {z} : z >= y
        BY <3>1, <3>2, <3>4
      <4> QED
        BY <3>2, <4>1
    <3> QED
      BY <3>3, <3>4
  <2> QED
    BY <2>2, <2>3
<1>4. Nat \subseteq P
  <2> HIDE DEF P
  <2>1. P \in SUBSET Nat
    BY DEF P
  <2> QED
    BY <1>2, <1>3, <2>1, SetInduction
<1>5. \A U \in SUBSET S : U \in HasMax
  BY <1>1, <1>4
<1> QED
  BY <1>5

\* What Max() of the community modules returns.
LEMMA MaxIsGreatest ==
  ASSUME NEW S \in SUBSET Nat, IsFiniteSet(S), S # {}
  PROVE  Max(S) \in S /\ \A y \in S : Max(S) >= y
  BY GreatestElement DEF Max

\* What lies in 1..n is finite.
LEMMA FiniteInInterval ==
  ASSUME NEW n \in Nat, NEW T \in SUBSET (1..n)
  PROVE  IsFiniteSet(T) /\ Cardinality(T) \in 0..n
<1>1. IsFiniteSet(1..n) /\ Cardinality(1..n) = n
  BY FS_Interval
<1>2. IsFiniteSet(T) /\ Cardinality(T) <= n
  BY <1>1, FS_Subset
<1> QED
  BY <1>2, FS_CardinalityType

\* The image of such a set is finite.
LEMMA FiniteImage ==
  ASSUME NEW f, NEW n \in Nat, NEW T \in SUBSET (1..n)
  PROVE  IsFiniteSet({f[m] : m \in T})
<1>1. IsFiniteSet(T)
  BY FiniteInInterval
<1> DEFINE image == {f[m] : m \in T}
           g == [m \in T |-> f[m]]
<1>2. g \in Surjection(T, image)
  BY DEF Surjection
<1> HIDE DEF image, g
<1>3. IsFiniteSet(image)
  BY <1>1, <1>2, FS_Surjection
<1> QED
  BY <1>3 DEF image

-----------------------------------------------------------------------------
\* The elements of S among the first n numbers.
Count(S, n) == Cardinality(S \cap (1..n))

LEMMA CountType ==
  ASSUME NEW S, NEW n \in Nat
  PROVE  Count(S, n) \in 0..n
  BY FiniteInInterval DEF Count

LEMMA CountNone == ASSUME NEW S PROVE Count(S, 0) = 0
<1>1. Count(S, 0) \in 0..0
  BY CountType
<1> QED
  BY <1>1

\* One number more is one element more or none.
LEMMA CountStep ==
  ASSUME NEW S, NEW n \in Nat
  PROVE  Count(S, n + 1) = Count(S, n) + (IF n + 1 \in S THEN 1 ELSE 0)
<1>1. IsFiniteSet(S \cap (1..n)) /\ Count(S, n) \in Nat
  BY FiniteInInterval, CountType
<1>2. CASE n + 1 \in S
  <2>1. S \cap (1..(n + 1)) = (S \cap (1..n)) \cup {n + 1}
    BY <1>2
  <2>2. n + 1 \notin S \cap (1..n)
    OBVIOUS
  <2>3. Cardinality((S \cap (1..n)) \cup {n + 1}) = Cardinality(S \cap (1..n)) + 1
    BY <1>1, <2>2, FS_AddElement
  <2> QED
    BY <1>2, <2>1, <2>3 DEF Count
<1>3. CASE n + 1 \notin S
  <2>1. S \cap (1..(n + 1)) = S \cap (1..n)
    BY <1>3
  <2> QED
    BY <1>1, <1>3, <2>1 DEF Count
<1> QED
  BY <1>2, <1>3

\* A longer interval holds no fewer elements.
LEMMA CountMonotone ==
  ASSUME NEW S, NEW n \in Nat, NEW m \in 0..n
  PROVE  Count(S, m) <= Count(S, n)
<1>1. S \cap (1..m) \subseteq S \cap (1..n)
  OBVIOUS
<1>2. IsFiniteSet(S \cap (1..n))
  BY FiniteInInterval
<1> QED
  BY <1>1, <1>2, FS_Subset DEF Count

=============================================================================
