------------------------------ MODULE MaxLemmas ------------------------------
(* Numbers: induction, the least and the greatest of some, what Max returns. *)
EXTENDS Naturals, FiniteSetsExt, FiniteSetTheorems, WellFoundedInduction, TLAPS

\* A finite set of numbers has a greatest one.
LEMMA MaxOf ==
  ASSUME NEW S, IsFiniteSet(S), S \subseteq Nat, S # {}
  PROVE  Max(S) \in S /\ \A y \in S : y <= Max(S)
<1> DEFINE Above(x) == {y \in S : y > x}
           F == {Above(x) : x \in S}
<1>1. F \subseteq FiniteSubsetsOf(S) /\ F # {}
  <2>1. FiniteSubsetsOf(S) = SUBSET S
    BY FS_FiniteSubsetsOfFinite
  <2>2. \A T \in F : T \in SUBSET S
    OBVIOUS
  <2>3. PICK x : x \in S
    OBVIOUS
  <2>4. Above(x) \in F
    BY <2>3
  <2> QED BY <2>1, <2>2, <2>4
<1>2. IsWellFoundedOn(StrictSubsetOrdering(S), FiniteSubsetsOf(S))
  BY FS_StrictSubsetOrderingWellFounded
<1>3. \E T \in F : \A U \in F : <<U, T>> \notin StrictSubsetOrdering(S)
  <2> HIDE DEF F
  <2> QED BY <1>1, <1>2, WFMin
<1>4. PICK x \in S : \A U \in F : <<U, Above(x)>> \notin StrictSubsetOrdering(S)
  BY <1>3
<1>5. ASSUME NEW y \in S, y > x PROVE FALSE
  <2>1. Above(y) \in F
    OBVIOUS
  <2>2. x \in Nat /\ y \in Nat
    OBVIOUS
  <2>3. \A z \in Above(y) : z \in Above(x)
    BY <1>5, <2>2
  <2>4. y \in Above(x) /\ y \notin Above(y)
    BY <1>5, <2>2
  <2>5. <<Above(y), Above(x)>> \in StrictSubsetOrdering(S)
    BY <2>3, <2>4 DEF StrictSubsetOrdering
  <2> QED BY <1>4, <2>1, <2>5
<1>6. \A y \in S : x >= y
  BY <1>5
<1> QED BY <1>6 DEF Max

\* Induction over the natural numbers, with a set in place of a predicate.
LEMMA InductionOnNat ==
  ASSUME NEW S, 0 \in S, \A n \in Nat : n \in S => n + 1 \in S
  PROVE  Nat \subseteq S
<1>1. SUFFICES ASSUME NEW n \in Nat, n \notin S PROVE FALSE
  OBVIOUS
<1>2. PICK T : T = {m \in 0..n : m \in S}
  OBVIOUS
<1>3. IsFiniteSet(0..n)
  BY FS_Interval
<1>4. IsFiniteSet(T) /\ T \subseteq Nat /\ 0 \in T
  BY <1>2, <1>3, FS_Subset
<1>5. PICK k : k = Max(T)
  OBVIOUS
<1>6. k \in T /\ \A m \in T : m <= k
  BY <1>4, <1>5, MaxOf
<1>7. k \in 0..n /\ k \in S /\ k # n
  BY <1>1, <1>2, <1>6
<1>8. k + 1 \in T
  BY <1>2, <1>7
<1> QED BY <1>6, <1>7, <1>8

\* A set of numbers has a least one.
LEMMA LeastOf ==
  ASSUME NEW S \in SUBSET Nat, S # {}
  PROVE  \E m \in S : \A k \in S : m <= k
<1>1. SUFFICES ASSUME \A m \in S : \E k \in S : k < m PROVE FALSE
  OBVIOUS
<1> DEFINE T == {n \in Nat : \A k \in S : n < k}
<1>2. 0 \in T
  BY <1>1
<1>3. ASSUME NEW n \in Nat, n \in T PROVE n + 1 \in T
  <2>1. \A k \in S : n + 1 <= k
    BY <1>3
  <2>2. n + 1 \notin S
    BY <1>1, <2>1
  <2> QED BY <2>1, <2>2
<1>4. Nat \subseteq T
  <2> HIDE DEF T
  <2> QED BY <1>2, <1>3, InductionOnNat
<1>5. PICK k \in S : TRUE
  OBVIOUS
<1> QED BY <1>4, <1>5
=============================================================================
