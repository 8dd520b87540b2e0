------------------------------ MODULE NumberSets ------------------------------
(***************************************************************************)
(* Facts about sets of numbers that several proofs need: the least and the *)
(* greatest element, and induction stated with a set.                      *)
(***************************************************************************)
EXTENDS Naturals, FiniteSetTheorems, TLAPS

\* A nonempty set of numbers has a least one.  (The intervals up to the
\* numbers below some element are ordered by inclusion.)
LEMMA LeastNumber ==
  ASSUME NEW S \in SUBSET Nat, S # {}
  PROVE  \E n \in S : \A m \in S : n <= m
<1>1. PICK k : k \in S
  OBVIOUS
<1> DEFINE T == {0 .. n : n \in S \cap 0 .. k}
           R == StrictSubsetOrdering(0 .. k)
           F == FiniteSubsetsOf(0 .. k)
<1>2. IsFiniteSet(0 .. k)
  BY <1>1, FS_Interval
<1>3. IsWellFoundedOn(R, F)
  BY <1>2, FS_StrictSubsetOrderingWellFounded
<1>4. T \subseteq F
  <2>1. \A n \in 0 .. k : 0 .. n \in F
    BY <1>2, FS_Subset, <1>1 DEF FiniteSubsetsOf
  <2>2. QED
    BY <2>1
<1>5. T # {}
  BY <1>1
<1>6. \A x, y \in F : x \subseteq y /\ x # y => <<x, y>> \in R
  BY DEF StrictSubsetOrdering, FiniteSubsetsOf
<1> HIDE DEF T, R, F
<1>7. PICK t \in T : \A y \in T : <<y, t>> \notin R
  BY <1>3, <1>4, <1>5, WFMin
<1>8. PICK n \in S \cap 0 .. k : t = 0 .. n
  BY <1>7 DEF T
<1>9. ASSUME NEW m \in S, m < n PROVE FALSE
  <2>1. m \in S \cap 0 .. k /\ 0 .. m \in T
    BY <1>8, <1>9, <1>1 DEF T
  <2>2. 0 .. m \subseteq 0 .. n /\ 0 .. m # 0 .. n
    <3>1. n \in 0 .. n /\ n \notin 0 .. m
      BY <1>8, <1>9
    <3>2. QED BY <1>8, <1>9, <3>1
  <2>3. QED
    BY <2>1, <2>2, <1>4, <1>6, <1>7, <1>8
<1>10. QED
  BY <1>8, <1>9

\* Induction, for a set instead of a predicate.
LEMMA NatSetInduction ==
  ASSUME NEW S, 0 \in S, \A n \in Nat : n \in S => n + 1 \in S
  PROVE  Nat \subseteq S
<1>1. SUFFICES ASSUME Nat \ S # {} PROVE FALSE
  OBVIOUS
<1>2. PICK x \in Nat \ S : \A y \in Nat \ S : x <= y
  BY <1>1, LeastNumber
<1>3. x # 0 /\ x - 1 \in Nat /\ ~(x <= x - 1) /\ x - 1 + 1 = x
  BY <1>2
<1>4. QED
  BY <1>2, <1>3

\* So has a nonempty set of numbers up to k a greatest one.
LEMMA GreatestNumber ==
  ASSUME NEW k \in Nat, NEW S \in SUBSET (0 .. k), S # {}
  PROVE  \E n \in S : \A m \in S : m <= n
<1> DEFINE U == {k - n : n \in S}
<1>1. U \in SUBSET Nat /\ U # {}
  <2>1. \A n \in S : k - n \in Nat  OBVIOUS
  <2>2. U \subseteq Nat  BY <2>1
  <2>3. QED  BY <2>2
<1> HIDE DEF U
<1>2. PICK x \in U : \A y \in U : x <= y  BY <1>1, LeastNumber
<1>3. PICK n \in S : x = k - n  BY <1>2 DEF U
<1>4. ASSUME NEW m \in S  PROVE m <= n
  <2>1. k - m \in U  BY DEF U
  <2>2. k - n <= k - m  BY <1>2, <1>3, <2>1
  <2>3. QED  BY <2>2
<1>5. QED  BY <1>4
=============================================================================
