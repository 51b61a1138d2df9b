------------------------------ MODULE NatSets ------------------------------
(***************************************************************************)
(* Facts about sets of natural numbers, first-order so that every proof    *)
(* can use them: a minimum for the searches, which are defined by CHOOSE,  *)
(* and induction for the recursive functions.                              *)
(***************************************************************************)
EXTENDS WellFoundedInduction, TLAPS

\* A search that finds anything finds a first place.
LEMMA Smallest ==
  ASSUME NEW T \in SUBSET Nat, T # {}
  PROVE  \E n \in T : \A m \in T : n <= m
<1>1. \E n \in T : \A m \in T : ~(<<m, n>> \in OpToRel(<, Nat))
  BY NatLessThanWellFounded, WFMin
<1>2. PICK n \in T : \A m \in T : ~(<<m, n>> \in OpToRel(<, Nat))
  BY <1>1
<1>3. \A m \in T : ~(m < n)
  BY <1>2 DEF OpToRel
<1>4. QED
  BY <1>3

\* A set that holds 0 and, with each number, the next one holds them all.
LEMMA SetInduction ==
  ASSUME NEW S \in SUBSET Nat, 0 \in S, \A n \in S : n + 1 \in S
  PROVE  S = Nat
<1>1. SUFFICES ASSUME Nat \ S # {} PROVE FALSE
  OBVIOUS
<1>2. PICK n \in Nat \ S : \A m \in Nat \ S : n <= m
  BY <1>1, Smallest
<1>3. n # 0
  BY <1>2
<1>4. n - 1 \in Nat /\ n - 1 \notin Nat \ S
  BY <1>2, <1>3
<1>5. (n - 1) + 1 \in S
  BY <1>4
<1>6. QED
  BY <1>2, <1>5

\* A non-empty set of numbers with a bound has a last one.
LEMMA Largest ==
  ASSUME NEW N \in Nat, NEW T \in SUBSET (0 .. N), T # {}
  PROVE  \E n \in T : \A m \in T : m <= n
<1> DEFINE U == {k \in Nat : N - k \in T}
<1>1. U \in SUBSET Nat /\ U # {}
  <2>1. PICK t \in T : t \in 0 .. N
    OBVIOUS
  <2>2. N - t \in Nat /\ N - (N - t) = t
    BY <2>1
  <2>3. N - t \in U
    BY <2>1, <2>2
  <2>4. QED
    BY <2>3
<1>2. PICK u \in U : \A v \in U : u <= v
  BY <1>1, Smallest
<1>3. \A m \in T : m \in 0 .. N /\ N - m \in Nat /\ N - (N - m) = m
  OBVIOUS
<1>4. \A m \in T : u <= N - m
  BY <1>2, <1>3
<1>5. N - u \in T /\ u \in Nat
  BY <1>2
<1>6. \A m \in T : m <= N - u
  BY <1>3, <1>4, <1>5
<1>7. QED
  BY <1>5, <1>6
=============================================================================
