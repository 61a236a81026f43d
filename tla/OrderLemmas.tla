---------------------------- MODULE OrderLemmas ----------------------------
(***************************************************************************)
(* Facts about sets of natural numbers that the proofs of the components   *)
(* use: a non-empty set has a least element, and a greatest one when it is *)
(* bounded.  They justify the CHOOSE expressions of the models.            *)
(***************************************************************************)
EXTENDS Integers, FiniteSets, FiniteSetsExt, FiniteSetTheorems, TLAPS

(* Every non-empty set of natural numbers has a least element: the interval   *)
(* 0..x of its least x is minimal among the intervals, in the well-founded    *)
(* order of strict inclusion on finite sets.                                  *)
LEMMA NatMin ==
    ASSUME NEW S \in SUBSET Nat, S # {}
    PROVE  \E x \in S : \A y \in S : x <= y
<1> DEFINE T == {0 .. x : x \in S}
<1>1. T \subseteq FiniteSubsetsOf(Nat)
  <2>1. ASSUME NEW x \in S PROVE 0 .. x \in FiniteSubsetsOf(Nat)
    <3>1. IsFiniteSet(0 .. x)  BY FS_Interval
    <3>2. 0 .. x \subseteq Nat  OBVIOUS
    <3> QED  BY <3>1, <3>2 DEF FiniteSubsetsOf
  <2> QED  BY <2>1
<1>2. T # {}  OBVIOUS
<1>3. PICK t \in T : \A u \in T : <<u, t>> \notin StrictSubsetOrdering(Nat)
  <2> HIDE DEF T
  <2> QED  BY <1>1, <1>2, FS_StrictSubsetOrderingWellFounded, WFMin
<1>4. PICK x \in S : t = 0 .. x  BY <1>3
<1>5. ASSUME NEW y \in S, y < x PROVE FALSE
  <2>1. 0 .. y \in T  OBVIOUS
  <2>2. x \in t /\ x \notin 0 .. y /\ 0 .. y \subseteq t  BY <1>4, <1>5
  <2>3. <<0 .. y, t>> \in StrictSubsetOrdering(Nat)
    BY <2>2, <1>4 DEF StrictSubsetOrdering
  <2> QED  BY <1>3, <2>1, <2>3
<1> QED  BY <1>5

(* Every non-empty bounded set of natural numbers has a greatest element. *)
LEMMA NatMax ==
    ASSUME NEW S \in SUBSET Nat, S # {}, NEW b \in Nat, \A y \in S : y <= b
    PROVE  \E x \in S : \A y \in S : x >= y
<1> DEFINE T == {b - y : y \in S}
<1>1. T \subseteq Nat
  <2>1. ASSUME NEW y \in S PROVE b - y \in Nat
    <3>1. y \in Nat /\ y <= b  OBVIOUS
    <3> QED  BY <3>1
  <2> QED  BY <2>1
<1>2. T # {}  OBVIOUS
<1>3. PICK t \in T : \A u \in T : t <= u
  <2> HIDE DEF T
  <2> QED  BY <1>1, <1>2, NatMin
<1>4. PICK x \in S : t = b - x  BY <1>3
<1>5. ASSUME NEW y \in S PROVE x >= y
  <2>1. b - y \in T  OBVIOUS
  <2>2. b - x <= b - y  BY <1>3, <1>4, <2>1
  <2> QED  BY <2>2
<1> QED  BY <1>5

(* Max of a bounded set. *)
LEMMA MaxIs ==
    ASSUME NEW S \in SUBSET Nat, S # {}, NEW b \in Nat, \A y \in S : y <= b
    PROVE  Max(S) \in S /\ \A y \in S : y <= Max(S)
<1>1. \E x \in S : \A y \in S : x >= y  BY NatMax
<1> QED  BY <1>1 DEF Max

(* Min of any set of numbers. *)
LEMMA MinIs ==
    ASSUME NEW S \in SUBSET Nat, S # {}
    PROVE  Min(S) \in S /\ \A y \in S : Min(S) <= y
<1>1. \E x \in S : \A y \in S : x <= y  BY NatMin
<1>2. \E x \in S : \A y \in S : y >= x  BY <1>1
<1> QED  BY <1>2 DEF Min

(* The greater and the lesser of two numbers. *)
LEMMA OfTwo ==
    ASSUME NEW a \in Nat, NEW b \in Nat
    PROVE  /\ Max({a, b}) \in Nat /\ Max({a, b}) >= a /\ Max({a, b}) >= b /\ Max({a, b}) \in {a, b}
           /\ Min({a, b}) \in Nat /\ Min({a, b}) <= a /\ Min({a, b}) <= b /\ Min({a, b}) \in {a, b}
<1> DEFINE S == {a, b}
           c == IF a <= b THEN b ELSE a
<1>1. S \in SUBSET Nat /\ S # {} /\ c \in Nat /\ \A y \in S : y <= c  OBVIOUS
<1>2. a \in S /\ b \in S  OBVIOUS
<1>5. \A x \in S : x \in Nat /\ x \in {a, b}  OBVIOUS
<1> HIDE DEF S, c
<1>3. Max(S) \in S /\ \A y \in S : y <= Max(S)  BY <1>1, MaxIs
<1>4. Min(S) \in S /\ \A y \in S : Min(S) <= y  BY <1>1, MinIs
<1>6. /\ Max(S) \in Nat /\ Max(S) >= a /\ Max(S) >= b /\ Max(S) \in {a, b}
      /\ Min(S) \in Nat /\ Min(S) <= a /\ Min(S) <= b /\ Min(S) \in {a, b}
  BY <1>2, <1>3, <1>4, <1>5
<1> QED  BY <1>6 DEF S

=============================================================================
