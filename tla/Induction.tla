----------------------------- MODULE Induction -----------------------------
(***************************************************************************)
(* Induction on the natural numbers for a set: the least element of a      *)
(* well-founded order on Nat, and what follows from it.  A definition by   *)
(* recursion, f[n \in Nat] == ... f[n - 1] ..., is reasoned about with the *)
(* set of those n at which f has the property.                             *)
(***************************************************************************)
EXTENDS Integers, FiniteSetsExt, WellFoundedInduction, TLAPS

Less == {p \in Nat \X Nat : p[1] < p[2]}

\* The order of the natural numbers is well-founded.
LEMMA LessWF == IsWellFoundedOn(Less, Nat)
<1>1. Less = OpToRel(<, Nat)
  BY DEF Less, OpToRel
<1> QED
  BY <1>1, NatLessThanWellFounded

\* A set of natural numbers that is not empty has a least element.
LEMMA Least ==
    ASSUME NEW T, T \subseteq Nat, T # {}
    PROVE  \E x \in T : \A y \in T : x <= y
<1>1. PICK x \in T : \A y \in T : ~(<<y, x>> \in Less)
  BY LessWF, WFMin
<1>2. ASSUME NEW y \in T PROVE x <= y
  <2>1. ~(y < x)
    BY <1>1, y \in Nat, x \in Nat DEF Less
  <2> QED
    BY <2>1, y \in Nat, x \in Nat
<1> QED
  BY <1>2

\* Min is that element.
LEMMA MinIsLeast ==
    ASSUME NEW T, T \subseteq Nat, T # {}
    PROVE  Min(T) \in T /\ \A y \in T : Min(T) <= y
<1>1. \E x \in T : \A y \in T : x <= y
  BY Least
<1> QED
  BY <1>1 DEF Min

\* Max is the greatest element of a set that has a bound.
LEMMA MaxIsGreatest ==
    ASSUME NEW T, NEW m \in Nat, T \subseteq 0..m, T # {}
    PROVE  Max(T) \in T /\ \A y \in T : y <= Max(T)
<1> DEFINE U == {m - y : y \in T}
<1>1. U \subseteq Nat /\ U # {}
  <2>1. PICK y \in T : TRUE
    OBVIOUS
  <2>2. m - y \in U
    OBVIOUS
  <2> QED
    BY <2>2
<1>2. \E z \in U : \A y \in U : z <= y
  <2> HIDE DEF U
  <2> QED
    BY <1>1, Least
<1> PICK z \in U : \A y \in U : z <= y
  BY <1>2, Zenon
<1>3. PICK x \in T : z = m - x
  OBVIOUS
<1>4. ASSUME NEW y \in T PROVE x >= y
  <2>1. z <= m - y
    OBVIOUS
  <2> QED
    BY <1>3, <2>1, x \in Int, y \in Int
<1> QED
  BY <1>4, T \subseteq Int DEF Max

\* What holds at 0, and at n + 1 where it holds at n, holds everywhere.
LEMMA SetInduction ==
    ASSUME NEW T, 0 \in T, \A n \in Nat : n \in T => n + 1 \in T
    PROVE  \A n \in Nat : n \in T
<1> SUFFICES ASSUME NEW m \in Nat, m \notin T PROVE FALSE
  OBVIOUS
<1> DEFINE U == Nat \ T
<1>1. PICK x \in U : \A y \in U : x <= y
  <2>1. U \subseteq Nat /\ U # {}
    OBVIOUS
  <2> QED
    BY <2>1, Least
<1>2. x \in Nat /\ x \notin T /\ x # 0
  OBVIOUS
<1>3. x - 1 \in Nat /\ x - 1 + 1 = x
  BY <1>2
<1>4. x - 1 \in T
  BY <1>1, <1>3
<1> QED
  BY <1>2, <1>3, <1>4

\* The same up to a bound.
LEMMA BoundedInduction ==
    ASSUME NEW T, NEW m \in Nat, 0 \in T,
           \A n \in 0..m - 1 : n \in T => n + 1 \in T
    PROVE  \A n \in 0..m : n \in T
<1> DEFINE U == {n \in Nat : n <= m => n \in T}
<1>1. 0 \in U
  OBVIOUS
<1>2. \A n \in Nat : n \in U => n + 1 \in U
  OBVIOUS
<1>3. \A n \in Nat : n \in U
  <2> HIDE DEF U
  <2> QED
    BY <1>1, <1>2, SetInduction
<1> QED
  BY <1>3
=============================================================================
