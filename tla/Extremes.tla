------------------------------ MODULE Extremes ------------------------------
(* Sets of natural numbers have a least element and, when they are bounded, *)
(* a greatest: what the first unset bit, the first op that stops and the    *)
(* head of a log rest on.                                                   *)
EXTENDS Integers, FiniteSetTheorems, WellFoundedInduction, TLAPS

\* A set of natural numbers has a least element, the one with the smallest of
\* the initial segments (find_bit returns it).
LEMMA LeastElement ==
  ASSUME NEW U, U \subseteq Nat, U # {}
  PROVE  \E b \in U : \A c \in U : b <= c
<1>1. IsWellFoundedOn(StrictSubsetOrdering(Nat), FiniteSubsetsOf(Nat))
  BY FS_StrictSubsetOrderingWellFounded
<1> DEFINE T == {0 .. n : n \in U}
           R == StrictSubsetOrdering(Nat)
<1>2. T # {} /\ T \subseteq FiniteSubsetsOf(Nat)
  <2>1. ASSUME NEW n \in U
        PROVE  0 .. n \subseteq Nat /\ IsFiniteSet(0 .. n)
    BY FS_Interval
  <2> QED BY <2>1 DEF FiniteSubsetsOf
<1>3. \E x \in T : \A y \in T : ~ (<<y, x>> \in R)
  <2>1. IsWellFoundedOn(R, FiniteSubsetsOf(Nat))
    BY <1>1
  <2> HIDE DEF R, T
  <2> QED BY <2>1, <1>2, WFMin
<1>4. PICK b \in U : \A c \in U : ~ (<<0 .. c, 0 .. b>> \in R)
  BY <1>3
<1>5. ASSUME NEW c \in U, c < b
      PROVE  FALSE
  <2>1. c \in Nat /\ b \in Nat
    OBVIOUS
  <2>2. 0 .. c \subseteq 0 .. b /\ b \in 0 .. b /\ b \notin 0 .. c
    BY <2>1, <1>5
  <2>3. <<0 .. c, 0 .. b>> \in R
    BY <2>1, <2>2 DEF StrictSubsetOrdering
  <2> QED BY <2>3, <1>4
<1> QED BY <1>5

\* A bounded set has a greatest element: its least upper bound is one of them
\* (op_max_canonical and commit_max of the join views).
LEMMA GreatestElement ==
  ASSUME NEW n \in Nat, NEW S, S \subseteq 0 .. n, S # {}
  PROVE  \E b \in S : \A c \in S : b >= c
<1> DEFINE U == {u \in Nat : \A c \in S : c <= u}
<1>1. U \subseteq Nat /\ n \in U
  OBVIOUS
<1>2. PICK u \in U : \A w \in U : u <= w
  BY <1>1, LeastElement
<1>3. u \in S
  <2> SUFFICES ASSUME u \notin S PROVE FALSE
    OBVIOUS
  <2>1. \A c \in S : c \in Nat /\ c < u
    BY <1>2
  <2>2. u - 1 \in Nat
    <3>1. PICK c \in S : TRUE
      OBVIOUS
    <3>2. c \in Nat /\ c < u /\ u \in Nat
      BY <2>1, <1>2
    <3> QED BY <3>2
  <2>3. \A c \in S : c <= u - 1
    BY <2>1
  <2>4. u - 1 \in U
    BY <2>2, <2>3
  <2> QED BY <1>2, <2>4
<1> QED BY <1>3
=============================================================================
