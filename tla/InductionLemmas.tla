--------------------------- MODULE InductionLemmas ---------------------------
(***************************************************************************)
(* Induction over the natural numbers, stated about sets: the predicate is *)
(* the set of numbers it holds for.  From it, that a function defined by   *)
(* primitive recursion exists, which is what makes the recursive functions *)
(* of the model equal to their definitions.                                *)
(***************************************************************************)
EXTENDS WellFoundedInduction, Sequences, TLAPS

\* Every set of natural numbers that is not empty has a least element.
LEMMA LeastElement ==
  ASSUME NEW S \in SUBSET Nat, S # {}
  PROVE  \E n \in S : \A m \in S : n <= m
<1> DEFINE R == OpToRel(<, Nat)
<1>1. IsWellFoundedOn(R, Nat)
  BY NatLessThanWellFounded
<1>2. \A m, n \in Nat : m < n => <<m, n>> \in R
  BY DEF OpToRel
<1> HIDE DEF R
<1>3. PICK n \in S : \A m \in S : ~ (<<m, n>> \in R)
  BY <1>1, WFMin
<1>4. ASSUME NEW m \in S
      PROVE  n <= m
  <2>1. m \in Nat /\ n \in Nat
    OBVIOUS
  <2>2. ~ (m < n)
    BY <1>2, <1>3, <2>1, Zenon
  <2> QED
    BY <2>1, <2>2
<1> QED
  BY <1>4

\* A set that contains 0, and with a number the next one, contains all of them.
LEMMA NatSetInduction ==
  ASSUME NEW S, 0 \in S, \A n \in Nat : n \in S => n + 1 \in S
  PROVE  Nat \subseteq S
<1> SUFFICES ASSUME Nat \ S # {}
             PROVE  FALSE
  OBVIOUS
<1>1. PICK n \in Nat \ S : \A m \in Nat \ S : n <= m
  BY LeastElement
<1>2. n # 0 /\ n - 1 \in Nat /\ n - 1 \in S
  BY <1>1
<1> QED
  BY <1>1, <1>2

-----------------------------------------------------------------------------
(* Definition by primitive recursion.  The lemma is about these operators, *)
(* not about their definitions, so that the provers can instantiate it.    *)

\* The functions that make the next value of T from the last one and its number.
StepFunctions(T) == [T \X Nat -> T]

\* What the function g with values in T, base at 0 and step from then on is.
FollowsUpTo(g, n, T, base, step) ==
  /\ g \in [0..n -> T]
  /\ g[0] = base
  /\ \A i \in 1..n : g[i] = step[<<g[i - 1], i>>]

\* There is a function that starts with base and goes on by step.
LEMMA PrimitiveRecursion ==
  ASSUME NEW T, NEW base \in T, NEW step \in StepFunctions(T), NEW n \in Nat
  PROVE  \E g : FollowsUpTo(g, n, T, base, step)
<1> DEFINE S == {m \in Nat : \E g : FollowsUpTo(g, m, T, base, step)}
<1>0. step \in [T \X Nat -> T]
  BY DEF StepFunctions
<1>1. 0 \in S
  <2> DEFINE g == [i \in 0..0 |-> base]
  <2>1. FollowsUpTo(g, 0, T, base, step)
    BY DEF FollowsUpTo
  <2> QED
    BY <2>1
<1>2. ASSUME NEW m \in Nat, m \in S
      PROVE  m + 1 \in S
  <2>1. PICK g : FollowsUpTo(g, m, T, base, step)
    BY <1>2
  <2> DEFINE h == [i \in 0..(m + 1) |-> IF i = m + 1 THEN step[<<g[m], m + 1>>] ELSE g[i]]
  <2>2. g \in [0..m -> T] /\ g[0] = base /\ \A i \in 1..m : g[i] = step[<<g[i - 1], i>>]
    BY <2>1 DEF FollowsUpTo
  <2>3. h \in [0..(m + 1) -> T]
    <3>1. <<g[m], m + 1>> \in T \X Nat
      BY <2>2
    <3> QED
      BY <1>0, <2>2, <3>1
  <2>4. h[0] = base
    BY <2>2
  <2>5. ASSUME NEW i \in 1..(m + 1)
        PROVE  h[i] = step[<<h[i - 1], i>>]
    <3>1. CASE i = m + 1
      <4>1. h[i] = step[<<g[m], m + 1>>] /\ h[m] = g[m] /\ i - 1 = m
        BY <3>1
      <4> QED
        BY <3>1, <4>1
    <3>2. CASE i # m + 1
      <4>1. h[i] = g[i] /\ h[i - 1] = g[i - 1] /\ i \in 1..m
        BY <3>2
      <4> QED
        BY <2>2, <4>1
    <3> QED
      BY <3>1, <3>2
  <2> HIDE DEF h
  <2>6. FollowsUpTo(h, m + 1, T, base, step)
    BY <2>3, <2>4, <2>5 DEF FollowsUpTo
  <2> QED
    BY <2>6
<1> HIDE DEF S
<1>3. Nat \subseteq S
  BY <1>1, <1>2, NatSetInduction
<1> QED
  BY <1>3 DEF S

-----------------------------------------------------------------------------
(* Definition by recursion from a position to a later one.                 *)

\* The functions that name, for each position of 1..n, a later one, or 0 for none.
Jumps(n) == {next \in [1..n -> 0..n] : \A p \in 1..n : next[p] = 0 \/ p < next[p]}

\* The functions that make the value at a position from the value it jumps to.
JumpSteps(n, T) == [(1..n) \X T -> T]

\* The value at position p, from the values g of later positions.
JumpValue(p, base, next, step, g) ==
  IF next[p] = 0 THEN base[p] ELSE step[<<p, g[next[p]]>>]

\* What the function g with values in T is: base where there is no jump, else made by
\* step from the value it jumps to.
FollowsJumps(g, n, T, base, next, step) ==
  /\ g \in [1..n -> T]
  /\ \A p \in 1..n : g[p] = JumpValue(p, base, next, step, g)

\* There is a function that follows the jumps.
LEMMA JumpRecursion ==
  ASSUME NEW T, NEW n \in Nat, NEW base \in [1..n -> T], NEW next \in Jumps(n),
         NEW step \in JumpSteps(n, T)
  PROVE  \E g : FollowsJumps(g, n, T, base, next, step)
<1> DEFINE From(g, k) == \A p \in 1..n : n - k < p => g[p] = JumpValue(p, base, next, step, g)
           S == {k \in Nat : k <= n => \E g \in [1..n -> T] : From(g, k)}
<1>0. /\ next \in [1..n -> 0..n]
      /\ \A p \in 1..n : next[p] = 0 \/ p < next[p]
      /\ step \in [(1..n) \X T -> T]
  BY DEF Jumps, JumpSteps
<1>1. 0 \in S
  <2>1. From(base, 0)
    OBVIOUS
  <2> QED
    BY <2>1
<1>2. ASSUME NEW k \in Nat, k \in S
      PROVE  k + 1 \in S
  <2> SUFFICES ASSUME k + 1 <= n
               PROVE  \E h \in [1..n -> T] : From(h, k + 1)
    OBVIOUS
  <2>1. PICK g \in [1..n -> T] : From(g, k)
    BY <1>2
  <2>2. PICK q \in 1..n : q = n - k
    OBVIOUS
  <2> DEFINE v == JumpValue(q, base, next, step, g)
             h == [p \in 1..n |-> IF p = q THEN v ELSE g[p]]
  <2>3. v \in T
    <3>1. CASE next[q] = 0
      BY <3>1 DEF JumpValue
    <3>2. CASE next[q] # 0
      <4>1. next[q] \in 1..n
        BY <1>0, <3>2
      <4>2. <<q, g[next[q]]>> \in (1..n) \X T
        BY <4>1
      <4>3. v = step[<<q, g[next[q]]>>]
        BY <3>2 DEF JumpValue
      <4> QED
        BY <1>0, <4>2, <4>3
    <3> QED
      BY <3>1, <3>2
  <2> HIDE DEF v
  <2>4. h \in [1..n -> T] /\ h[q] = v /\ \A p \in 1..n : p # q => h[p] = g[p]
    BY <2>3
  <2> HIDE DEF h
  <2>5. ASSUME NEW p \in 1..n, n - (k + 1) < p
        PROVE  h[p] = JumpValue(p, base, next, step, h)
    <3>1. next[p] # 0 => next[p] \in 1..n /\ h[next[p]] = g[next[p]]
      <4> SUFFICES ASSUME next[p] # 0
                   PROVE  next[p] \in 1..n /\ h[next[p]] = g[next[p]]
        OBVIOUS
      <4>1. next[p] \in 1..n /\ p < next[p]
        BY <1>0
      <4>2. next[p] # q
        BY <2>2, <2>5, <4>1
      <4> QED
        BY <2>4, <4>1, <4>2
    <3>2. JumpValue(p, base, next, step, h) = JumpValue(p, base, next, step, g)
      BY <3>1 DEF JumpValue
    <3>3. CASE p = q
      BY <2>4, <3>2, <3>3 DEF v
    <3>4. CASE p # q
      <4>1. n - k < p
        BY <2>2, <2>5, <3>4
      <4> QED
        BY <2>1, <2>4, <3>2, <3>4, <4>1
    <3> QED
      BY <3>3, <3>4
  <2> QED
    BY <2>4, <2>5
<1> HIDE DEF S
<1>3. n \in S
  BY <1>1, <1>2, NatSetInduction
<1>4. PICK g \in [1..n -> T] : From(g, n)
  BY <1>3 DEF S
<1>5. \A p \in 1..n : n - n < p
  OBVIOUS
<1>6. FollowsJumps(g, n, T, base, next, step)
  BY <1>4, <1>5 DEF FollowsJumps
<1> QED
  BY <1>6

=============================================================================
