------------------------------ MODULE Induction ------------------------------
(***************************************************************************)
(* Induction over the natural numbers, stated of a set instead of a        *)
(* predicate, and what follows from it: a function that is defined by      *)
(* recursion on an interval exists.                                        *)
(***************************************************************************)
EXTENDS Integers, WellFoundedInduction, TLAPS

\* A set that has 0, and n + 1 with every n, has all natural numbers: were one
\* missing, the least that is would not be.
LEMMA SetInduction ==
    ASSUME NEW S, 0 \in S, \A n \in Nat : n \in S => n + 1 \in S
    PROVE  \A n \in Nat : n \in S
  <1> DEFINE Less == {pair \in Nat \X Nat : pair[1] < pair[2]}
             Missing == Nat \ S
  <1>1. IsWellFoundedOn(Less, Nat)
    <2>1. OpToRel(<, Nat) = Less
      BY DEF OpToRel
    <2> HIDE DEF Less
    <2> QED BY <2>1, NatLessThanWellFounded, Zenon
  <1>2. SUFFICES ASSUME Missing # {} PROVE FALSE
    OBVIOUS
  <1>3. PICK m \in Missing : \A k \in Missing : ~ (<<k, m>> \in Less)
    <2>1. Missing \subseteq Nat
      OBVIOUS
    <2> HIDE DEF Missing, Less
    <2> QED BY <1>1, <1>2, <2>1, WFMin
  <1>4. \A k \in Missing : ~ (k < m)
    BY <1>3
  <1> QED
    BY <1>4

\* f on 0..N starts with base and goes on by step.
Recurses(f, S, base, step, N) ==
    /\ f \in [0..N -> S]
    /\ f[0] = base
    /\ \A n \in 1..N : f[n] = step[<<f[n - 1], n>>]

\* There is such a function.
LEMMA RecursionExists ==
    ASSUME NEW S, NEW base \in S, NEW N \in Nat,
           NEW step \in [S \X (1..N) -> S]
    PROVE  \E f : Recurses(f, S, base, step, N)
  <1> DEFINE Done == {k \in Nat : k <= N => \E f : Recurses(f, S, base, step, k)}
  <1>1. 0 \in Done
    <2>1. Recurses([n \in 0..0 |-> base], S, base, step, 0)
      BY DEF Recurses
    <2> QED BY <2>1
  <1>2. ASSUME NEW k \in Nat, k \in Done
        PROVE  k + 1 \in Done
    <2> SUFFICES ASSUME k + 1 <= N
                 PROVE  \E f : Recurses(f, S, base, step, k + 1)
      OBVIOUS
    <2>1. PICK f : Recurses(f, S, base, step, k)
      BY <1>2
    <2> DEFINE g == [n \in 0..(k + 1) |-> IF n = k + 1 THEN step[<<f[k], k + 1>>] ELSE f[n]]
    <2>2. step[<<f[k], k + 1>>] \in S
      BY <2>1 DEF Recurses
    <2>3. Recurses(g, S, base, step, k + 1)
      <3>1. g \in [0..(k + 1) -> S] /\ g[0] = base
        BY <2>1, <2>2 DEF Recurses
      <3>2. ASSUME NEW n \in 1..(k + 1)
            PROVE  g[n] = step[<<g[n - 1], n>>]
        <4>1. CASE n = k + 1
          <5>1. g[n] = step[<<f[k], k + 1>>] /\ g[n - 1] = f[k]
            BY <4>1
          <5> QED BY <4>1, <5>1, Zenon
        <4>2. CASE n # k + 1
          <5>1. n \in 1..k /\ g[n] = f[n] /\ g[n - 1] = f[n - 1]
            BY <4>2
          <5> QED BY <2>1, <5>1 DEF Recurses
        <4> QED BY <4>1, <4>2
      <3> QED BY <3>1, <3>2 DEF Recurses
    <2> QED BY <2>3
  <1>3. \A n \in Nat : n \in Done
    <2> HIDE DEF Done
    <2> QED BY <1>1, <1>2, SetInduction
  <1> QED BY <1>3
=============================================================================
