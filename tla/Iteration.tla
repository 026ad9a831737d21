------------------------------ MODULE Iteration ------------------------------
(* Repeating a step: facts for the loops of the other modules.              *)
EXTENDS Integers, WellFoundedInduction, TLAPS

\* A property of some numbers holds of a least one.
LEMMA NatMin ==
    ASSUME NEW T \in SUBSET Nat, T # {}
    PROVE  \E n \in T : \A m \in T : n <= m
<1>1. IsWellFoundedOn(OpToRel(<, Nat), Nat)
  BY NatLessThanWellFounded
<1>2. PICK n \in T : \A m \in T : << m, n >> \notin OpToRel(<, Nat)
  BY <1>1, WFMin
<1>3. \A m \in T : ~ (m < n)
  BY <1>2 DEF OpToRel
<1> QED BY <1>3, Z3

\* A set of numbers with 0 and every successor up to N has them all.
LEMMA UpTo ==
    ASSUME NEW N \in Nat, NEW T, 0 \in T, \A n \in 0 .. N - 1 : n \in T => n + 1 \in T
    PROVE  0 .. N \subseteq T
<1> DEFINE rest == (0 .. N) \ T
<1> SUFFICES ASSUME rest # {} PROVE FALSE
  OBVIOUS
<1>0. rest \in SUBSET Nat
  OBVIOUS
<1>1. PICK n \in rest : \A m \in rest : n <= m
  <2> HIDE DEF rest
  <2> QED BY <1>0, NatMin
<1>2. n # 0 /\ n - 1 \in 0 .. N - 1 /\ n - 1 + 1 = n
  BY <1>1
<1>3. n - 1 \in T
  BY <1>1, <1>2
<1> QED BY <1>1, <1>2, <1>3

\* The states of a loop of N rounds.
Iterates(N, first, step, f) ==
    f = [n \in 0 .. N |-> IF n = 0 THEN first ELSE step[n][f[n - 1]]]

\* A loop whose step stays within S has its states there.
LEMMA LoopsExist ==
    ASSUME NEW S, NEW first \in S, NEW N \in Nat, NEW step \in [1 .. N -> [S -> S]]
    PROVE  \E f \in [0 .. N -> S] : Iterates(N, first, step, f)
<1> DEFINE T == {n \in 0 .. N : \E f \in [0 .. n -> S] : Iterates(n, first, step, f)}
<1>1. 0 \in T
  <2> DEFINE f == [n \in 0 .. 0 |-> first]
  <2>1. f \in [0 .. 0 -> S] /\ f = [n \in 0 .. 0 |-> IF n = 0 THEN first ELSE step[n][f[n - 1]]]
    OBVIOUS
  <2> HIDE DEF f
  <2> QED BY <2>1 DEF Iterates
<1>2. ASSUME NEW n \in 0 .. N - 1, n \in T
      PROVE  n + 1 \in T
  <2>1. PICK f \in [0 .. n -> S] : Iterates(n, first, step, f)
    BY <1>2
  <2> DEFINE g == [m \in 0 .. n + 1 |-> IF m \in 0 .. n THEN f[m] ELSE step[n + 1][f[n]]]
  <2>2. /\ g \in [0 .. n + 1 -> S]
        /\ \A m \in 0 .. n : g[m] = f[m]
        /\ g[n + 1] = step[n + 1][f[n]]
    OBVIOUS
  <2> HIDE DEF g
  <2>3. \A m \in 0 .. n + 1 : g[m] = IF m = 0 THEN first ELSE step[m][g[m - 1]]
    <3> SUFFICES ASSUME NEW m \in 0 .. n + 1
                 PROVE  g[m] = IF m = 0 THEN first ELSE step[m][g[m - 1]]
      OBVIOUS
    <3>1. CASE m = n + 1
      BY <2>2, <3>1
    <3>2. CASE m \in 0 .. n
      <4>1. f[m] = IF m = 0 THEN first ELSE step[m][f[m - 1]]
        BY <2>1, <3>2 DEF Iterates
      <4>2. m # 0 => g[m - 1] = f[m - 1]
        BY <2>2, <3>2
      <4> QED BY <2>2, <3>2, <4>1, <4>2
    <3> QED BY <3>1, <3>2
  <2>4. Iterates(n + 1, first, step, g)
    BY <2>2, <2>3 DEF Iterates
  <2> QED BY <2>2, <2>4
<1> HIDE DEF T
<1>3. 0 .. N \subseteq T
  BY <1>1, <1>2, UpTo
<1>4. N \in T
  BY <1>3
<1> QED BY <1>4 DEF T
=============================================================================
