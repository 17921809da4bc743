------------------------------ MODULE Induction ------------------------------
(***************************************************************************)
(* Induction and recursion over the naturals in a form the provers can     *)
(* use: over a set or a function where the library's theorems take an      *)
(* operator.                                                               *)
(***************************************************************************)
EXTENDS Naturals, WellFoundedInduction, TLAPS

\* Of a set of naturals one is the least.
LEMMA LeastNatural == ASSUME NEW S \in SUBSET Nat, S # {} PROVE \E n \in S : \A m \in S : n <= m
<1> DEFINE R == {ss \in Nat \X Nat : ss[1] < ss[2]}
<1>1. IsWellFoundedOn(R, Nat)
  BY NatLessThanWellFounded DEF OpToRel
<1>2. PICK n \in S : \A m \in S : ~(<<m, n>> \in R)
  <2> HIDE DEF R
  <2> QED BY <1>1, WFMin
<1>3. ASSUME NEW m \in S PROVE n <= m
  <2>1. <<m, n>> \in Nat \X Nat OBVIOUS
  <2>2. ~ (m < n) BY <1>2, <2>1
  <2> QED BY <2>2
<1> QED BY <1>2, <1>3

\* What holds of 0, and of n + 1 if of n, holds of every natural: S is where it holds.
LEMMA EveryNatural == ASSUME NEW S, 0 \in S, \A n \in Nat : n \in S => n + 1 \in S PROVE Nat \subseteq S
<1>1. SUFFICES ASSUME Nat \ S # {} PROVE FALSE OBVIOUS
<1>2. PICK n \in Nat \ S : \A m \in Nat \ S : n <= m BY <1>1, LeastNatural
<1>3. n # 0 /\ n - 1 \in Nat BY <1>2
<1>4. n - 1 \in S BY <1>2, <1>3
<1>5. (n - 1) + 1 = n BY <1>2
<1> QED BY <1>2, <1>3, <1>4, <1>5

\* f takes from n - 1 to n the step that step says, up to m.
Recurs(f, e, step, m) == f[0] = e /\ \A n \in 1 .. m : f[n] = step[n][f[n - 1]]

\* Two functions that do agree as far as both do.
LEMMA RecursionIsUnique ==
    ASSUME NEW e, NEW step, NEW m \in Nat, NEW f, NEW g, Recurs(f, e, step, m), Recurs(g, e, step, m)
    PROVE  \A n \in 0 .. m : f[n] = g[n]
<1> DEFINE S == {n \in Nat : n <= m => f[n] = g[n]}
<1>1. 0 \in S BY DEF Recurs
<1>2. ASSUME NEW n \in Nat, n \in S PROVE n + 1 \in S
  <2>1. CASE n + 1 <= m
    <3>1. n + 1 \in 1 .. m /\ (n + 1) - 1 = n /\ n <= m BY <2>1
    <3>2. f[n + 1] = step[n + 1][f[n]] /\ g[n + 1] = step[n + 1][g[n]] BY <3>1 DEF Recurs
    <3> QED BY <1>2, <3>1, <3>2
  <2>2. CASE ~(n + 1 <= m) BY <2>2
  <2> QED BY <2>1, <2>2
<1>3. Nat \subseteq S
  <2> HIDE DEF S
  <2> QED BY <1>1, <1>2, EveryNatural
<1> QED BY <1>3

\* The function that takes every step.
Recursion(V, e, step) == CHOOSE f \in [Nat -> V] : f[0] = e /\ \A n \in Nat \ {0} : f[n] = step[n][f[n - 1]]

\* There is one.
LEMMA RecursionHolds ==
    ASSUME NEW V, NEW e \in V, NEW step \in [Nat -> [V -> V]]
    PROVE  /\ Recursion(V, e, step) \in [Nat -> V]
           /\ Recursion(V, e, step)[0] = e
           /\ \A n \in Nat \ {0} : Recursion(V, e, step)[n] = step[n][Recursion(V, e, step)[n - 1]]
<1> DEFINE Upto(f, m) == f \in [0 .. m -> V] /\ Recurs(f, e, step, m)
           S == {m \in Nat : \E f : Upto(f, m)}
<1>1. 0 \in S
  <2>1. Upto([n \in 0 .. 0 |-> e], 0) BY DEF Recurs
  <2> QED BY <2>1
<1>2. ASSUME NEW m \in Nat, m \in S PROVE m + 1 \in S
  <2>1. PICK f : Upto(f, m) BY <1>2
  <2> DEFINE g == [n \in 0 .. m + 1 |-> IF n = m + 1 THEN step[m + 1][f[m]] ELSE f[n]]
  <2>2. f[m] \in V BY <2>1
  <2>3. step[m + 1][f[m]] \in V BY <2>2
  <2>4. g \in [0 .. m + 1 -> V] BY <2>1, <2>3
  <2>5. \A n \in 0 .. m : g[n] = f[n] OBVIOUS
  <2>6. g[m + 1] = step[m + 1][f[m]] OBVIOUS
  <2> HIDE DEF g
  <2>7. ASSUME NEW n \in 1 .. m + 1 PROVE g[n] = step[n][g[n - 1]]
    <3>1. CASE n = m + 1
      <4>1. n - 1 = m /\ m \in 0 .. m BY <3>1
      <4> QED BY <4>1, <3>1, <2>5, <2>6
    <3>2. CASE n # m + 1
      <4>1. n \in 1 .. m /\ n \in 0 .. m /\ n - 1 \in 0 .. m BY <3>2
      <4> QED BY <4>1, <2>1, <2>5 DEF Recurs
    <3> QED BY <3>1, <3>2
  <2>8. g[0] = e BY <2>1, <2>5 DEF Recurs
  <2> QED BY <2>4, <2>7, <2>8 DEF Recurs
<1>3. \A m \in Nat : \E f : Upto(f, m)
  <2>1. Nat \subseteq S
    <3> HIDE DEF S
    <3> QED BY <1>1, <1>2, EveryNatural
  <2> QED BY <2>1
<1> DEFINE part(m) == CHOOSE f : Upto(f, m)
           whole == [n \in Nat |-> part(n)[n]]
<1>4. \A m \in Nat : Upto(part(m), m) BY <1>3
<1> HIDE DEF part
<1>5. whole \in [Nat -> V]
  <2>1. \A n \in Nat : part(n)[n] \in V BY <1>4
  <2> QED BY <2>1
<1>6. whole[0] = e BY <1>4 DEF Recurs
<1>7. ASSUME NEW n \in Nat \ {0} PROVE whole[n] = step[n][whole[n - 1]]
  <2>1. n - 1 \in Nat /\ n - 1 \in 0 .. n - 1 /\ n \in 1 .. n BY <1>7
  <2>2. Recurs(part(n), e, step, n - 1) /\ Recurs(part(n - 1), e, step, n - 1) BY <1>4, <2>1 DEF Recurs
  <2>3. part(n)[n - 1] = part(n - 1)[n - 1] BY <2>1, <2>2, RecursionIsUnique
  <2>4. part(n)[n] = step[n][part(n)[n - 1]] BY <1>4, <2>1 DEF Recurs
  <2> QED BY <2>1, <2>3, <2>4
<1> HIDE DEF whole
<1>8. \E f \in [Nat -> V] : f[0] = e /\ \A n \in Nat \ {0} : f[n] = step[n][f[n - 1]] BY <1>5, <1>6, <1>7
<1> QED BY <1>8 DEF Recursion

\* The same in a name, for steps on numbers, where the provers do not see through the lemma.
StepsAre(V, e, step, f) == f \in [Nat -> V] /\ f[0] = e /\ \A n \in Nat \ {0} : f[n] = step[n][f[n - 1]]

LEMMA RecursionSteps ==
    ASSUME NEW V, NEW e \in V, NEW step \in [Nat -> [V -> V]]
    PROVE  StepsAre(V, e, step, Recursion(V, e, step))
BY RecursionHolds DEF StepsAre
=============================================================================
