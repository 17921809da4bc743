------------------------- MODULE ReassemblyProofs -------------------------
(***************************************************************************)
(* Reassembly, for sequence numbers of any width, connections of any       *)
(* length in the window and queues of any size, whatever order, cut and    *)
(* copies the segments come in.                                            *)
(*                                                                         *)
(* A loop of the code keeps the stream sound and takes at least a piece    *)
(* off the queue, or reaches the segment, every time around: it ends, with *)
(* what its condition asks for no longer there.  Sound says where the      *)
(* stream stands in the sender's bytes, and Since what a segment has done  *)
(* to it so far.                                                           *)
(***************************************************************************)
EXTENDS Reassembly, SequenceTheorems, Induction, TLAPS
LOCAL INSTANCE SequencesExt

-----------------------------------------------------------------------------
\* Sequence numbers: those of a connection's bytes compare as their places do, wherever they wrap.

LEMMA Window ==
    /\ Mod \in Nat \ {0} /\ N \in Nat /\ 2 * (N + 1) < Mod /\ 2 * (Mod \div 2) = Mod
BY ReassemblyAssumption, ModAssumption

LEMMA ModOfSmall == ASSUME NEW M \in Nat \ {0}, NEW x \in 0 .. M - 1 PROVE x % M = x
OBVIOUS

LEMMA ModOfLarge == ASSUME NEW M \in Nat \ {0}, NEW x \in M .. 2 * M - 1 PROVE x % M = x - M
OBVIOUS

LEMMA ModOfNegative == ASSUME NEW M \in Nat \ {0}, NEW x \in -M .. -1 PROVE x % M = x + M
OBVIOUS

LEMMA PlusIs ==
    ASSUME NEW i \in Seqs, NEW a \in 0 .. N + 1
    PROVE  Plus(i, a) \in Seqs /\ Plus(i, a) = IF i + a < Mod THEN i + a ELSE i + a - Mod
<1>1. CASE i + a < Mod
  <2>1. i + a \in 0 .. Mod - 1 BY <1>1, Window DEF Seqs
  <2>2. (i + a) % Mod = i + a BY <2>1, Window, ModOfSmall
  <2> QED BY <1>1, <2>1, <2>2 DEF Plus, Seqs
<1>2. CASE ~(i + a < Mod)
  <2>1. i + a \in Mod .. 2 * Mod - 1 BY <1>2, Window DEF Seqs
  <2>2. (i + a) % Mod = (i + a) - Mod BY <2>1, Window, ModOfLarge
  <2>3. (i + a) - Mod \in 0 .. Mod - 1 BY <2>1, Window DEF Seqs
  <2>4. Plus(i, a) = (i + a) - Mod BY <2>2 DEF Plus
  <2>5. Plus(i, a) \in Seqs BY <2>3, <2>4 DEF Seqs
  <2>6. Plus(i, a) = IF i + a < Mod THEN i + a ELSE i + a - Mod
    BY <1>2, <2>4, Window DEF Seqs
  <2> QED BY <2>5, <2>6
<1> QED BY <1>1, <1>2

LEMMA PlusPlus ==
    ASSUME NEW i \in Seqs, NEW a \in Nat, NEW n \in Nat, a + n <= N + 1
    PROVE  Plus(Plus(i, a), n) = Plus(i, a + n)
<1>1. a \in 0 .. N + 1 /\ n \in 0 .. N + 1 /\ a + n \in 0 .. N + 1 BY Window
<1>2. Plus(i, a) \in Seqs BY <1>1, PlusIs
<1>3. Plus(i, a) = IF i + a < Mod THEN i + a ELSE i + a - Mod BY <1>1, PlusIs
<1>4. Plus(Plus(i, a), n) = IF Plus(i, a) + n < Mod THEN Plus(i, a) + n ELSE Plus(i, a) + n - Mod
  BY <1>1, <1>2, PlusIs
<1>5. Plus(i, a + n) = IF i + (a + n) < Mod THEN i + (a + n) ELSE i + (a + n) - Mod BY <1>1, PlusIs
<1> QED BY <1>1, <1>2, <1>3, <1>4, <1>5, Window DEF Seqs

LEMMA MinusIs ==
    ASSUME NEW i \in Seqs, NEW a \in 0 .. N + 1, NEW b \in 0 .. N + 1
    PROVE  Minus(Plus(i, a), Plus(i, b)) = IF b <= a THEN a - b ELSE a - b + Mod
<1> DEFINE x == Plus(i, a)
           y == Plus(i, b)
<1>1. x = IF i + a < Mod THEN i + a ELSE i + a - Mod BY PlusIs
<1>2. y = IF i + b < Mod THEN i + b ELSE i + b - Mod BY PlusIs
<1>3. x \in Seqs /\ y \in Seqs BY PlusIs
<1> HIDE DEF x, y
<1>4. x - y \in {a - b, a - b + Mod, a - b - Mod} BY <1>1, <1>2, Window DEF Seqs
<1>5. x - y \in -Mod + 1 .. Mod - 1 BY <1>3, Window DEF Seqs
<1>6. (x - y) % Mod = IF 0 <= x - y THEN x - y ELSE x - y + Mod
  <2>1. CASE 0 <= x - y
    <3>1. x - y \in 0 .. Mod - 1 BY <1>5, <2>1, Window
    <3> QED BY <2>1, <3>1, Window, ModOfSmall
  <2>2. CASE ~(0 <= x - y)
    <3>1. x - y \in -Mod .. -1 BY <1>5, <2>2, Window
    <3> QED BY <2>2, <3>1, Window, ModOfNegative
  <2> QED BY <2>1, <2>2
<1>7. a - b \in -(N + 1) .. N + 1 BY Window
<1>8. (x - y) % Mod = IF b <= a THEN a - b ELSE a - b + Mod BY <1>4, <1>5, <1>6, <1>7, Window
<1> QED BY <1>8 DEF Minus, x, y

LEMMA AfterIs ==
    ASSUME NEW i \in Seqs, NEW a \in 0 .. N + 1, NEW b \in 0 .. N + 1
    PROVE  After(Plus(i, a), Plus(i, b)) <=> a > b
<1>1. Minus(Plus(i, a), Plus(i, b)) = IF b <= a THEN a - b ELSE a - b + Mod BY MinusIs
<1>2. a - b \in -(N + 1) .. N + 1 BY Window
<1> QED BY <1>1, <1>2, Window DEF After

LEMMA PlusIsOneToOne ==
    ASSUME NEW i \in Seqs, NEW a \in 0 .. N + 1, NEW b \in 0 .. N + 1, Plus(i, a) = Plus(i, b)
    PROVE  a = b
<1>1. Minus(Plus(i, a), Plus(i, b)) = IF b <= a THEN a - b ELSE a - b + Mod BY MinusIs
<1>2. Minus(Plus(i, b), Plus(i, a)) = IF a <= b THEN b - a ELSE b - a + Mod BY MinusIs
<1>3. a \in Nat /\ b \in Nat BY Window
<1> DEFINE m == Minus(Plus(i, a), Plus(i, b))
<1>4. m = (IF b <= a THEN a - b ELSE a - b + Mod) /\ m = (IF a <= b THEN b - a ELSE b - a + Mod) BY <1>1, <1>2
<1> HIDE DEF m
<1>5. a - b \in -(N + 1) .. N + 1 BY Window
<1> QED BY <1>3, <1>4, <1>5, Window

-----------------------------------------------------------------------------
\* Loops.

\* f runs a loop: as long as it is at a member of On it steps, and On gets smaller; so after n
\* steps it is past On.
Lessens(V, On, size, n, f) ==
    \A k \in 1 .. n : f[k - 1] \in V =>
        IF f[k - 1] \in On THEN f[k] \in V /\ size[f[k]] < size[f[k - 1]] ELSE f[k] = f[k - 1]

LEMMA LoopEnds ==
    ASSUME NEW V, NEW On, NEW size \in [V -> Nat], NEW n \in Nat, NEW f,
           f[0] \in V, size[f[0]] <= n, \A x \in V : x \in On => size[x] > 0,
           Lessens(V, On, size, n, f)
    PROVE  f[n] \in V /\ f[n] \notin On
<1> DEFINE S == {k \in Nat : k <= n => f[k] \in V /\ (f[k] \in On => size[f[k]] + k <= n)}
<1>1. 0 \in S OBVIOUS
<1>2. ASSUME NEW k \in Nat, k \in S PROVE k + 1 \in S
  <2>1. CASE k + 1 <= n
    <3>1. k + 1 \in 1 .. n /\ (k + 1) - 1 = k /\ k <= n BY <2>1
    <3>2. f[k] \in V /\ (f[k] \in On => size[f[k]] + k <= n) BY <1>2, <3>1
    <3>3. IF f[k] \in On THEN f[k + 1] \in V /\ size[f[k + 1]] < size[f[k]] ELSE f[k + 1] = f[k]
      BY <3>1, <3>2 DEF Lessens
    <3>4. CASE f[k] \in On
      <4>1. size[f[k]] \in Nat /\ size[f[k + 1]] \in Nat BY <3>2, <3>3, <3>4
      <4> QED BY <3>2, <3>3, <3>4, <4>1
    <3>5. CASE f[k] \notin On BY <3>2, <3>3, <3>5
    <3> QED BY <3>4, <3>5
  <2>2. CASE ~(k + 1 <= n) BY <2>2
  <2> QED BY <2>1, <2>2
<1>3. Nat \subseteq S
  <2> HIDE DEF S
  <2> QED BY <1>1, <1>2, EveryNatural
<1>4. f[n] \in V /\ (f[n] \in On => size[f[n]] + n <= n) BY <1>3
<1>5. size[f[n]] \in Nat BY <1>4
<1> QED BY <1>4, <1>5

\* f is the run of a loop from s on, that stays in V.
RunsIn(V, s, next, n, f) ==
    f = [k \in 0 .. n |-> IF k = 0 THEN s ELSE next[f[k - 1]]] /\ \A k \in 0 .. n : f[k] \in V

LEMMA LoopRuns ==
    ASSUME NEW V, NEW s \in V, NEW next \in [V -> V], NEW n \in Nat
    PROVE  \E f : RunsIn(V, s, next, n, f)
<1> DEFINE step == [k \in Nat |-> next]
           r == Recursion(V, s, step)
           f == [k \in 0 .. n |-> r[k]]
<1>1. step \in [Nat -> [V -> V]] OBVIOUS
<1>2. r \in [Nat -> V] /\ r[0] = s /\ \A k \in Nat \ {0} : r[k] = step[k][r[k - 1]]
  <2> HIDE DEF step
  <2> QED BY <1>1, RecursionHolds
<1> HIDE DEF r
<1>3. \A k \in 0 .. n : f[k] \in V BY <1>2
<1>4. ASSUME NEW k \in 0 .. n PROVE f[k] = IF k = 0 THEN s ELSE next[f[k - 1]]
  <2>1. CASE k = 0 BY <1>2, <2>1
  <2>2. CASE k # 0
    <3>1. k \in Nat \ {0} /\ k - 1 \in 0 .. n BY <2>2
    <3> QED BY <1>2, <2>2, <3>1
  <2> QED BY <2>1, <2>2
<1>5. f = [k \in 0 .. n |-> IF k = 0 THEN s ELSE next[f[k - 1]]] BY <1>4
<1> HIDE DEF f
<1> QED BY <1>3, <1>5 DEF RunsIn

-----------------------------------------------------------------------------
\* Queues: the pieces held past a gap, of a connection that begins at i.

Pieces(i) == {pc \in [seq : Seqs, from : 0 .. N, len : 1 .. N, t : Times] :
                pc.from + pc.len <= N /\ pc.seq = Plus(i, pc.from)}

Before(a, b) == a.from < b.from \/ (a.from = b.from /\ a.len < b.len)

InOrder(h) == \A j, k \in DOMAIN h : j < k => Before(h[j], h[k])

Queues(i) == {h \in Seq(Pieces(i)) : InOrder(h)}

\* What s[k] is if it adds up the lengths of the first k pieces of h.
AddsUp(s, h) == s[0] = 0 /\ \A k \in 1 .. Len(h) : s[k] = s[k - 1] + h[k].len

LEMMA PieceIs ==
    ASSUME NEW i, NEW pc \in Pieces(i)
    PROVE  /\ pc.from \in Nat /\ pc.from \in 0 .. N /\ pc.len \in Nat /\ pc.len > 0
           /\ pc.from + pc.len <= N /\ pc.seq = Plus(i, pc.from) /\ pc.seq \in Seqs /\ pc.t \in Times
BY Window DEF Pieces

LEMMA PieceOf ==
    ASSUME NEW i, NEW h \in Seq(Pieces(i)), NEW k \in DOMAIN h PROVE h[k] \in Pieces(i)
OBVIOUS

LEMMA SomethingAddsUp ==
    ASSUME NEW i, NEW h \in Seq(Pieces(i))
    PROVE  \E s \in [Nat -> Nat] : AddsUp(s, h)
<1> DEFINE more(k) == IF k \in DOMAIN h THEN h[k].len ELSE 0
           step == [k \in Nat |-> [v \in Nat |-> v + more(k)]]
           s == Recursion(Nat, 0, step)
<1>1. \A k \in Nat : more(k) \in Nat BY PieceOf, PieceIs
<1>2. \A k \in 1 .. Len(h) : more(k) = h[k].len OBVIOUS
<1> HIDE DEF more
<1>3. step \in [Nat -> [Nat -> Nat]]
  <2>1. ASSUME NEW k \in Nat PROVE [v \in Nat |-> v + more(k)] \in [Nat -> Nat] BY <1>1
  <2> QED BY <2>1
<1>4. \A k, v \in Nat : step[k][v] = v + more(k) OBVIOUS
<1> HIDE DEF step
<1>5. StepsAre(Nat, 0, step, s) BY <1>3, RecursionSteps
<1> HIDE DEF s
<1>8. s \in [Nat -> Nat] /\ s[0] = 0 /\ \A k \in Nat \ {0} : s[k] = step[k][s[k - 1]] BY <1>5 DEF StepsAre
<1>6. ASSUME NEW k \in 1 .. Len(h) PROVE s[k] = s[k - 1] + h[k].len
  <2>1. k \in Nat \ {0} /\ k - 1 \in Nat OBVIOUS
  <2>2. s[k - 1] \in Nat BY <1>8, <2>1
  <2> QED BY <1>2, <1>4, <1>8, <2>1, <2>2
<1>7. AddsUp(s, h) BY <1>8, <1>6 DEF AddsUp
<1> QED BY <1>8, <1>7

LEMMA LenSumIs ==
    ASSUME NEW i, NEW h \in Seq(Pieces(i)), NEW s, AddsUp(s, h)
    PROVE  LenSum(h) = s[Len(h)]
<1> DEFINE Sums(f) == f = [k \in 0 .. Len(h) |-> IF k = 0 THEN 0 ELSE f[k - 1] + h[k].len]
           f == [k \in 0 .. Len(h) |-> s[k]]
           g == CHOOSE q : Sums(q)
<1>1. Sums(f)
  <2>1. ASSUME NEW k \in 0 .. Len(h) PROVE f[k] = IF k = 0 THEN 0 ELSE f[k - 1] + h[k].len
    <3>1. CASE k = 0 BY <3>1 DEF AddsUp
    <3>2. CASE k # 0
      <4>1. k \in 1 .. Len(h) /\ k - 1 \in 0 .. Len(h) BY <3>2
      <4> QED BY <3>2, <4>1 DEF AddsUp
    <3> QED BY <3>1, <3>2
  <2> QED BY <2>1
<1> HIDE DEF f
<1>2. Sums(g) BY <1>1
<1>3. LenSum(h) = g[Len(h)] BY DEF LenSum
<1> HIDE DEF g
<1> DEFINE S == {k \in Nat : k <= Len(h) => g[k] = s[k]}
<1>4. 0 \in S BY <1>2 DEF AddsUp
<1>5. ASSUME NEW k \in Nat, k \in S PROVE k + 1 \in S
  <2>1. CASE k + 1 <= Len(h)
    <3>1. k + 1 \in 1 .. Len(h) /\ k + 1 \in 0 .. Len(h) /\ (k + 1) - 1 = k /\ k + 1 # 0 /\ k <= Len(h) BY <2>1
    <3>2. g[k + 1] = g[k] + h[k + 1].len BY <1>2, <3>1
    <3>3. s[k + 1] = s[k] + h[k + 1].len BY <3>1 DEF AddsUp
    <3>4. g[k] = s[k] BY <1>5, <3>1
    <3> QED BY <3>2, <3>3, <3>4
  <2>2. CASE ~(k + 1 <= Len(h)) BY <2>2
  <2> QED BY <2>1, <2>2
<1>6. Nat \subseteq S
  <2> HIDE DEF S
  <2> QED BY <1>4, <1>5, EveryNatural
<1> QED BY <1>3, <1>6

LEMMA LenSumIsNat == ASSUME NEW i, NEW h \in Seq(Pieces(i)) PROVE LenSum(h) \in Nat
<1>1. PICK s \in [Nat -> Nat] : AddsUp(s, h) BY SomethingAddsUp
<1>2. LenSum(h) = s[Len(h)] BY <1>1, LenSumIs
<1> QED BY <1>2

LEMMA TailOfQueue ==
    ASSUME NEW i, NEW h \in Queues(i), h # <<>>
    PROVE  /\ Tail(h) \in Queues(i) /\ Head(h) = h[1] /\ 1 \in DOMAIN h /\ h[1] \in Pieces(i)
           /\ Len(Tail(h)) = Len(h) - 1 /\ Len(h) > 0
           /\ \A k \in 1 .. Len(h) - 1 : Tail(h)[k] = h[k + 1]
           /\ LenSum(h) \in Nat /\ LenSum(Tail(h)) = LenSum(h) - h[1].len
           /\ h[1].len <= LenSum(h)
<1>1. h \in Seq(Pieces(i)) /\ InOrder(h) BY DEF Queues
<1>2. Len(h) \in Nat /\ Len(h) > 0 /\ 1 \in DOMAIN h /\ h[1] \in Pieces(i) /\ Head(h) = h[1] BY <1>1
<1> DEFINE g == Tail(h)
<1>3. g \in Seq(Pieces(i)) /\ Len(g) = Len(h) - 1 /\ \A k \in 1 .. Len(h) - 1 : g[k] = h[k + 1] BY <1>1, <1>2
<1> HIDE DEF g
<1>4. InOrder(g)
  <2>1. \A j \in DOMAIN g : j \in 1 .. Len(h) - 1 /\ j + 1 \in DOMAIN h BY <1>1, <1>2, <1>3
  <2>2. ASSUME NEW j \in DOMAIN g, NEW k \in DOMAIN g, j < k PROVE Before(g[j], g[k])
    <3>1. j + 1 \in DOMAIN h /\ k + 1 \in DOMAIN h /\ j + 1 < k + 1 BY <2>1, <2>2
    <3>2. Before(h[j + 1], h[k + 1]) BY <1>1, <3>1 DEF InOrder
    <3> QED BY <1>3, <2>1, <3>2
  <2> QED BY <2>2 DEF InOrder
<1>5. PICK s \in [Nat -> Nat] : AddsUp(s, h) BY <1>1, SomethingAddsUp
<1>6. LenSum(h) = s[Len(h)] BY <1>1, <1>5, LenSumIs
<1>7. s[1] = h[1].len
  <2>1. 1 \in 1 .. Len(h) /\ 1 - 1 = 0 BY <1>2
  <2>2. s[1] = s[0] + h[1].len /\ s[0] = 0 BY <1>5, <2>1 DEF AddsUp
  <2>3. h[1].len \in Nat BY <1>2, PieceIs
  <2> QED BY <2>2, <2>3
<1> DEFINE r == [k \in Nat |-> s[k + 1] - s[1]]
<1>8. AddsUp(r, g)
  <2>1. r[0] = 0 OBVIOUS
  <2>2. ASSUME NEW k \in 1 .. Len(g) PROVE r[k] = r[k - 1] + g[k].len
    <3>1. k \in 1 .. Len(h) - 1 /\ k + 1 \in 1 .. Len(h) /\ (k + 1) - 1 = k BY <1>2, <1>3
    <3>2. s[k + 1] = s[k] + h[k + 1].len BY <1>5, <3>1 DEF AddsUp
    <3>3. g[k] = h[k + 1] BY <1>3, <3>1
    <3>4. k \in Nat /\ k - 1 \in Nat /\ (k - 1) + 1 = k BY <3>1
    <3>5. r[k] = s[k + 1] - s[1] /\ r[k - 1] = s[k] - s[1] BY <3>4
    <3>6. g[k] \in Pieces(i) BY <1>3, PieceOf
    <3>7. g[k].len \in Nat BY <3>6, PieceIs
    <3>8. s[k] \in Nat /\ s[1] \in Nat BY <3>4
    <3> DEFINE n == g[k].len
    <3>9. r[k] = (s[k] + n) - s[1] BY <3>2, <3>3, <3>5
    <3>10. n \in Nat BY <3>7
    <3> HIDE DEF r, n
    <3>11. r[k] = r[k - 1] + n BY <3>5, <3>8, <3>9, <3>10
    <3> QED BY <3>11 DEF n
  <2> HIDE DEF r
  <2> QED BY <2>1, <2>2 DEF AddsUp
<1>9. LenSum(g) = r[Len(g)]
  <2> HIDE DEF r
  <2> QED BY <1>3, <1>8, LenSumIs
<1>10. LenSum(g) = LenSum(h) - h[1].len BY <1>2, <1>3, <1>6, <1>7, <1>9
<1>11. LenSum(g) \in Nat BY <1>3, LenSumIsNat
<1>12. LenSum(h) \in Nat BY <1>1, LenSumIsNat
<1>13. h[1].len \in Nat BY <1>2, PieceIs
<1>14. h[1].len <= LenSum(h)
  <2> DEFINE n == h[1].len
             m == LenSum(h)
             l == LenSum(g)
  <2>1. l = m - n /\ l \in Nat /\ m \in Nat /\ n \in Nat BY <1>10, <1>11, <1>12, <1>13
  <2> HIDE DEF n, m, l
  <2>2. n <= m BY <2>1
  <2> QED BY <2>2 DEF n, m
<1> QED BY <1>1, <1>2, <1>3, <1>4, <1>10, <1>12, <1>14 DEF g, Queues

\* A piece put in at q.
LEMMA InsertAtIs ==
    ASSUME NEW i, NEW h \in Seq(Pieces(i)), NEW q \in 1 .. Len(h) + 1, NEW pc \in Pieces(i)
    PROVE  LET g == InsertAt(h, q, pc)
           IN  /\ g \in Seq(Pieces(i)) /\ Len(g) = Len(h) + 1
               /\ \A k \in 1 .. Len(h) + 1 :
                      g[k] = IF k < q THEN h[k] ELSE IF k = q THEN pc ELSE h[k - 1]
<1> DEFINE a == SubSeq(h, 1, q - 1)
           c == SubSeq(h, q, Len(h))
<1>1. a \in Seq(Pieces(i)) /\ Len(a) = q - 1 /\ \A k \in 1 .. q - 1 : a[k] = h[k]
  <2>1. \A k \in 1 .. q - 1 : h[k] \in Pieces(i) OBVIOUS
  <2>2. 1 \in Int /\ q - 1 \in Int OBVIOUS
  <2> QED BY <2>1, <2>2, SubSeqProperties
<1>2. c \in Seq(Pieces(i)) /\ Len(c) = Len(h) - q + 1 /\ \A k \in 1 .. Len(h) - q + 1 : c[k] = h[q + k - 1]
  <2>1. \A k \in q .. Len(h) : h[k] \in Pieces(i) OBVIOUS
  <2>2. q \in Int /\ Len(h) \in Int OBVIOUS
  <2> QED BY <2>1, <2>2, SubSeqProperties
<1> HIDE DEF a, c
<1> DEFINE d == a \o <<pc>>
           g == d \o c
<1>3. d \in Seq(Pieces(i)) /\ Len(d) = q /\ \A k \in 1 .. q : d[k] = IF k < q THEN h[k] ELSE pc BY <1>1
<1> HIDE DEF d
<1>4. g \in Seq(Pieces(i)) /\ Len(g) = Len(h) + 1 BY <1>2, <1>3
<1>5. ASSUME NEW k \in 1 .. Len(h) + 1
      PROVE g[k] = IF k < q THEN h[k] ELSE IF k = q THEN pc ELSE h[k - 1]
  <2>1. CASE k <= q BY <1>2, <1>3, <2>1
  <2>2. CASE k > q
    <3>1. k - q \in 1 .. Len(h) - q + 1 /\ q + (k - q) - 1 = k - 1 /\ k > Len(d) BY <1>3, <2>2
    <3>2. g[k] = c[k - q] BY <1>2, <1>3, <3>1
    <3> QED BY <1>2, <2>2, <3>1, <3>2
  <2>3. k <= q \/ k > q BY <1>3
  <2> HIDE DEF g
  <2> QED BY <2>1, <2>2, <2>3
<1>6. InsertAt(h, q, pc) = g BY DEF InsertAt, g, d, a, c
<1> HIDE DEF g
<1> QED BY <1>4, <1>5, <1>6

\* There is a place for a piece, behind those that do not come after it.
LEMMA SlotIs ==
    ASSUME NEW i, NEW x, x.held \in Queues(i), NEW pc
    PROVE  LET q == Slot(x, pc)
           IN  /\ q \in 0 .. Len(x.held)
               /\ q > 0 => ~After(x.held[q].seq, pc.seq)
               /\ \A j \in q + 1 .. Len(x.held) : After(x.held[j].seq, pc.seq)
<1> DEFINE h == x.held
           S == {q \in 0 .. Len(h) : \A j \in q + 1 .. Len(h) : After(h[j].seq, pc.seq)}
<1>1. Len(h) \in Nat BY DEF Queues
<1>2. Len(h) \in S BY <1>1
<1>3. S \in SUBSET Nat BY <1>1
<1>4. PICK q \in S : \A m \in S : q <= m
  <2> HIDE DEF S
  <2> QED BY <1>2, <1>3, LeastNatural
<1>5. q > 0 => ~After(h[q].seq, pc.seq)
  <2>1. SUFFICES ASSUME q > 0, After(h[q].seq, pc.seq) PROVE FALSE OBVIOUS
  <2>2. q - 1 \in 0 .. Len(h) /\ ~(q <= q - 1) BY <1>1, <2>1
  <2>3. \A j \in (q - 1) + 1 .. Len(h) : j = q \/ j \in q + 1 .. Len(h) BY <1>1
  <2>4. q - 1 \in S BY <2>1, <2>2, <2>3
  <2> QED BY <1>4, <2>2, <2>4
<1>6. q \in 0 .. Len(h) /\ \A j \in q + 1 .. Len(h) : After(h[j].seq, pc.seq) OBVIOUS
<1> QED BY <1>5, <1>6 DEF Slot

Inserted(x, pc) == InsertAt(x.held, Slot(x, pc) + 1, pc)

\* In order a piece goes where the slot is, but for a copy of the one before it.
LEMMA QueueGrows ==
    ASSUME NEW i \in Seqs, NEW x, x.held \in Queues(i), NEW pc \in Pieces(i), ~IsRetransmit(x, pc)
    PROVE  LET g == Inserted(x, pc)
           IN  /\ g \in Queues(i) /\ Len(g) = Len(x.held) + 1
               /\ LenSum(g) = LenSum(x.held) + pc.len
               /\ \A j \in DOMAIN x.held : \E k \in DOMAIN g : g[k] = x.held[j]
               /\ \A k \in DOMAIN g : g[k] = pc \/ \E j \in DOMAIN x.held : g[k] = x.held[j]
               /\ \E k \in DOMAIN g : g[k] = pc
<1>17. Inserted(x, pc) = InsertAt(x.held, Slot(x, pc) + 1, pc) BY DEF Inserted
<1> DEFINE h == x.held
           q == Slot(x, pc)
           g == InsertAt(h, q + 1, pc)
<1>1. h \in Seq(Pieces(i)) /\ InOrder(h) /\ Len(h) \in Nat BY DEF Queues
<1>2. /\ q \in 0 .. Len(h) /\ (q > 0 => ~After(h[q].seq, pc.seq))
      /\ \A j \in q + 1 .. Len(h) : After(h[j].seq, pc.seq) BY SlotIs
<1>3. q > 0 => ~(h[q].seq = pc.seq /\ h[q].len >= pc.len) BY DEF IsRetransmit
<1> HIDE DEF q
<1>4. q + 1 \in 1 .. Len(h) + 1 BY <1>1, <1>2
<1>5. /\ g \in Seq(Pieces(i)) /\ Len(g) = Len(h) + 1
      /\ \A k \in 1 .. Len(h) + 1 :
             g[k] = IF k < q + 1 THEN h[k] ELSE IF k = q + 1 THEN pc ELSE h[k - 1]
  <2> DEFINE m == q + 1
  <2>1. m \in 1 .. Len(h) + 1 BY <1>4
  <2> HIDE DEF h, m
  <2>2. h \in Seq(Pieces(i)) BY <1>1
  <2> DEFINE gm == InsertAt(h, m, pc)
  <2>3. /\ gm \in Seq(Pieces(i)) /\ Len(gm) = Len(h) + 1
        /\ \A k \in 1 .. Len(h) + 1 : gm[k] = IF k < m THEN h[k] ELSE IF k = m THEN pc ELSE h[k - 1]
    BY <2>1, <2>2, InsertAtIs
  <2>4. gm = g BY DEF m
  <2> HIDE DEF gm, g
  <2> QED BY <2>3, <2>4 DEF m
<1> HIDE DEF g
<1>6. pc.from \in 0 .. N + 1 /\ pc.seq = Plus(i, pc.from) /\ pc.len \in Nat /\ pc.from \in Nat BY PieceIs, Window
<1>7. \A j \in 1 .. Len(h) : /\ h[j].from \in 0 .. N + 1 /\ h[j].seq = Plus(i, h[j].from)
                             /\ h[j].len \in Nat /\ h[j].from \in Nat
  <2>1. TAKE j \in 1 .. Len(h)
  <2>2. h[j] \in Pieces(i) BY <1>1
  <2> QED BY <2>2, PieceIs, Window
<1>8. \A j \in 1 .. Len(h) : After(h[j].seq, pc.seq) <=> h[j].from > pc.from
  <2>1. TAKE j \in 1 .. Len(h)
  <2> QED BY <1>6, <1>7, AfterIs
<1>9. ASSUME NEW j \in q + 1 .. Len(h) PROVE Before(pc, h[j])
  <2>1. j \in 1 .. Len(h) BY <1>1, <1>2
  <2> QED BY <1>2, <1>8, <2>1, <1>6, <1>7 DEF Before
<1>10. ASSUME q > 0 PROVE Before(h[q], pc)
  <2>1. q \in 1 .. Len(h) BY <1>1, <1>2, <1>10
  <2>2. ~(h[q].from > pc.from) BY <1>2, <1>8, <1>10, <2>1
  <2>3. h[q].from = pc.from => h[q].seq = pc.seq BY <1>6, <1>7, <2>1
  <2> QED BY <1>3, <1>6, <1>7, <1>10, <2>1, <2>2, <2>3 DEF Before
<1>11. ASSUME NEW j \in 1 .. q PROVE Before(h[j], pc)
  <2>1. q > 0 /\ j \in 1 .. Len(h) /\ q \in 1 .. Len(h) BY <1>1, <1>2
  <2>2. j < q => Before(h[j], h[q]) BY <1>1, <2>1 DEF InOrder
  <2>3. Before(h[q], pc) BY <1>10, <2>1
  <2> QED BY <1>2, <1>6, <1>7, <2>1, <2>2, <2>3 DEF Before
<1>12. InOrder(g)
  <2>1. SUFFICES ASSUME NEW j \in 1 .. Len(h) + 1, NEW k \in 1 .. Len(h) + 1, j < k
                 PROVE  Before(g[j], g[k])
    BY <1>5 DEF InOrder
  <2>2. CASE k < q + 1
    <3>1. j < q + 1 /\ j \in DOMAIN h /\ k \in DOMAIN h BY <1>1, <1>2, <2>1, <2>2
    <3>2. g[j] = h[j] /\ g[k] = h[k] BY <1>5, <2>2, <3>1
    <3> QED BY <1>1, <2>1, <3>1, <3>2 DEF InOrder
  <2>3. CASE k = q + 1
    <3>1. j < q + 1 /\ j \in 1 .. q BY <1>1, <1>2, <2>1, <2>3
    <3>2. g[j] = h[j] /\ g[k] = pc BY <1>5, <2>3, <3>1
    <3> QED BY <1>11, <3>1, <3>2
  <2>4. CASE k > q + 1
    <3>1. k - 1 \in q + 1 .. Len(h) /\ k - 1 \in DOMAIN h BY <1>1, <1>2, <2>1, <2>4
    <3>2. g[k] = h[k - 1] BY <1>2, <1>5, <2>4
    <3>3. CASE j < q + 1
      <4>1. g[j] = h[j] /\ j \in DOMAIN h /\ j < k - 1 BY <1>1, <1>2, <1>5, <2>4, <3>1, <3>3
      <4> QED BY <1>1, <3>1, <3>2, <4>1 DEF InOrder
    <3>4. CASE j = q + 1
      <4>1. g[j] = pc BY <1>5, <3>4
      <4> QED BY <1>9, <3>1, <3>2, <4>1
    <3>5. CASE j > q + 1
      <4>1. g[j] = h[j - 1] /\ j - 1 \in DOMAIN h /\ j - 1 < k - 1 BY <1>1, <1>2, <1>5, <2>1, <3>5
      <4> QED BY <1>1, <3>1, <3>2, <4>1 DEF InOrder
    <3> QED BY <1>2, <3>3, <3>4, <3>5
  <2> QED BY <1>2, <2>2, <2>3, <2>4
<1>13. LenSum(g) = LenSum(h) + pc.len
  <2>1. PICK s \in [Nat -> Nat] : AddsUp(s, h) BY <1>1, SomethingAddsUp
  <2>2. LenSum(h) = s[Len(h)] BY <1>1, <2>1, LenSumIs
  <2> DEFINE r == [k \in Nat |-> IF k < q + 1 THEN s[k] ELSE s[k - 1] + pc.len]
  <2>3. r[0] = 0 BY <1>2, <2>1 DEF AddsUp
  <2>4. ASSUME NEW k \in 1 .. Len(h) + 1 PROVE r[k] = r[k - 1] + g[k].len
    <3>1. k \in Nat /\ k - 1 \in Nat /\ q \in Nat BY <1>1, <1>2
    <3>2. CASE k < q + 1
      <4>1. k \in 1 .. Len(h) /\ k - 1 < q + 1 /\ g[k] = h[k]
        <5> HIDE DEF r, h
        <5>1. k \in 1 .. Len(h) /\ k - 1 < q + 1 BY <1>1, <1>2, <3>1, <3>2
        <5>2. g[k] = h[k] BY <1>5, <3>2
        <5> QED BY <5>1, <5>2
      <4>2. s[k] = s[k - 1] + h[k].len BY <2>1, <4>1 DEF AddsUp
      <4>3. r[k] = s[k] /\ r[k - 1] = s[k - 1] BY <3>1, <3>2, <4>1
      <4> QED BY <4>1, <4>2, <4>3
    <3>3. CASE k = q + 1
      <4>1. k - 1 < q + 1 /\ ~(k < q + 1) BY <3>1, <3>3
      <4>4. g[k] = pc
        <5> HIDE DEF r
        <5> QED BY <1>5, <3>3, <4>1
      <4>2. r[k] = s[k - 1] + pc.len BY <3>1, <4>1
      <4>3. r[k - 1] = s[k - 1] BY <3>1, <4>1
      <4>5. r[k] = r[k - 1] + pc.len
        <5> HIDE DEF r
        <5> QED BY <4>2, <4>3
      <4> QED BY <4>4, <4>5
    <3>4. CASE k > q + 1
      <4>1. k - 1 \in 1 .. Len(h) /\ ~(k < q + 1) /\ ~(k - 1 < q + 1) /\ g[k] = h[k - 1] BY <1>1, <1>2, <1>5, <3>4
      <4>2. k - 2 \in Nat /\ (k - 1) - 1 = k - 2 BY <4>1
      <4>3. s[k - 1] = s[k - 2] + h[k - 1].len BY <2>1, <4>1, <4>2 DEF AddsUp
      <4>4. r[k] = s[k - 1] + pc.len /\ r[k - 1] = s[k - 2] + pc.len BY <3>1, <4>1, <4>2
      <4>5. s[k - 2] \in Nat /\ s[k - 1] \in Nat /\ h[k - 1].len \in Nat BY <1>7, <3>1, <4>1, <4>2
      <4> HIDE DEF r
      <4> DEFINE n == h[k - 1].len
                 l == pc.len
                 s1 == s[k - 1]
                 s2 == s[k - 2]
                 r1 == r[k]
                 r2 == r[k - 1]
      <4>6. s1 = s2 + n /\ n \in Nat /\ l \in Nat /\ s2 \in Nat /\ r1 = s1 + l /\ r2 = s2 + l
        BY <1>6, <4>3, <4>4, <4>5
      <4> HIDE DEF n, l, s1, s2, r1, r2
      <4>7. r1 = r2 + n BY <4>6
      <4> QED BY <4>1, <4>7 DEF n, r1, r2
    <3> QED BY <3>1, <3>2, <3>3, <3>4
  <2>5. r[Len(h) + 1] = s[Len(h)] + pc.len BY <1>1, <1>2
  <2> HIDE DEF r
  <2>6. AddsUp(r, g) BY <1>5, <2>3, <2>4 DEF AddsUp
  <2>7. LenSum(g) = r[Len(g)] BY <1>5, <2>6, LenSumIs
  <2> QED BY <1>5, <2>2, <2>5, <2>7
<1>14. \A j \in DOMAIN h : \E k \in DOMAIN g : g[k] = h[j]
  <2>1. TAKE j \in DOMAIN h
  <2>2. CASE j < q + 1
    <3>1. j \in DOMAIN g /\ g[j] = h[j] BY <1>1, <1>5, <2>2
    <3> QED BY <3>1
  <2>3. CASE ~(j < q + 1)
    <3>1. j + 1 \in DOMAIN g /\ (j + 1) - 1 = j /\ ~(j + 1 < q + 1) /\ j + 1 # q + 1 BY <1>1, <1>2, <1>5, <2>3
    <3>2. g[j + 1] = h[j] BY <1>1, <1>5, <3>1
    <3> QED BY <3>1, <3>2
  <2> QED BY <2>2, <2>3
<1>15. \A k \in DOMAIN g : g[k] = pc \/ \E j \in DOMAIN h : g[k] = h[j]
  <2>1. TAKE k \in DOMAIN g
  <2>2. k \in 1 .. Len(h) + 1 BY <1>1, <1>5
  <2>3. CASE k < q + 1 BY <1>1, <1>2, <1>5, <2>2, <2>3
  <2>4. CASE k = q + 1 BY <1>5, <2>2, <2>4
  <2>5. CASE k > q + 1
    <3>1. k - 1 \in DOMAIN h /\ g[k] = h[k - 1] BY <1>1, <1>2, <1>5, <2>2, <2>5
    <3> QED BY <3>1
  <2> QED BY <1>2, <2>2, <2>3, <2>4, <2>5
<1>16. q + 1 \in DOMAIN g /\ g[q + 1] = pc BY <1>1, <1>4, <1>5
<1> QED BY <1>5, <1>12, <1>13, <1>14, <1>15, <1>16, <1>17 DEF Queues, g, q

-----------------------------------------------------------------------------
\* Streams.

\* What the framer is told: of bytes that are where it has counted to.
Events == {e \in [kind : {"open", "write", "lose", "close"}, at : 0 .. N, from : 0 .. N, len : 0 .. N] :
             e.from = e.at /\ e.at + e.len <= N}

\* Of a connection that begins at i: the number the stream waits for is that of the place it has
\* come to, its queue is in order and the bytes it counts are those of the queue.
Shapes(i) == [made : {TRUE}, synced : {TRUE}, next : Seqs, syn : Seqs, held : Queues(i), heldBytes : Nat,
              conn : 1 .. MaxConns, start : 0 .. N, pos : 0 .. N, out : Seq(Events)]

Sounds(i) == {x \in Shapes(i) : x.next = Plus(i, x.pos) /\ x.heldBytes = LenSum(x.held)}

\* Past a gap only.
Ahead(x) == \A k \in DOMAIN x.held : x.held[k].from > x.pos

Fits(x) == Len(x.held) <= MaxHeld /\ x.heldBytes <= MaxHeldBytes

Young(x, t) == \A k \in DOMAIN x.held : t - x.held[k].t < MaxGapWait

SameStream(x, y) == y.conn = x.conn /\ y.start = x.start /\ y.syn = x.syn

\* x comes of b by being told of bytes: each once, none of them held and lost, none forgotten.
Since(b, x) ==
    /\ SameStream(b, x)
    /\ b.pos <= x.pos
    /\ Opened(x) <=> Opened(b)
    /\ Told(x, "write") \cup Told(x, "lose") = b.pos .. x.pos - 1
    /\ Told(x, "write") \cap Told(x, "lose") = {}
    /\ Told(x, "lose") \cap HeldBytesOf(b.held) = {}
    /\ \A c \in HeldBytesOf(b.held) : c < x.pos \/ c \in HeldBytesOf(x.held)

\* y has what is left of x's queue, further on.
Past(x, y) ==
    /\ x.pos <= y.pos /\ y.heldBytes <= x.heldBytes /\ Len(y.held) <= Len(x.held)
    /\ \A k \in 1 .. Len(y.held) : y.held[k] = x.held[k + (Len(x.held) - Len(y.held))]

LEMMA StreamIs ==
    ASSUME NEW i, NEW x \in Sounds(i)
    PROVE  /\ x.made = TRUE /\ x.synced = TRUE /\ x.next \in Seqs /\ x.syn \in Seqs
           /\ x.held \in Queues(i) /\ x.held \in Seq(Pieces(i)) /\ Len(x.held) \in Nat
           /\ x.heldBytes \in Nat /\ x.heldBytes = LenSum(x.held)
           /\ x.start \in 0 .. N /\ x.pos \in 0 .. N /\ x.pos \in Nat /\ x.pos <= N
           /\ x.conn \in 1 .. MaxConns /\ x.out \in Seq(Events) /\ x.next = Plus(i, x.pos)
<1>1. x \in Shapes(i) /\ x.next = Plus(i, x.pos) /\ x.heldBytes = LenSum(x.held) BY DEF Sounds
<1>2. x.held \in Queues(i) BY <1>1 DEF Shapes
<1>3. x.held \in Seq(Pieces(i)) /\ Len(x.held) \in Nat BY <1>2 DEF Queues
<1>4. x.pos \in 0 .. N /\ x.pos \in Nat /\ x.pos <= N BY <1>1, Window DEF Shapes
<1> QED BY <1>1, <1>2, <1>3, <1>4 DEF Shapes

LEMMA EventIs ==
    ASSUME NEW e \in Events
    PROVE  /\ e.from = e.at /\ e.from \in 0 .. N /\ e.len \in 0 .. N /\ e.from + e.len <= N
           /\ e.from \in Nat /\ e.len \in Nat
BY Window DEF Events

\* One more thing told.
LEMMA ToldMore ==
    ASSUME NEW x, NEW y, NEW e \in Events, x.out \in Seq(Events), y.out = Append(x.out, e)
    PROVE  /\ \A kind : Told(y, kind) = Told(x, kind) \cup
                           (IF e.kind = kind THEN e.from .. e.from + e.len - 1 ELSE {})
           /\ Opened(y) <=> (Opened(x) \/ e.kind = "open")
<1> DEFINE o == x.out
           p == y.out
           n == Len(o) + 1
<1>1. n \in Nat /\ DOMAIN o = 1 .. Len(o) /\ DOMAIN p = 1 .. n /\ p[n] = e /\ \A k \in DOMAIN o : p[k] = o[k]
  OBVIOUS
<1>2. \A k \in DOMAIN p : k = n \/ k \in DOMAIN o BY <1>1
<1>3. \A k \in DOMAIN o : k \in DOMAIN p BY <1>1
<1>4. n \in DOMAIN p BY <1>1
<1> HIDE DEF o, p, n
<1>5. ASSUME NEW kind
      PROVE  Told(y, kind) = Told(x, kind) \cup (IF e.kind = kind THEN e.from .. e.from + e.len - 1 ELSE {})
  BY <1>1, <1>2, <1>3, <1>4 DEF Told, o, p
<1>6. Opened(y) <=> (Opened(x) \/ e.kind = "open") BY <1>1, <1>2, <1>3, <1>4 DEF Opened, o, p
<1> QED BY <1>5, <1>6

\* A write at the place the stream has come to.
LEMMA WriteIs ==
    ASSUME NEW i \in Seqs, NEW x \in Sounds(i), NEW len \in Nat, x.pos + len <= N
    PROVE  LET y == Write(x, x.pos, len)
           IN  /\ y \in Sounds(i) /\ y.pos = x.pos + len /\ y.held = x.held /\ y.heldBytes = x.heldBytes
               /\ SameStream(x, y) /\ (Opened(y) <=> Opened(x))
               /\ Told(y, "write") = Told(x, "write") \cup (x.pos .. x.pos + len - 1)
               /\ Told(y, "lose") = Told(x, "lose")
<1> DEFINE e == [kind |-> "write", at |-> x.pos, from |-> x.pos, len |-> len]
           y == Write(x, x.pos, len)
<1>1. x \in Shapes(i) BY DEF Sounds
<1>2. x.pos \in Nat /\ x.out \in Seq(Events) /\ x.heldBytes = LenSum(x.held) /\ x.pos \in 0 .. N
      /\ x.next = Plus(i, x.pos) BY StreamIs
<1>3. e \in Events BY <1>2, Window DEF Events
<1>4. e.kind = "write" /\ e.from = x.pos /\ e.len = len OBVIOUS
<1>5. Append(x.out, e) \in Seq(Events)
  <2> HIDE DEF e
  <2> QED BY <1>2, <1>3
<1>6. x.pos + len \in 0 .. N BY <1>2, Window
<1>7. Plus(Plus(i, x.pos), len) = Plus(i, x.pos + len) BY <1>2, PlusPlus, Window
<1>8. Plus(i, x.pos + len) \in Seqs BY <1>6, PlusIs, Window
<1>9. y = [x EXCEPT !.next = Plus(@, len), !.pos = @ + len, !.out = Append(@, e)] BY DEF Write
<1> HIDE DEF e, y
<1>10. /\ y \in Shapes(i) /\ y.next = Plus(x.next, len) /\ y.pos = x.pos + len /\ y.out = Append(x.out, e)
       /\ y.held = x.held /\ y.heldBytes = x.heldBytes /\ SameStream(x, y)
  BY <1>1, <1>2, <1>5, <1>6, <1>7, <1>8, <1>9 DEF Shapes, SameStream
<1>11. y \in Sounds(i) BY <1>2, <1>7, <1>10 DEF Sounds
<1>12. /\ Opened(y) <=> Opened(x)
       /\ Told(y, "write") = Told(x, "write") \cup (x.pos .. x.pos + len - 1)
       /\ Told(y, "lose") = Told(x, "lose")
  <2>1. /\ \A kind : Told(y, kind) = Told(x, kind) \cup
                           (IF e.kind = kind THEN e.from .. e.from + e.len - 1 ELSE {})
        /\ Opened(y) <=> (Opened(x) \/ e.kind = "open") BY <1>2, <1>3, <1>10, ToldMore
  <2>2. Told(y, "write") = Told(x, "write") \cup (x.pos .. x.pos + len - 1) BY <1>4, <2>1
  <2>3. Told(y, "lose") = Told(x, "lose") BY <1>4, <2>1
  <2> QED BY <1>4, <2>1, <2>2, <2>3
<1> QED BY <1>10, <1>11, <1>12 DEF y

\* A loss up to the place of some byte, from which on the stream goes on.
LEMMA LoseIs ==
    ASSUME NEW i \in Seqs, NEW x \in Sounds(i), NEW c \in Nat, x.pos <= c, c <= N
    PROVE  LET to == Plus(i, c)
               y  == [Lose(x, Minus(to, x.next)) EXCEPT !.next = to]
           IN  /\ y \in Sounds(i) /\ y.pos = c /\ y.held = x.held /\ y.heldBytes = x.heldBytes
               /\ SameStream(x, y) /\ (Opened(y) <=> Opened(x))
               /\ Told(y, "write") = Told(x, "write")
               /\ Told(y, "lose") = Told(x, "lose") \cup (x.pos .. c - 1)
<1> DEFINE to == Plus(i, c)
           len == Minus(to, x.next)
           e == [kind |-> "lose", at |-> x.pos, from |-> x.pos, len |-> len]
           z == Lose(x, len)
           y == [z EXCEPT !.next = to]
<1>1. x \in Shapes(i) BY DEF Sounds
<1>2. x.pos \in Nat /\ x.out \in Seq(Events) /\ x.heldBytes = LenSum(x.held) /\ x.pos \in 0 .. N
      /\ x.next = Plus(i, x.pos) BY StreamIs
<1>3. len = c - x.pos BY <1>2, MinusIs, Window
<1>4. to \in Seqs BY PlusIs, Window
<1>5. z = [x EXCEPT !.pos = @ + len, !.out = Append(@, e)] BY DEF Lose
<1>6. e.kind = "lose" /\ e.from = x.pos /\ e.len = len OBVIOUS
<1> HIDE DEF to, len
<1>7. e \in Events BY <1>2, <1>3, Window DEF Events
<1>8. Append(x.out, e) \in Seq(Events)
  <2> HIDE DEF e
  <2> QED BY <1>2, <1>7
<1>9. x.pos + len = c /\ c \in 0 .. N BY <1>2, <1>3, Window
<1> HIDE DEF e, z
<1>10. /\ z \in Shapes(i) /\ z.pos = c /\ z.out = Append(x.out, e)
       /\ z.held = x.held /\ z.heldBytes = x.heldBytes /\ SameStream(x, z)
  BY <1>1, <1>2, <1>5, <1>8, <1>9 DEF Shapes, SameStream
<1>11. /\ y \in Shapes(i) /\ y.next = to /\ y.pos = c /\ y.out = Append(x.out, e)
       /\ y.held = x.held /\ y.heldBytes = x.heldBytes /\ SameStream(x, y)
  BY <1>4, <1>10 DEF Shapes, SameStream
<1> HIDE DEF y
<1>12. y \in Sounds(i) BY <1>2, <1>11 DEF Sounds, to
<1>13. /\ Opened(y) <=> Opened(x)
       /\ Told(y, "write") = Told(x, "write")
       /\ Told(y, "lose") = Told(x, "lose") \cup (x.pos .. c - 1)
  <2>1. /\ \A kind : Told(y, kind) = Told(x, kind) \cup
                           (IF e.kind = kind THEN e.from .. e.from + e.len - 1 ELSE {})
        /\ Opened(y) <=> (Opened(x) \/ e.kind = "open") BY <1>2, <1>7, <1>11, ToldMore
  <2>2. Told(y, "lose") = Told(x, "lose") \cup (x.pos .. x.pos + len - 1) BY <1>6, <2>1
  <2>3. Told(y, "write") = Told(x, "write") BY <1>6, <2>1
  <2>4. x.pos + len - 1 = c - 1 BY <1>2, <1>3, <1>9
  <2>6. Told(y, "lose") = Told(x, "lose") \cup (x.pos .. c - 1) BY <2>2, <2>4
  <2>5. Opened(y) <=> Opened(x) BY <1>6, <2>1
  <2> QED BY <2>3, <2>5, <2>6
<1> QED BY <1>11, <1>12, <1>13 DEF y, z, to, len

\* The first piece taken off.
LEMMA DropIs ==
    ASSUME NEW i, NEW x \in Sounds(i), x.held # <<>>
    PROVE  LET y == [x EXCEPT !.heldBytes = @ - Head(x.held).len, !.held = Tail(@)]
           IN  /\ y \in Sounds(i) /\ y.pos = x.pos /\ y.held = Tail(x.held) /\ y.heldBytes <= x.heldBytes
               /\ SameStream(x, y) /\ (Opened(y) <=> Opened(x))
               /\ Told(y, "write") = Told(x, "write") /\ Told(y, "lose") = Told(x, "lose")
<1> DEFINE n == Head(x.held).len
           y == [x EXCEPT !.heldBytes = @ - n, !.held = Tail(@)]
<1>1. x \in Shapes(i) BY DEF Sounds
<1>2. x.heldBytes \in Nat /\ x.heldBytes = LenSum(x.held) /\ x.held \in Queues(i) /\ x.next = Plus(i, x.pos) BY StreamIs
<1>3. /\ Tail(x.held) \in Queues(i) /\ LenSum(Tail(x.held)) = LenSum(x.held) - n /\ n <= LenSum(x.held) /\ n \in Nat
  BY <1>2, TailOfQueue, PieceIs
<1> HIDE DEF n
<1>4. x.heldBytes - n \in Nat /\ x.heldBytes - n <= x.heldBytes BY <1>2, <1>3
<1>5. /\ y \in Shapes(i) /\ y.pos = x.pos /\ y.held = Tail(x.held) /\ y.heldBytes = x.heldBytes - n
      /\ y.next = x.next /\ y.out = x.out /\ SameStream(x, y)
  BY <1>1, <1>3, <1>4 DEF Shapes, SameStream
<1> HIDE DEF y
<1>6. y \in Sounds(i) BY <1>2, <1>3, <1>5 DEF Sounds
<1>7. Opened(y) <=> Opened(x) BY <1>5 DEF Opened
<1>8. Told(y, "write") = Told(x, "write") /\ Told(y, "lose") = Told(x, "lose") BY <1>5 DEF Told
<1> QED BY <1>4, <1>5, <1>6, <1>7, <1>8 DEF y, n

-----------------------------------------------------------------------------
\* What a step of a loop does to what the stream came of.

LEMMA HeldByte == ASSUME NEW h, NEW c PROVE c \in HeldBytesOf(h) <=> \E k \in DOMAIN h : c \in BytesOf(h[k])
BY DEF HeldBytesOf

LEMMA HeldByteIs ==
    ASSUME NEW i, NEW h \in Seq(Pieces(i)), NEW c \in HeldBytesOf(h)
    PROVE  c \in Nat /\ c \in 0 .. N - 1
<1>1. PICK k \in DOMAIN h : c \in BytesOf(h[k]) BY HeldByte
<1>2. h[k] \in Pieces(i) OBVIOUS
<1>3. h[k].from \in Nat /\ h[k].len \in Nat /\ h[k].from + h[k].len <= N BY <1>2, PieceIs
<1> DEFINE f == h[k].from
           l == h[k].len
<1>4. c \in f .. f + l - 1 BY <1>1 DEF BytesOf
<1>5. f \in Nat /\ l \in Nat /\ f + l <= N BY <1>3
<1> HIDE DEF f, l
<1> QED BY <1>4, <1>5, Window

LEMMA SinceWrite ==
    ASSUME NEW i, NEW b \in Sounds(i), NEW x \in Sounds(i), NEW y, NEW len \in Nat, Since(b, x),
           SameStream(x, y), y.pos = x.pos + len, y.held = x.held, Opened(y) <=> Opened(x),
           Told(y, "write") = Told(x, "write") \cup (x.pos .. x.pos + len - 1),
           Told(y, "lose") = Told(x, "lose")
    PROVE  Since(b, y)
<1> DEFINE W == Told(x, "write")
           L == Told(x, "lose")
           H == HeldBytesOf(b.held)
<1>1. /\ SameStream(b, x) /\ b.pos <= x.pos /\ (Opened(x) <=> Opened(b))
      /\ W \cup L = b.pos .. x.pos - 1 /\ W \cap L = {} /\ L \cap H = {}
      /\ \A c \in H : c < x.pos \/ c \in HeldBytesOf(x.held)
  BY DEF Since
<1>0. b.pos \in Nat /\ x.pos \in Nat /\ b.held \in Seq(Pieces(i)) BY StreamIs
<1>2. y.pos \in Nat /\ x.pos <= y.pos /\ b.pos <= y.pos BY <1>0, <1>1
<1>3. Told(y, "write") = W \cup (x.pos .. y.pos - 1) /\ Told(y, "lose") = L BY <1>0
<1>8. \A c \in H : c \in Nat BY <1>0, HeldByteIs
<1> HIDE DEF W, L, H
<1>4. SameStream(b, y) BY <1>1 DEF SameStream
<1>5. Told(y, "write") \cup Told(y, "lose") = b.pos .. y.pos - 1 BY <1>0, <1>1, <1>2, <1>3
<1>6. Told(y, "write") \cap Told(y, "lose") = {} BY <1>0, <1>1, <1>2, <1>3
<1>7. \A c \in H : c < y.pos \/ c \in HeldBytesOf(y.held)
  <2>1. TAKE c \in H
  <2>2. CASE c < x.pos BY <1>0, <1>2, <1>8, <2>2
  <2>3. CASE c \in HeldBytesOf(x.held) BY <2>3
  <2> QED BY <1>1, <2>2, <2>3
<1> QED BY <1>1, <1>2, <1>3, <1>4, <1>5, <1>6, <1>7 DEF Since, H

LEMMA SinceLose ==
    ASSUME NEW i, NEW b \in Sounds(i), NEW x \in Sounds(i), NEW y, NEW c \in Nat, x.pos <= c, Since(b, x),
           SameStream(x, y), y.pos = c, y.held = x.held, Opened(y) <=> Opened(x),
           \A k \in DOMAIN x.held : x.held[k].from >= c,
           Told(y, "write") = Told(x, "write"),
           Told(y, "lose") = Told(x, "lose") \cup (x.pos .. c - 1)
    PROVE  Since(b, y)
<1> DEFINE W == Told(x, "write")
           L == Told(x, "lose")
           H == HeldBytesOf(b.held)
           G == HeldBytesOf(x.held)
<1>0. b.pos \in Nat /\ x.pos \in Nat /\ b.held \in Seq(Pieces(i)) /\ x.held \in Seq(Pieces(i)) BY StreamIs
<1>1. /\ SameStream(b, x) /\ b.pos <= x.pos /\ (Opened(x) <=> Opened(b))
      /\ W \cup L = b.pos .. x.pos - 1 /\ W \cap L = {} /\ L \cap H = {}
      /\ \A z \in H : z < x.pos \/ z \in G
  BY DEF Since
<1>2. Told(y, "write") = W /\ Told(y, "lose") = L \cup (x.pos .. c - 1) OBVIOUS
<1>3. \A z \in H : z \in Nat BY <1>0, HeldByteIs
<1>4. ASSUME NEW z \in G PROVE z >= c /\ z \in Nat
  <2>1. PICK k \in DOMAIN x.held : z \in BytesOf(x.held[k]) BY HeldByte
  <2>2. x.held[k] \in Pieces(i) BY <1>0
  <2> DEFINE f == x.held[k].from
  <2>3. f \in Nat /\ f >= c BY <2>2, PieceIs
  <2>4. z \in Nat BY <1>0, HeldByteIs
  <2>5. z >= f BY <2>1 DEF BytesOf
  <2> HIDE DEF f
  <2> QED BY <2>3, <2>4, <2>5
<1>5. HeldBytesOf(y.held) = G OBVIOUS
<1> HIDE DEF W, L, H, G
<1>6. SameStream(b, y) BY <1>1 DEF SameStream
<1>7. b.pos <= y.pos BY <1>0, <1>1
<1>8. Told(y, "write") \cup Told(y, "lose") = b.pos .. y.pos - 1 BY <1>0, <1>1, <1>2
<1>9. Told(y, "write") \cap Told(y, "lose") = {} BY <1>0, <1>1, <1>2
<1>10. Told(y, "lose") \cap H = {}
  <2>1. SUFFICES ASSUME NEW z \in x.pos .. c - 1, z \in H PROVE FALSE BY <1>1, <1>2
  <2>2. ~(z < x.pos) /\ ~(z >= c) BY <1>0
  <2> QED BY <1>1, <1>4, <2>1, <2>2
<1>11. \A z \in H : z < y.pos \/ z \in HeldBytesOf(y.held)
  <2>1. TAKE z \in H
  <2>2. CASE z < x.pos BY <1>0, <1>3, <2>2
  <2>3. CASE z \in G BY <1>5, <2>3
  <2> QED BY <1>1, <2>2, <2>3
<1> QED BY <1>1, <1>6, <1>7, <1>8, <1>9, <1>10, <1>11 DEF Since, H

LEMMA SinceDrop ==
    ASSUME NEW i, NEW b \in Sounds(i), NEW x \in Sounds(i), NEW y, Since(b, x), x.held # <<>>,
           SameStream(x, y), y.pos = x.pos, y.held = Tail(x.held), Opened(y) <=> Opened(x),
           Head(x.held).from + Head(x.held).len <= x.pos,
           Told(y, "write") = Told(x, "write"), Told(y, "lose") = Told(x, "lose")
    PROVE  Since(b, y)
<1>0. b.pos \in Nat /\ x.pos \in Nat /\ x.held \in Queues(i) BY StreamIs
<1>1. /\ SameStream(b, x) /\ b.pos <= x.pos /\ (Opened(x) <=> Opened(b))
      /\ Told(x, "write") \cup Told(x, "lose") = b.pos .. x.pos - 1
      /\ Told(x, "write") \cap Told(x, "lose") = {} /\ Told(x, "lose") \cap HeldBytesOf(b.held) = {}
      /\ \A z \in HeldBytesOf(b.held) : z < x.pos \/ z \in HeldBytesOf(x.held)
  BY DEF Since
<1>2. /\ Head(x.held) = x.held[1] /\ Len(Tail(x.held)) = Len(x.held) - 1 /\ Len(x.held) \in Nat
      /\ \A k \in 1 .. Len(x.held) - 1 : Tail(x.held)[k] = x.held[k + 1]
      /\ DOMAIN Tail(x.held) = 1 .. Len(x.held) - 1 /\ x.held[1] \in Pieces(i) /\ DOMAIN x.held = 1 .. Len(x.held)
  BY <1>0, TailOfQueue DEF Queues
<1>3. ASSUME NEW z \in HeldBytesOf(x.held) PROVE z < x.pos \/ z \in HeldBytesOf(y.held)
  <2>1. PICK k \in DOMAIN x.held : z \in BytesOf(x.held[k]) BY HeldByte
  <2>2. CASE k = 1
    <3> DEFINE f == x.held[1].from
               l == x.held[1].len
    <3>1. z \in f .. f + l - 1 BY <2>1, <2>2 DEF BytesOf
    <3>2. f \in Nat /\ l \in Nat BY <1>2, PieceIs
    <3>3. f + l <= x.pos BY <1>2
    <3> HIDE DEF f, l
    <3> QED BY <1>0, <3>1, <3>2, <3>3
  <2>3. CASE k # 1
    <3>1. k - 1 \in DOMAIN y.held /\ y.held[k - 1] = x.held[k] BY <1>2, <2>3
    <3>2. z \in BytesOf(y.held[k - 1]) BY <2>1, <3>1
    <3> QED BY <3>1, <3>2, HeldByte
  <2> QED BY <2>2, <2>3
<1>4. SameStream(b, y) BY <1>1 DEF SameStream
<1> QED BY <1>1, <1>3, <1>4 DEF Since

LEMMA PastSame ==
    ASSUME NEW i, NEW x \in Sounds(i), NEW y \in Sounds(i), x.pos <= y.pos, y.heldBytes <= x.heldBytes,
           y.held = x.held
    PROVE  Past(x, y)
<1>1. Len(x.held) \in Nat BY StreamIs
<1>2. \A k \in 1 .. Len(x.held) : k + (Len(x.held) - Len(x.held)) = k BY <1>1
<1> QED BY <1>1, <1>2 DEF Past

LEMMA PastItself == ASSUME NEW i, NEW x \in Sounds(i) PROVE Past(x, x)
<1>1. x.pos \in Nat /\ x.heldBytes \in Nat BY StreamIs
<1>2. x.pos <= x.pos /\ x.heldBytes <= x.heldBytes BY <1>1
<1> QED BY <1>2, PastSame

LEMMA PastPast ==
    ASSUME NEW i, NEW x \in Sounds(i), NEW y \in Sounds(i), NEW z \in Sounds(i), Past(x, y), Past(y, z)
    PROVE  Past(x, z)
<1>1. /\ Len(x.held) \in Nat /\ Len(y.held) \in Nat /\ Len(z.held) \in Nat
      /\ x.pos \in Nat /\ y.pos \in Nat /\ z.pos \in Nat
      /\ x.heldBytes \in Nat /\ y.heldBytes \in Nat /\ z.heldBytes \in Nat BY StreamIs
<1>2. x.pos <= z.pos /\ z.heldBytes <= x.heldBytes /\ Len(z.held) <= Len(x.held) BY <1>1 DEF Past
<1>3. ASSUME NEW k \in 1 .. Len(z.held) PROVE z.held[k] = x.held[k + (Len(x.held) - Len(z.held))]
  <2> DEFINE j == k + (Len(y.held) - Len(z.held))
             lx == Len(x.held)
             ly == Len(y.held)
             lz == Len(z.held)
  <2>1. z.held[k] = y.held[j] BY DEF Past
  <2>5. lx \in Nat /\ ly \in Nat /\ lz \in Nat /\ lz <= ly /\ k \in 1 .. lz BY <1>1 DEF Past
  <2>6. j = k + (ly - lz) OBVIOUS
  <2> HIDE DEF lx, ly, lz, j
  <2>7. j \in 1 .. ly /\ j + (lx - ly) = k + (lx - lz) BY <2>5, <2>6
  <2> USE DEF lx, ly, lz
  <2>2. j \in 1 .. Len(y.held) BY <2>7
  <2>3. j + (Len(x.held) - Len(y.held)) = k + (Len(x.held) - Len(z.held)) BY <2>7
  <2> HIDE DEF j
  <2>4. y.held[j] = x.held[j + (Len(x.held) - Len(y.held))] BY <2>2 DEF Past
  <2> QED BY <2>1, <2>3, <2>4
<1> QED BY <1>2, <1>3 DEF Past

\* What is left of a queue is of it.
LEMMA PastHas ==
    ASSUME NEW i, NEW x \in Sounds(i), NEW y \in Sounds(i), Past(x, y), NEW k \in DOMAIN y.held
    PROVE  \E j \in DOMAIN x.held : y.held[k] = x.held[j]
<1> DEFINE j == k + (Len(x.held) - Len(y.held))
<1>1. Len(x.held) \in Nat /\ Len(y.held) \in Nat /\ DOMAIN y.held = 1 .. Len(y.held)
      /\ DOMAIN x.held = 1 .. Len(x.held) BY StreamIs
<1>2. j \in DOMAIN x.held
  <2> DEFINE lx == Len(x.held)
             ly == Len(y.held)
  <2>1. lx \in Nat /\ ly \in Nat /\ ly <= lx /\ k \in 1 .. ly BY <1>1 DEF Past
  <2>2. j = k + (lx - ly) OBVIOUS
  <2> HIDE DEF lx, ly, j
  <2>3. j \in 1 .. lx BY <2>1, <2>2
  <2> QED BY <1>1, <2>3 DEF lx
<1>3. y.held[k] = x.held[j] BY <1>1 DEF Past
<1> QED BY <1>2, <1>3

-----------------------------------------------------------------------------
\* release and skip.

LEMMA FirstIs ==
    ASSUME NEW i \in Seqs, NEW x \in Sounds(i), x.held # <<>>
    PROVE  /\ Head(x.held) = x.held[1] /\ 1 \in DOMAIN x.held /\ Head(x.held) \in Pieces(i)
           /\ After(Head(x.held).seq, x.next) <=> Head(x.held).from > x.pos
           /\ \A k \in DOMAIN x.held : Head(x.held).from <= x.held[k].from
<1>1. x.held \in Queues(i) /\ x.pos \in 0 .. N /\ x.next = Plus(i, x.pos) BY StreamIs
<1>2. Head(x.held) = x.held[1] /\ 1 \in DOMAIN x.held /\ x.held[1] \in Pieces(i) BY <1>1, TailOfQueue
<1>3. Head(x.held).from \in 0 .. N /\ Head(x.held).seq = Plus(i, Head(x.held).from) BY <1>2, PieceIs
<1>4. After(Head(x.held).seq, x.next) <=> Head(x.held).from > x.pos BY <1>1, <1>3, AfterIs, Window
<1>5. ASSUME NEW k \in DOMAIN x.held PROVE Head(x.held).from <= x.held[k].from
  <2>1. x.held \in Seq(Pieces(i)) /\ InOrder(x.held) BY <1>1 DEF Queues
  <2>2. CASE k = 1 BY <1>2, <1>3, <2>2, Window
  <2>3. CASE k # 1
    <3>1. 1 < k BY <2>1, <2>3
    <3>2. Before(x.held[1], x.held[k]) BY <1>2, <2>1, <3>1 DEF InOrder
    <3>3. x.held[k] \in Pieces(i) BY <2>1
    <3>4. x.held[k].from \in Nat /\ x.held[1].from \in Nat BY <1>2, <3>3, PieceIs
    <3> QED BY <1>2, <3>2, <3>4 DEF Before
  <2> QED BY <2>2, <2>3
<1> QED BY <1>2, <1>4, <1>5

\* What releasing and its steps make of x.
Released(b, x, y) == Since(b, y) /\ Past(x, y) /\ Told(y, "lose") = Told(x, "lose")

LEMMA TakeFirstIs ==
    ASSUME NEW i \in Seqs, NEW b \in Sounds(i), NEW x \in Sounds(i), Since(b, x), FirstInOrder(x)
    PROVE  LET y == TakeFirst(x)
           IN  y \in Sounds(i) /\ Released(b, x, y) /\ Len(y.held) = Len(x.held) - 1
<1> DEFINE pc == Head(x.held)
           old == Minus(x.next, pc.seq)
           s1 == IF old < pc.len THEN Write(x, pc.from + old, pc.len - old) ELSE x
           y == [s1 EXCEPT !.heldBytes = @ - Head(s1.held).len, !.held = Tail(@)]
<1>1. x.held # <<>> /\ ~After(pc.seq, x.next) BY DEF FirstInOrder
<1>2. x.pos \in 0 .. N /\ x.pos \in Nat /\ x.next = Plus(i, x.pos) /\ x.held \in Queues(i) /\ x.heldBytes \in Nat BY StreamIs
<1>3. /\ pc \in Pieces(i) /\ pc.from \in Nat /\ pc.from \in 0 .. N /\ pc.len \in Nat /\ pc.from + pc.len <= N
      /\ pc.seq = Plus(i, pc.from) /\ ~(pc.from > x.pos)
  BY <1>1, FirstIs, PieceIs
<1>4. old = x.pos - pc.from BY <1>2, <1>3, MinusIs, Window
<1> DEFINE f == pc.from
           l == pc.len
<1>5. f \in Nat /\ l \in Nat /\ f + l <= N /\ f <= x.pos /\ old = x.pos - f BY <1>2, <1>3, <1>4
<1> HIDE DEF f, l, old
<1>6. s1 = IF old < l THEN Write(x, f + old, l - old) ELSE x BY DEF f, l
<1> HIDE DEF s1
<1>7. /\ s1 \in Sounds(i) /\ Since(b, s1) /\ s1.held = x.held /\ SameStream(x, s1)
      /\ Past(x, s1) /\ Told(s1, "lose") = Told(x, "lose") /\ f + l <= s1.pos
  <2>1. CASE old < l
    <3>1. f + old = x.pos /\ l - old \in Nat /\ x.pos + (l - old) = f + l BY <1>2, <1>5, <2>1
    <3> DEFINE n == l - old
    <3>2. s1 = Write(x, x.pos, n) BY <1>6, <2>1, <3>1
    <3>3. n \in Nat /\ x.pos + n = f + l /\ x.pos + n <= N BY <1>5, <3>1
    <3> HIDE DEF n
    <3>4. /\ s1 \in Sounds(i) /\ s1.pos = x.pos + n /\ s1.held = x.held /\ s1.heldBytes = x.heldBytes
          /\ SameStream(x, s1) /\ (Opened(s1) <=> Opened(x))
          /\ Told(s1, "write") = Told(x, "write") \cup (x.pos .. x.pos + n - 1)
          /\ Told(s1, "lose") = Told(x, "lose")
      BY <3>2, <3>3, WriteIs
    <3>5. Since(b, s1) BY <3>3, <3>4, SinceWrite
    <3>6. x.pos <= s1.pos /\ s1.heldBytes <= x.heldBytes /\ f + l <= s1.pos BY <1>2, <1>5, <3>3, <3>4
    <3>7. Past(x, s1) BY <3>4, <3>6, PastSame
    <3> QED BY <3>4, <3>5, <3>6, <3>7
  <2>2. CASE ~(old < l)
    <3>1. s1 = x BY <1>6, <2>2
    <3>2. f + l <= x.pos BY <1>2, <1>5, <2>2
    <3> QED BY <3>1, <3>2, PastItself DEF SameStream
  <2> QED BY <2>1, <2>2
<1>8. s1.held # <<>> /\ Head(s1.held).from + Head(s1.held).len <= s1.pos BY <1>1, <1>7 DEF f, l
<1> HIDE DEF y
<1>9. /\ y \in Sounds(i) /\ y.pos = s1.pos /\ y.held = Tail(s1.held) /\ y.heldBytes <= s1.heldBytes
      /\ SameStream(s1, y) /\ (Opened(y) <=> Opened(s1))
      /\ Told(y, "write") = Told(s1, "write") /\ Told(y, "lose") = Told(s1, "lose")
  BY <1>7, <1>8, DropIs DEF y
<1>10. Since(b, y) BY <1>7, <1>8, <1>9, SinceDrop
<1>11. /\ Len(y.held) = Len(x.held) - 1 /\ Len(x.held) \in Nat /\ Len(x.held) > 0
       /\ \A k \in 1 .. Len(x.held) - 1 : y.held[k] = x.held[k + 1]
  BY <1>1, <1>2, <1>7, <1>9, TailOfQueue DEF Queues
<1>12. Past(x, y)
  <2>1. x.pos <= y.pos BY <1>7, <1>9 DEF Past
  <2>2. s1.heldBytes \in Nat /\ y.heldBytes \in Nat BY <1>7, <1>9, StreamIs
  <2>3. y.heldBytes <= x.heldBytes BY <1>2, <1>7, <1>9, <2>2 DEF Past
  <2>4. Len(y.held) <= Len(x.held) /\ Len(x.held) - Len(y.held) = 1 BY <1>11
  <2>5. ASSUME NEW k \in 1 .. Len(y.held) PROVE y.held[k] = x.held[k + (Len(x.held) - Len(y.held))]
    BY <1>11, <2>4
  <2> QED BY <2>1, <2>3, <2>4, <2>5 DEF Past
<1>13. TakeFirst(x) = y
  <2>1. TakeFirst(x) = [s1 EXCEPT !.heldBytes = @ - pc.len, !.held = Tail(@)] BY DEF TakeFirst, s1, old
  <2> QED BY <1>7, <2>1 DEF y
<1> QED BY <1>7, <1>9, <1>10, <1>11, <1>12, <1>13 DEF Released

\* release keeps the stream sound, and ends with the queue past a gap.
LEMMA ReleaseIs ==
    ASSUME NEW i \in Seqs, NEW b \in Sounds(i), NEW x \in Sounds(i), Since(b, x)
    PROVE  LET y == Release(x)
           IN  /\ y \in Sounds(i) /\ Ahead(y) /\ Released(b, x, y)
               /\ FirstInOrder(x) => Len(y.held) < Len(x.held)
<1> DEFINE V == {y \in Sounds(i) : Released(b, x, y)}
           On == {y \in V : FirstInOrder(y)}
           n == Len(x.held)
           next == [y \in V |-> IF FirstInOrder(y) THEN TakeFirst(y) ELSE y]
           size == [y \in V |-> Len(y.held)]
           Runs(f) == f = [k \in 0 .. n |-> IF k = 0 THEN x
                               ELSE IF FirstInOrder(f[k - 1]) THEN TakeFirst(f[k - 1]) ELSE f[k - 1]]
           g == CHOOSE f : Runs(f)
<1>1. x \in V BY PastItself DEF Released
<1>2. n \in Nat BY StreamIs
<1>3. ASSUME NEW y \in V, FirstInOrder(y)
      PROVE  TakeFirst(y) \in V /\ Len(TakeFirst(y).held) < Len(y.held) /\ Len(y.held) > 0
  <2>1. Since(b, y) /\ y \in Sounds(i) /\ Past(x, y) /\ Told(y, "lose") = Told(x, "lose") BY DEF Released
  <2> DEFINE z == TakeFirst(y)
  <2>2. z \in Sounds(i) /\ Released(b, y, z) /\ Len(z.held) = Len(y.held) - 1 BY <1>3, <2>1, TakeFirstIs
  <2> HIDE DEF z
  <2>3. Past(x, z) BY <2>1, <2>2, PastPast DEF Released
  <2>4. Len(y.held) \in Nat /\ Len(z.held) \in Nat BY <2>1, <2>2, StreamIs
  <2>5. Released(b, x, z) BY <2>1, <2>2, <2>3 DEF Released
  <2> QED BY <2>2, <2>4, <2>5 DEF z
<1>4. \A y \in V : Len(y.held) \in Nat /\ y \in Sounds(i) /\ Released(b, x, y) BY StreamIs
<1>5. \A y \in On : y \in V /\ FirstInOrder(y) OBVIOUS
<1>6. \A y \in V : FirstInOrder(y) => y \in On OBVIOUS
<1> HIDE DEF V, On
<1>7. next \in [V -> V] BY <1>3
<1>8. size \in [V -> Nat] BY <1>4
<1>9. \E f : Runs(f)
  <2>4. PICK f : RunsIn(V, x, next, n, f)
    <3> HIDE DEF n, next
    <3> QED BY <1>1, <1>2, <1>7, LoopRuns
  <2>1. f = [k \in 0 .. n |-> IF k = 0 THEN x ELSE next[f[k - 1]]] /\ \A k \in 0 .. n : f[k] \in V
    <3> HIDE DEF n, next
    <3> QED BY <2>4 DEF RunsIn
  <2>2. ASSUME NEW k \in 0 .. n, k # 0
        PROVE  next[f[k - 1]] = IF FirstInOrder(f[k - 1]) THEN TakeFirst(f[k - 1]) ELSE f[k - 1]
    <3>1. k - 1 \in 0 .. n BY <1>2, <2>2
    <3> QED BY <2>1, <3>1
  <2> HIDE DEF next
  <2>3. Runs(f) BY <2>1, <2>2
  <2> QED BY <2>3
<1>10. Runs(g) BY <1>9
<1>11. Release(x) = g[n] BY DEF Release, While
<1> HIDE DEF g
<1>12. g[0] = x BY <1>2, <1>10
<1>13. ASSUME NEW k \in 1 .. n, g[k - 1] \in V
       PROVE  IF g[k - 1] \in On THEN g[k] \in V /\ size[g[k]] < size[g[k - 1]] ELSE g[k] = g[k - 1]
  <2>1. g[k] = IF FirstInOrder(g[k - 1]) THEN TakeFirst(g[k - 1]) ELSE g[k - 1] BY <1>2, <1>10
  <2>2. CASE g[k - 1] \in On
    <3>1. g[k] = TakeFirst(g[k - 1]) BY <1>5, <2>1, <2>2
    <3> QED BY <1>3, <1>5, <1>13, <2>2, <3>1
  <2>3. CASE g[k - 1] \notin On BY <1>6, <1>13, <2>1, <2>3
  <2> QED BY <2>2, <2>3
<1>14. \A y \in V : y \in On => size[y] > 0 BY <1>3, <1>5
<1>15. size[g[0]] <= n BY <1>1, <1>2, <1>12
<1>16. g[n] \in V /\ g[n] \notin On
  <2>1. Lessens(V, On, size, n, g) BY <1>13 DEF Lessens
  <2> HIDE DEF n, size
  <2> QED BY <1>1, <1>2, <1>8, <1>12, <1>14, <1>15, <2>1, LoopEnds
<1> DEFINE y == Release(x)
<1>17. y \in Sounds(i) /\ Released(b, x, y) /\ ~FirstInOrder(y) BY <1>4, <1>6, <1>11, <1>16
<1> HIDE DEF y
<1>18. Ahead(y)
  <2>1. CASE y.held = <<>> BY <2>1 DEF Ahead
  <2>2. CASE y.held # <<>>
    <3>1. Head(y.held).from > y.pos BY <1>17, <2>2, FirstIs DEF FirstInOrder
    <3>2. ASSUME NEW k \in DOMAIN y.held PROVE y.held[k].from > y.pos
      <4>1. Head(y.held).from <= y.held[k].from /\ Head(y.held) \in Pieces(i) BY <1>17, <2>2, FirstIs
      <4>2. y.held[k] \in Pieces(i) /\ y.pos \in Nat BY <1>17, StreamIs, PieceOf
      <4>3. y.held[k].from \in Nat /\ Head(y.held).from \in Nat BY <4>1, <4>2, PieceIs
      <4> QED BY <3>1, <4>1, <4>2, <4>3
    <3> QED BY <3>2 DEF Ahead
  <2> QED BY <2>1, <2>2
<1>19. ASSUME FirstInOrder(x) PROVE Len(y.held) < Len(x.held)
  <2>1. SUFFICES ASSUME ~(Len(y.held) < Len(x.held)) PROVE FALSE OBVIOUS
  <2>2. Len(y.held) \in Nat /\ x.pos \in Nat /\ y.pos \in Nat BY <1>17, StreamIs
  <2>3. Past(x, y) /\ x.pos <= y.pos BY <1>17 DEF Released, Past
  <2>4. Len(y.held) = Len(x.held) BY <1>2, <2>1, <2>2, <2>3 DEF Past
  <2>5. x.held # <<>> /\ ~(Head(x.held).from > x.pos) BY <1>19, FirstIs DEF FirstInOrder
  <2>6. 1 \in DOMAIN x.held /\ Head(x.held) = x.held[1] /\ x.held[1] \in Pieces(i) BY <2>5, FirstIs
  <2>7. 1 \in 1 .. Len(y.held) /\ 1 + (Len(x.held) - Len(y.held)) = 1 BY <1>2, <2>4, <2>6, StreamIs
  <2>8. y.held[1] = x.held[1]
    <3>1. \A k \in 1 .. Len(y.held) : y.held[k] = x.held[k + (Len(x.held) - Len(y.held))] BY <2>3 DEF Past
    <3>2. y.held[1] = x.held[1 + (Len(x.held) - Len(y.held))] BY <2>7, <3>1
    <3> QED BY <2>7, <3>2
  <2>9. 1 \in DOMAIN y.held
    <3>1. y.held \in Seq(Pieces(i)) BY <1>17, StreamIs
    <3> QED BY <2>7, <3>1
  <2>10. x.held[1].from > y.pos BY <1>18, <2>8, <2>9 DEF Ahead
  <2>11. x.held[1].from \in Nat BY <2>6, PieceIs
  <2> QED BY <2>2, <2>3, <2>5, <2>6, <2>10, <2>11
<1> QED BY <1>17, <1>18, <1>19 DEF y

\* skip gives up the gap before a byte, but no further than the first held piece.
LEMMA SkipIs ==
    ASSUME NEW i \in Seqs, NEW b \in Sounds(i), NEW x \in Sounds(i), Since(b, x), Ahead(x),
           NEW a \in Nat, x.pos <= a, a <= N
    PROVE  LET y == Skip(x, Plus(i, a))
           IN  /\ y \in Sounds(i) /\ Ahead(y) /\ Since(b, y) /\ Past(x, y)
               /\ \A z \in Told(y, "lose") : z \in Told(x, "lose") \/ z < a
               /\ IF x.held # <<>> /\ Head(x.held).from <= a THEN Len(y.held) < Len(x.held) ELSE y.pos >= a
<1> DEFINE first == x.held # <<>> /\ Head(x.held).from < a
           c == IF first THEN Head(x.held).from ELSE a
           to == IF x.held # <<>> /\ After(Plus(i, a), Head(x.held).seq) THEN Head(x.held).seq ELSE Plus(i, a)
           z == [Lose(x, Minus(to, x.next)) EXCEPT !.next = to]
           y == Release(z)
<1>1. Skip(x, Plus(i, a)) = y BY DEF Skip
<1>2. x.pos \in Nat /\ x.pos <= N /\ x.held \in Seq(Pieces(i)) /\ a \in 0 .. N + 1 /\ x.heldBytes \in Nat
  <2>1. x.pos \in Nat /\ x.pos <= N /\ x.held \in Seq(Pieces(i)) /\ x.heldBytes \in Nat BY StreamIs
  <2>2. a \in 0 .. N + 1 BY Window
  <2> QED BY <2>1, <2>2
<1>3. ASSUME x.held # <<>>
      PROVE  /\ Head(x.held).from \in Nat /\ Head(x.held).from <= N /\ Head(x.held).from > x.pos
             /\ Head(x.held).from \in 0 .. N + 1 /\ Head(x.held).seq = Plus(i, Head(x.held).from)
             /\ \A k \in DOMAIN x.held : Head(x.held).from <= x.held[k].from
  <2>1. Head(x.held) \in Pieces(i) /\ Head(x.held) = x.held[1] /\ 1 \in DOMAIN x.held
        /\ \A k \in DOMAIN x.held : Head(x.held).from <= x.held[k].from BY <1>3, FirstIs
  <2> QED BY <2>1, PieceIs, Window DEF Ahead
<1>4. \A k \in DOMAIN x.held : x.held[k].from \in Nat /\ x.held # <<>>
  <2>1. TAKE k \in DOMAIN x.held
  <2>2. x.held[k] \in Pieces(i) BY <1>2
  <2> QED BY <2>2, PieceIs
<1>5. to = Plus(i, c) /\ c \in Nat /\ x.pos <= c /\ c <= N /\ c <= a
  <2>1. CASE x.held = <<>> BY <1>2, <2>1
  <2>2. CASE x.held # <<>>
    <3>1. After(Plus(i, a), Head(x.held).seq) <=> a > Head(x.held).from BY <1>2, <1>3, <2>2, AfterIs
    <3>2. CASE Head(x.held).from < a BY <1>2, <1>3, <2>2, <3>1, <3>2
    <3>3. CASE ~(Head(x.held).from < a) BY <1>2, <1>3, <2>2, <3>1, <3>3
    <3> QED BY <3>2, <3>3
  <2> QED BY <2>1, <2>2
<1>6. \A k \in DOMAIN x.held : x.held[k].from >= c
  <2>1. TAKE k \in DOMAIN x.held
  <2>2. Head(x.held).from <= x.held[k].from /\ Head(x.held).from \in Nat /\ x.held[k].from \in Nat /\ x.held # <<>>
    BY <1>3, <1>4
  <2> QED BY <2>2
<1>7. x.held # <<>> /\ Head(x.held).from <= a => c = Head(x.held).from BY <1>3
<1>8. ~(x.held # <<>> /\ Head(x.held).from <= a) => c = a BY <1>3
<1> HIDE DEF first, c, to, z
<1>9. z = [Lose(x, Minus(Plus(i, c), x.next)) EXCEPT !.next = Plus(i, c)] BY <1>5 DEF z
<1>10. /\ z \in Sounds(i) /\ z.pos = c /\ z.held = x.held /\ z.heldBytes = x.heldBytes
       /\ SameStream(x, z) /\ (Opened(z) <=> Opened(x))
       /\ Told(z, "write") = Told(x, "write")
       /\ Told(z, "lose") = Told(x, "lose") \cup (x.pos .. c - 1)
  BY <1>5, <1>9, LoseIs
<1>11. Since(b, z) BY <1>5, <1>6, <1>10, SinceLose
<1>12. x.pos <= z.pos /\ z.heldBytes <= x.heldBytes BY <1>2, <1>5, <1>10
<1>13. Past(x, z) BY <1>10, <1>12, PastSame
<1>14. y \in Sounds(i) /\ Ahead(y) /\ Released(b, z, y) /\ (FirstInOrder(z) => Len(y.held) < Len(z.held))
  BY <1>10, <1>11, ReleaseIs
<1> HIDE DEF y
<1>15. Since(b, y) /\ Past(z, y) /\ Told(y, "lose") = Told(z, "lose") /\ z.pos <= y.pos BY <1>14 DEF Released, Past
<1>16. Past(x, y) BY <1>10, <1>13, <1>14, <1>15, PastPast
<1>17. ASSUME NEW w \in Told(y, "lose") PROVE w \in Told(x, "lose") \/ w < a
  <2>1. w \in Told(x, "lose") \/ w \in x.pos .. c - 1 BY <1>10, <1>15
  <2> QED BY <1>2, <1>5, <2>1
<1>18. ASSUME x.held # <<>>, Head(x.held).from <= a PROVE Len(y.held) < Len(x.held)
  <2>1. z.held # <<>> /\ ~(Head(z.held).from > z.pos) BY <1>3, <1>7, <1>10, <1>18
  <2>2. FirstInOrder(z) BY <1>10, <2>1, FirstIs DEF FirstInOrder
  <2> QED BY <1>10, <1>14, <2>2
<1>19. ASSUME ~(x.held # <<>> /\ Head(x.held).from <= a) PROVE y.pos >= a
  <2>1. y.pos \in Nat BY <1>14, StreamIs
  <2> QED BY <1>8, <1>10, <1>15, <1>19, <2>1
<1> QED BY <1>1, <1>14, <1>15, <1>16, <1>17, <1>18, <1>19

\* What skipping makes of x, as long as the gaps given up end at lim.
SkipsOf(i, b, x, lim) ==
    {y \in Sounds(i) : /\ Ahead(y) /\ Since(b, y) /\ Past(x, y)
                       /\ \A z \in Told(y, "lose") : z \in Told(x, "lose") \/ z < lim}

LEMMA SkipFirstIs ==
    ASSUME NEW i \in Seqs, NEW b \in Sounds(i), NEW x \in Sounds(i), NEW lim \in Nat,
           NEW y \in SkipsOf(i, b, x, lim), y.held # <<>>, Head(y.held).from <= lim
    PROVE  SkipFirst(y) \in SkipsOf(i, b, x, lim) /\ Len(SkipFirst(y).held) < Len(y.held)
<1>1. /\ y \in Sounds(i) /\ Ahead(y) /\ Since(b, y) /\ Past(x, y)
      /\ \A z \in Told(y, "lose") : z \in Told(x, "lose") \/ z < lim
  BY DEF SkipsOf
<1> DEFINE a == Head(y.held).from
           z == SkipFirst(y)
<1>2. Head(y.held) \in Pieces(i) /\ 1 \in DOMAIN y.held /\ Head(y.held) = y.held[1] BY <1>1, FirstIs
<1>3. a \in Nat /\ a <= N /\ Head(y.held).seq = Plus(i, a) /\ a > y.pos /\ a <= lim
  BY <1>1, <1>2, PieceIs, Window DEF Ahead
<1>4. z = Skip(y, Plus(i, a)) BY <1>3 DEF SkipFirst
<1>11. y.pos \in Nat BY <1>1, StreamIs
<1>5. a <= a /\ y.pos <= a
  <2> HIDE DEF a
  <2> QED BY <1>3, <1>11
<1> HIDE DEF a, z
<1>6. /\ z \in Sounds(i) /\ Ahead(z) /\ Since(b, z) /\ Past(y, z)
      /\ \A w \in Told(z, "lose") : w \in Told(y, "lose") \/ w < a
      /\ IF y.held # <<>> /\ Head(y.held).from <= a THEN Len(z.held) < Len(y.held) ELSE z.pos >= a
  BY <1>1, <1>3, <1>4, <1>5, SkipIs
<1>7. Len(z.held) < Len(y.held) BY <1>5, <1>6 DEF a
<1>8. Past(x, z) BY <1>1, <1>6, PastPast
<1>9. ASSUME NEW w \in Told(z, "lose") PROVE w \in Told(x, "lose") \/ w < lim
  <2>1. CASE w \in Told(y, "lose") BY <1>1, <2>1
  <2>2. CASE w \notin Told(y, "lose")
    <3>1. w < a BY <1>6, <2>2
    <3>2. \E k \in DOMAIN z.out : w \in z.out[k].from .. z.out[k].from + z.out[k].len - 1 BY DEF Told
    <3>3. w \in Int BY <3>2
    <3> QED BY <1>3, <3>1, <3>3
  <2> QED BY <2>1, <2>2
<1>10. z \in SkipsOf(i, b, x, lim) BY <1>6, <1>8, <1>9 DEF SkipsOf
<1> QED BY <1>7, <1>10 DEF z

\* A loop that skips as long as the stream is in On, whose gaps end at lim.
SkipsIn(V, On) == [y \in V |-> IF y \in On THEN SkipFirst(y) ELSE y]

LEMMA SkipsRun ==
    ASSUME NEW i \in Seqs, NEW b \in Sounds(i), NEW x \in Sounds(i), NEW lim \in Nat, Since(b, x), Ahead(x),
           NEW On, \A y \in On : y \in SkipsOf(i, b, x, lim) /\ y.held # <<>> /\ Head(y.held).from <= lim
    PROVE  /\ x \in SkipsOf(i, b, x, lim) /\ Len(x.held) \in Nat
           /\ \E f : RunsIn(SkipsOf(i, b, x, lim), x, SkipsIn(SkipsOf(i, b, x, lim), On), Len(x.held), f)
<1> DEFINE V == SkipsOf(i, b, x, lim)
           next == SkipsIn(V, On)
           n == Len(x.held)
<1>1. x \in V BY PastItself DEF SkipsOf
<1>2. n \in Nat BY StreamIs
<1>3. \A y \in On : SkipFirst(y) \in V BY SkipFirstIs
<1>4. next \in [V -> V]
  <2> HIDE DEF V
  <2> QED BY <1>3 DEF SkipsIn
<1> HIDE DEF V, next, n
<1>5. \E f : RunsIn(V, x, next, n, f) BY <1>1, <1>2, <1>4, LoopRuns
<1> QED BY <1>1, <1>2, <1>5 DEF V, next, n

Skipping(V, On, x, g) ==
    /\ g[0] = x
    /\ \A k \in 1 .. Len(x.held) : g[k - 1] \in V =>
           g[k] = IF g[k - 1] \in On THEN SkipFirst(g[k - 1]) ELSE g[k - 1]

LEMMA SkipsEnd ==
    ASSUME NEW i \in Seqs, NEW b \in Sounds(i), NEW x \in Sounds(i), NEW lim \in Nat, Since(b, x), Ahead(x),
           NEW On, \A y \in On : y \in SkipsOf(i, b, x, lim) /\ y.held # <<>> /\ Head(y.held).from <= lim,
           NEW g, Skipping(SkipsOf(i, b, x, lim), On, x, g)
    PROVE  g[Len(x.held)] \in SkipsOf(i, b, x, lim) /\ g[Len(x.held)] \notin On
<1> DEFINE V == SkipsOf(i, b, x, lim)
           n == Len(x.held)
           size == [y \in V |-> Len(y.held)]
<1>1. x \in V BY PastItself DEF SkipsOf
<1>2. n \in Nat BY StreamIs
<1>3. \A y \in V : Len(y.held) \in Nat BY StreamIs DEF SkipsOf
<1>4. \A y \in On : SkipFirst(y) \in V /\ Len(SkipFirst(y).held) < Len(y.held) BY SkipFirstIs
<1>5. \A y \in On : y \in V OBVIOUS
<1>6. g[0] = x /\ \A k \in 1 .. n : g[k - 1] \in V => g[k] = IF g[k - 1] \in On THEN SkipFirst(g[k - 1]) ELSE g[k - 1]
  BY DEF Skipping
<1> HIDE DEF V
<1>7. size \in [V -> Nat] BY <1>3
<1>8. \A y \in V : y \in On => size[y] > 0 BY <1>3, <1>4
<1>9. ASSUME NEW k \in 1 .. n, g[k - 1] \in V
      PROVE  IF g[k - 1] \in On THEN g[k] \in V /\ size[g[k]] < size[g[k - 1]] ELSE g[k] = g[k - 1]
  <2>1. g[k] = IF g[k - 1] \in On THEN SkipFirst(g[k - 1]) ELSE g[k - 1] BY <1>6, <1>9
  <2> QED BY <1>4, <1>9, <2>1
<1>10. g[0] \in V /\ size[g[0]] <= n BY <1>1, <1>2, <1>6
<1>11. g[n] \in V /\ g[n] \notin On
  <2> HIDE DEF n, size
  <2>1. Lessens(V, On, size, n, g) BY <1>9 DEF Lessens
  <2> QED BY <1>2, <1>7, <1>8, <2>1, <1>10, LoopEnds
<1> QED BY <1>11 DEF V

-----------------------------------------------------------------------------
\* The loops that skip: an ACK, the end, and a piece that is too old.

LEMMA SinceItself ==
    ASSUME NEW i, NEW x \in Sounds(i), Told(x, "write") = {}, Told(x, "lose") = {}
    PROVE  Since(x, x)
<1>1. x.pos \in Nat BY StreamIs
<1>2. x.pos .. x.pos - 1 = {} /\ x.pos <= x.pos BY <1>1
<1> QED BY <1>2 DEF Since, SameStream

LEMMA AckedIs ==
    ASSUME NEW i \in Seqs, NEW x \in Sounds(i), Since(x, x), Ahead(x), NEW upto \in 0 .. N + 1
    PROVE  LET y == Acked(x, Plus(i, upto))
           IN  y \in SkipsOf(i, x, x, upto) /\ \A k \in DOMAIN y.held : y.held[k].from > upto
<1> DEFINE ack == Plus(i, upto)
           V == SkipsOf(i, x, x, upto)
           C(y) == y.held # <<>> /\ ~After(Head(y.held).seq, ack)
           On == {y \in V : C(y)}
           n == Len(x.held)
           Runs(f) == f = [k \in 0 .. n |-> IF k = 0 THEN x ELSE IF C(f[k - 1]) THEN SkipFirst(f[k - 1]) ELSE f[k - 1]]
           g == CHOOSE f : Runs(f)
<1>1. upto \in Nat BY Window
<1>2. ASSUME NEW y \in V, y.held # <<>>
      PROVE  Head(y.held).from \in Nat /\ (After(Head(y.held).seq, ack) <=> Head(y.held).from > upto)
  <2>1. Head(y.held) \in Pieces(i) BY <1>2, FirstIs DEF SkipsOf
  <2>2. Head(y.held).from \in 0 .. N + 1 /\ Head(y.held).seq = Plus(i, Head(y.held).from) /\ Head(y.held).from \in Nat
    BY <2>1, PieceIs, Window
  <2> QED BY <2>2, AfterIs
<1>3. \A y \in On : y \in SkipsOf(i, x, x, upto) /\ y.held # <<>> /\ Head(y.held).from <= upto BY <1>1, <1>2
<1>4. \A y \in V : y \in On <=> C(y) OBVIOUS
<1> HIDE DEF On
<1>5. /\ x \in V /\ n \in Nat
      /\ \E f : RunsIn(V, x, SkipsIn(V, On), n, f) BY <1>1, <1>3, SkipsRun
<1> HIDE DEF C
<1>6. \E f : Runs(f)
  <2>1. PICK f : RunsIn(V, x, SkipsIn(V, On), n, f) BY <1>5
  <2> HIDE DEF V, n
  <2>2. f = [k \in 0 .. n |-> IF k = 0 THEN x ELSE SkipsIn(V, On)[f[k - 1]]] /\ \A k \in 0 .. n : f[k] \in V
    BY <2>1 DEF RunsIn
  <2>3. ASSUME NEW k \in 0 .. n, k # 0
        PROVE  SkipsIn(V, On)[f[k - 1]] = IF C(f[k - 1]) THEN SkipFirst(f[k - 1]) ELSE f[k - 1]
    <3>1. k - 1 \in 0 .. n BY <1>5, <2>3
    <3> QED BY <1>4, <2>2, <3>1 DEF SkipsIn
  <2>4. Runs(f) BY <2>2, <2>3
  <2> QED BY <2>4
<1>7. Runs(g) BY <1>6
<1>8. Acked(x, ack) = g[n] BY DEF Acked, While, C
<1> HIDE DEF g
<1>9. Skipping(V, On, x, g)
  <2> HIDE DEF V
  <2>1. g[0] = x BY <1>5, <1>7
  <2>2. ASSUME NEW k \in 1 .. n, g[k - 1] \in V
        PROVE  g[k] = IF g[k - 1] \in On THEN SkipFirst(g[k - 1]) ELSE g[k - 1]
    <3>1. k \in 0 .. n /\ k # 0 BY <1>5, <2>2
    <3>2. g[k] = IF C(g[k - 1]) THEN SkipFirst(g[k - 1]) ELSE g[k - 1] BY <1>7, <3>1
    <3>3. g[k - 1] \in On <=> C(g[k - 1]) BY <1>4, <2>2
    <3> QED BY <3>2, <3>3
  <2> QED BY <2>1, <2>2 DEF Skipping
<1>11. g[n] \in V /\ g[n] \notin On BY <1>1, <1>3, <1>9, SkipsEnd
<1> DEFINE y == Acked(x, ack)
<1>12. y \in V /\ ~C(y) BY <1>4, <1>8, <1>11
<1> HIDE DEF y
<1>13. y \in Sounds(i) BY <1>12 DEF SkipsOf
<1>14. ASSUME NEW k \in DOMAIN y.held PROVE y.held[k].from > upto
  <2>1. y.held # <<>> BY <1>13, StreamIs
  <2>2. Head(y.held).from > upto /\ Head(y.held).from \in Nat BY <1>2, <1>12, <2>1 DEF C
  <2>3. Head(y.held).from <= y.held[k].from BY <1>13, <2>1, FirstIs
  <2>4. y.held[k] \in Pieces(i) BY <1>13, StreamIs, PieceOf
  <2>5. y.held[k].from \in Nat BY <2>4, PieceIs
  <2> QED BY <1>1, <2>2, <2>3, <2>5
<1> QED BY <1>12, <1>14 DEF y

LEMMA GiveUpAllIs ==
    ASSUME NEW i \in Seqs, NEW x \in Sounds(i), Since(x, x), Ahead(x)
    PROVE  GiveUpAll(x) \in SkipsOf(i, x, x, N)
<1> DEFINE V == SkipsOf(i, x, x, N)
           On == {y \in V : y.held # <<>>}
           n == Len(x.held)
           Runs(f) == f = [k \in 0 .. n |-> IF k = 0 THEN x ELSE IF f[k - 1].held # <<>> THEN SkipFirst(f[k - 1]) ELSE f[k - 1]]
           g == CHOOSE f : Runs(f)
<1>1. N \in Nat BY Window
<1>2. ASSUME NEW y \in V, y.held # <<>> PROVE Head(y.held).from <= N
  <2>1. Head(y.held) \in Pieces(i) BY <1>2, FirstIs DEF SkipsOf
  <2> QED BY <2>1, PieceIs, Window
<1>3. \A y \in On : y \in SkipsOf(i, x, x, N) /\ y.held # <<>> /\ Head(y.held).from <= N BY <1>2
<1>4. \A y \in V : y \in On <=> y.held # <<>> OBVIOUS
<1> HIDE DEF On
<1>5. /\ x \in V /\ n \in Nat
      /\ \E f : RunsIn(V, x, SkipsIn(V, On), n, f) BY <1>1, <1>3, SkipsRun
<1>6. \E f : Runs(f)
  <2>1. PICK f : RunsIn(V, x, SkipsIn(V, On), n, f) BY <1>5
  <2> HIDE DEF V, n
  <2>2. f = [k \in 0 .. n |-> IF k = 0 THEN x ELSE SkipsIn(V, On)[f[k - 1]]] /\ \A k \in 0 .. n : f[k] \in V
    BY <2>1 DEF RunsIn
  <2>3. ASSUME NEW k \in 0 .. n, k # 0
        PROVE  SkipsIn(V, On)[f[k - 1]] = IF f[k - 1].held # <<>> THEN SkipFirst(f[k - 1]) ELSE f[k - 1]
    <3>1. k - 1 \in 0 .. n BY <1>5, <2>3
    <3> QED BY <1>4, <2>2, <3>1 DEF SkipsIn
  <2>4. Runs(f) BY <2>2, <2>3
  <2> QED BY <2>4
<1>7. Runs(g) BY <1>6
<1>8. GiveUpAll(x) = g[n] BY DEF GiveUpAll, While
<1> HIDE DEF g
<1>9. Skipping(V, On, x, g)
  <2> HIDE DEF V
  <2>1. g[0] = x BY <1>5, <1>7
  <2>2. \A k \in 1 .. n : g[k - 1] \in V => g[k] = IF g[k - 1] \in On THEN SkipFirst(g[k - 1]) ELSE g[k - 1]
    BY <1>4, <1>5, <1>7
  <2> QED BY <2>1, <2>2 DEF Skipping
<1>11. g[n] \in V BY <1>1, <1>3, <1>9, SkipsEnd
<1> QED BY <1>8, <1>11

\* The gaps before a piece that is too old at t are given up.
Fresh(s, t) == LET Aged(x) == IsStale(x, t) IN While(Aged, SkipFirst, s, Len(s.held))

LEMMA FreshIs ==
    ASSUME NEW i \in Seqs, NEW x \in Sounds(i), Since(x, x), Ahead(x), NEW t \in Times
    PROVE  Fresh(x, t) \in SkipsOf(i, x, x, N) /\ Young(Fresh(x, t), t)
<1> DEFINE V == SkipsOf(i, x, x, N)
           On == {y \in V : IsStale(y, t)}
           n == Len(x.held)
           Runs(f) == f = [k \in 0 .. n |-> IF k = 0 THEN x ELSE IF IsStale(f[k - 1], t) THEN SkipFirst(f[k - 1]) ELSE f[k - 1]]
           g == CHOOSE f : Runs(f)
<1>1. N \in Nat BY Window
<1>2. ASSUME NEW y \in V, IsStale(y, t) PROVE y.held # <<>> /\ Head(y.held).from <= N
  <2>1. y \in Sounds(i) BY DEF SkipsOf
  <2>2. y.held # <<>> BY <1>2, <2>1, StreamIs DEF IsStale
  <2>3. Head(y.held) \in Pieces(i) BY <2>1, <2>2, FirstIs
  <2> QED BY <2>2, <2>3, PieceIs, Window
<1>3. \A y \in On : y \in SkipsOf(i, x, x, N) /\ y.held # <<>> /\ Head(y.held).from <= N BY <1>2
<1>4. \A y \in V : y \in On <=> IsStale(y, t) OBVIOUS
<1> HIDE DEF On
<1>5. /\ x \in V /\ n \in Nat
      /\ \E f : RunsIn(V, x, SkipsIn(V, On), n, f) BY <1>1, <1>3, SkipsRun
<1>6. \E f : Runs(f)
  <2>1. PICK f : RunsIn(V, x, SkipsIn(V, On), n, f) BY <1>5
  <2> HIDE DEF V, n
  <2>2. f = [k \in 0 .. n |-> IF k = 0 THEN x ELSE SkipsIn(V, On)[f[k - 1]]] /\ \A k \in 0 .. n : f[k] \in V
    BY <2>1 DEF RunsIn
  <2>3. ASSUME NEW k \in 0 .. n, k # 0
        PROVE  SkipsIn(V, On)[f[k - 1]] = IF IsStale(f[k - 1], t) THEN SkipFirst(f[k - 1]) ELSE f[k - 1]
    <3>1. k - 1 \in 0 .. n BY <1>5, <2>3
    <3> QED BY <1>4, <2>2, <3>1 DEF SkipsIn
  <2>4. Runs(f) BY <2>2, <2>3
  <2> QED BY <2>4
<1>7. Runs(g) BY <1>6
<1>8. Fresh(x, t) = g[n] BY DEF Fresh, While
<1> HIDE DEF g
<1>9. Skipping(V, On, x, g)
  <2> HIDE DEF V
  <2>1. g[0] = x BY <1>5, <1>7
  <2>2. \A k \in 1 .. n : g[k - 1] \in V => g[k] = IF g[k - 1] \in On THEN SkipFirst(g[k - 1]) ELSE g[k - 1]
    BY <1>4, <1>5, <1>7
  <2> QED BY <2>1, <2>2 DEF Skipping
<1>11. g[n] \in V /\ g[n] \notin On BY <1>1, <1>3, <1>9, SkipsEnd
<1> DEFINE y == Fresh(x, t)
<1>12. y \in V /\ ~IsStale(y, t) BY <1>4, <1>8, <1>11
<1> HIDE DEF y
<1>13. ASSUME NEW k \in DOMAIN y.held PROVE t - y.held[k].t < MaxGapWait
  <2>1. y \in Sounds(i) BY <1>12 DEF SkipsOf
  <2>2. y.held[k] \in Pieces(i) BY <2>1, StreamIs, PieceOf
  <2>3. y.held[k].t \in Times BY <2>2, PieceIs
  <2>4. y.held[k].t \in Nat /\ t \in Nat /\ MaxGapWait \in Nat BY <2>3, ReassemblyAssumption
  <2>5. ~(t - y.held[k].t >= MaxGapWait) BY <1>12 DEF IsStale
  <2> DEFINE r == y.held[k].t
  <2>6. r \in Nat /\ ~(t - r >= MaxGapWait) BY <2>4, <2>5
  <2> HIDE DEF r
  <2>7. t - r < MaxGapWait BY <2>4, <2>6
  <2> QED BY <2>7 DEF r
<1>14. Young(y, t) BY <1>13 DEF Young
<1> QED BY <1>12, <1>14 DEF y

-----------------------------------------------------------------------------
\* Placing a piece.

\* Room is made for a piece, or its place is come to.
Roomy(s, p) ==
    LET Full(x) == IsEarly(x, p) /\ ~CanHold(x, p)
        Room(x) == Skip(x, p.seq)
    IN While(Full, Room, s, Len(s.held) + 1)

LEMMA PlacesCompare ==
    ASSUME NEW i \in Seqs, NEW x \in Sounds(i), NEW p \in Pieces(i)
    PROVE  /\ IsOld(x, p) <=> p.from + p.len <= x.pos
           /\ IsEarly(x, p) <=> p.from > x.pos
<1>1. x.pos \in Nat /\ x.pos \in 0 .. N + 1 /\ x.next = Plus(i, x.pos)
  <2>1. x.pos \in Nat /\ x.pos <= N /\ x.next = Plus(i, x.pos) BY StreamIs
  <2> QED BY <2>1, Window
<1> DEFINE f == p.from
           l == p.len
<1>2. f \in Nat /\ l \in Nat /\ f + l <= N /\ l > 0 /\ p.seq = Plus(i, f) BY PieceIs
<1> HIDE DEF f, l
<1>3. f \in 0 .. N + 1 /\ f + l \in 0 .. N + 1 /\ f + l <= N + 1 BY <1>2, Window
<1>4. Plus(p.seq, l) = Plus(i, f + l) BY <1>2, <1>3, PlusPlus
<1>5. After(Plus(i, f + l), x.next) <=> f + l > x.pos BY <1>1, <1>3, AfterIs
<1>6. After(p.seq, x.next) <=> f > x.pos BY <1>1, <1>2, <1>3, AfterIs
<1>7. IsOld(x, p) <=> ~(f + l > x.pos) BY <1>4, <1>5 DEF IsOld, l
<1>8. IsOld(x, p) <=> f + l <= x.pos BY <1>1, <1>2, <1>7
<1>9. IsEarly(x, p) <=> ~IsOld(x, p) /\ f > x.pos BY <1>6 DEF IsEarly
<1>10. IsEarly(x, p) <=> f > x.pos BY <1>1, <1>2, <1>8, <1>9
<1> QED BY <1>8, <1>10 DEF f, l

LEMMA RoomyIs ==
    ASSUME NEW i \in Seqs, NEW b \in Sounds(i), NEW x \in Sounds(i), Since(b, x), Ahead(x), NEW p \in Pieces(i)
    PROVE  Roomy(x, p) \in SkipsOf(i, b, x, N) /\ (IsEarly(Roomy(x, p), p) => CanHold(Roomy(x, p), p))
<1> DEFINE V == SkipsOf(i, b, x, N)
           Full(y) == IsEarly(y, p) /\ ~CanHold(y, p)
           On == {y \in V : Full(y)}
           n == Len(x.held) + 1
           next == [y \in V |-> IF Full(y) THEN Skip(y, p.seq) ELSE y]
           size == [y \in V |-> IF p.from > y.pos THEN Len(y.held) + 1 ELSE 0]
           Runs(f) == f = [k \in 0 .. n |-> IF k = 0 THEN x ELSE IF Full(f[k - 1]) THEN Skip(f[k - 1], p.seq) ELSE f[k - 1]]
           g == CHOOSE f : Runs(f)
<1>1. x \in V BY PastItself DEF SkipsOf
<1>2. n \in Nat /\ Len(x.held) \in Nat BY StreamIs
<1>3. \A y \in V : y \in Sounds(i) /\ y.pos \in Nat /\ Len(y.held) \in Nat BY StreamIs DEF SkipsOf
<1>4. p.from \in Nat /\ p.from <= N /\ p.seq = Plus(i, p.from) BY PieceIs, Window
<1>5. ASSUME NEW y \in V, Full(y)
      PROVE  Skip(y, p.seq) \in V /\ p.from > y.pos
             /\ (Skip(y, p.seq).pos >= p.from \/ Len(Skip(y, p.seq).held) < Len(y.held))
  <2> DEFINE z == Skip(y, p.seq)
             a == p.from
  <2>1. /\ y \in Sounds(i) /\ Ahead(y) /\ Since(b, y) /\ Past(x, y) /\ y.pos \in Nat
        /\ \A w \in Told(y, "lose") : w \in Told(x, "lose") \/ w < N
    BY <1>3 DEF SkipsOf
  <2>2. a > y.pos BY <1>5, <2>1, PlacesCompare
  <2>3. a \in Nat /\ a <= N /\ y.pos <= a BY <1>4, <2>1, <2>2
  <2>4. z = Skip(y, Plus(i, a)) BY <1>4
  <2> HIDE DEF a, z
  <2>5. /\ z \in Sounds(i) /\ Ahead(z) /\ Since(b, z) /\ Past(y, z)
        /\ \A w \in Told(z, "lose") : w \in Told(y, "lose") \/ w < a
        /\ IF y.held # <<>> /\ Head(y.held).from <= a THEN Len(z.held) < Len(y.held) ELSE z.pos >= a
    BY <2>1, <2>3, <2>4, SkipIs
  <2>6. Past(x, z) BY <2>1, <2>5, PastPast
  <2>7. ASSUME NEW w \in Told(z, "lose") PROVE w \in Told(x, "lose") \/ w < N
    <3>1. CASE w \in Told(y, "lose") BY <2>1, <3>1
    <3>2. CASE w \notin Told(y, "lose")
      <4>1. w < a BY <2>5, <3>2
      <4>2. \E k \in DOMAIN z.out : w \in z.out[k].from .. z.out[k].from + z.out[k].len - 1 BY DEF Told
      <4>3. w \in Int BY <4>2
      <4> QED BY <2>3, <4>1, <4>3, Window
    <3> QED BY <3>1, <3>2
  <2>8. z \in V BY <2>5, <2>6, <2>7 DEF SkipsOf
  <2>9. z.pos >= a \/ Len(z.held) < Len(y.held) BY <2>5
  <2> QED BY <2>2, <2>8, <2>9 DEF z, a
<1>6. \A y \in V : y \in On <=> Full(y) OBVIOUS
<1>7. \A y \in On : y \in V OBVIOUS
<1> HIDE DEF V, Full, On
<1>8. next \in [V -> V] BY <1>5
<1>9. size \in [V -> Nat] BY <1>3
<1>10. \E f : Runs(f)
  <2>1. PICK f : RunsIn(V, x, next, n, f)
    <3> HIDE DEF n, next
    <3> QED BY <1>1, <1>2, <1>8, LoopRuns
  <2> HIDE DEF n
  <2>2. f = [k \in 0 .. n |-> IF k = 0 THEN x ELSE next[f[k - 1]]] /\ \A k \in 0 .. n : f[k] \in V
    <3> HIDE DEF next
    <3> QED BY <2>1 DEF RunsIn
  <2>3. ASSUME NEW k \in 0 .. n, k # 0
        PROVE  next[f[k - 1]] = IF Full(f[k - 1]) THEN Skip(f[k - 1], p.seq) ELSE f[k - 1]
    <3>1. k - 1 \in 0 .. n BY <1>2, <2>3
    <3> QED BY <2>2, <3>1
  <2> HIDE DEF next
  <2>4. Runs(f) BY <2>2, <2>3
  <2> QED BY <2>4
<1>11. Runs(g) BY <1>10
<1>12. Roomy(x, p) = g[n] BY DEF Roomy, While, Full
<1> HIDE DEF g
<1>13. g[0] = x BY <1>2, <1>11
<1>14. ASSUME NEW k \in 1 .. n, g[k - 1] \in V
       PROVE  IF g[k - 1] \in On THEN g[k] \in V /\ size[g[k]] < size[g[k - 1]] ELSE g[k] = g[k - 1]
  <2> DEFINE y == g[k - 1]
             z == g[k]
  <2>1. z = IF Full(y) THEN Skip(y, p.seq) ELSE y BY <1>2, <1>11
  <2>2. CASE y \in On
    <3>1. Full(y) /\ z = Skip(y, p.seq) BY <1>6, <1>14, <2>1, <2>2
    <3> HIDE DEF y, z
    <3>2. y \in V BY <1>7, <2>2
    <3>3. z \in V /\ p.from > y.pos /\ (z.pos >= p.from \/ Len(z.held) < Len(y.held)) BY <1>5, <3>1, <3>2
    <3>4. size[y] = Len(y.held) + 1 BY <3>2, <3>3
    <3>5. size[z] = IF p.from > z.pos THEN Len(z.held) + 1 ELSE 0 BY <3>3
    <3>6. Len(y.held) \in Nat /\ Len(z.held) \in Nat /\ z.pos \in Nat BY <1>3, <3>2, <3>3
    <3> HIDE DEF size
    <3>7. size[z] < size[y] BY <1>4, <3>3, <3>4, <3>5, <3>6
    <3> QED BY <2>2, <3>3, <3>7 DEF y, z
  <2>3. CASE y \notin On BY <1>6, <1>14, <2>1, <2>3
  <2> QED BY <2>2, <2>3
<1>15. \A y \in V : y \in On => size[y] > 0
  <2>1. TAKE y \in V
  <2>2. HAVE y \in On
  <2>3. p.from > y.pos BY <1>5, <1>6, <2>2
  <2> QED BY <1>3, <2>3
<1>16. size[g[0]] <= n /\ g[0] \in V BY <1>1, <1>2, <1>13
<1>17. g[n] \in V /\ g[n] \notin On
  <2> HIDE DEF n, size
  <2>1. Lessens(V, On, size, n, g) BY <1>14 DEF Lessens
  <2> QED BY <1>2, <1>9, <2>1, <1>15, <1>16, LoopEnds
<1>18. Roomy(x, p) \in V /\ ~Full(Roomy(x, p)) BY <1>6, <1>12, <1>17
<1> QED BY <1>18 DEF V, Full

\* A piece is held that has come early.
LEMMA HoldIs ==
    ASSUME NEW i \in Seqs, NEW b \in Sounds(i), NEW x \in Sounds(i), Since(b, x), Ahead(x), Fits(x),
           NEW p \in Pieces(i), Young(x, p.t), p.from > x.pos, CanHold(x, p)
    PROVE  LET y == Hold(x, p) IN y \in Sounds(i) /\ Since(b, y) /\ Ahead(y) /\ Fits(y) /\ Young(y, p.t)
<1>1. CASE IsRetransmit(x, p) BY <1>1 DEF Hold
<1>2. CASE ~IsRetransmit(x, p)
  <2> DEFINE g == Inserted(x, p)
             y == [x EXCEPT !.held = g, !.heldBytes = @ + p.len]
  <2>1. x \in Shapes(i) /\ x.next = Plus(i, x.pos) /\ x.heldBytes = LenSum(x.held) BY DEF Sounds
  <2>2. x.held \in Queues(i) /\ Len(x.held) \in Nat /\ x.heldBytes \in Nat /\ x.held \in Seq(Pieces(i)) BY StreamIs
  <2>3. /\ g \in Queues(i) /\ Len(g) = Len(x.held) + 1 /\ LenSum(g) = LenSum(x.held) + p.len
        /\ \A j \in DOMAIN x.held : \E k \in DOMAIN g : g[k] = x.held[j]
        /\ \A k \in DOMAIN g : g[k] = p \/ \E j \in DOMAIN x.held : g[k] = x.held[j]
        /\ \E k \in DOMAIN g : g[k] = p
    BY <1>2, <2>2, QueueGrows
  <2>4. Hold(x, p) = y
    <3>1. Hold(x, p) = [x EXCEPT !.held = InsertAt(@, Slot(x, p) + 1, p), !.heldBytes = @ + p.len] BY <1>2 DEF Hold
    <3> QED BY <3>1 DEF Inserted
  <2>5. p.len \in Nat /\ x.heldBytes + p.len \in Nat BY <2>2, PieceIs
  <2> HIDE DEF g
  <2>6. /\ y \in Shapes(i) /\ y.held = g /\ y.heldBytes = x.heldBytes + p.len /\ y.next = x.next /\ y.pos = x.pos
        /\ y.out = x.out /\ SameStream(x, y) BY <2>1, <2>3, <2>5 DEF Shapes, SameStream
  <2> HIDE DEF y
  <2>7. y \in Sounds(i) BY <2>1, <2>3, <2>6 DEF Sounds
  <2>8. HasRoom(x, p) BY <1>2 DEF CanHold
  <2>9. Fits(y)
    <3>1. MaxHeld \in Nat /\ Len(x.held) <= MaxHeld /\ Len(x.held) # MaxHeld BY <2>8, ReassemblyAssumption DEF Fits, HasRoom
    <3>2. Len(x.held) + 1 <= MaxHeld BY <2>2, <3>1
    <3> QED BY <2>3, <2>6, <2>8, <3>2 DEF Fits, HasRoom
  <2>10. Ahead(y) BY <2>3, <2>6 DEF Ahead
  <2>11. Young(y, p.t)
    <3>3. p.t \in Times BY PieceIs
    <3>1. p.t \in Nat /\ MaxGapWait \in Nat \ {0} BY <3>3, ReassemblyAssumption
    <3>2. p.t - p.t < MaxGapWait BY <3>1
    <3> QED BY <2>3, <2>6, <3>2 DEF Young
  <2>12. Since(b, y)
    <3>1. Opened(y) <=> Opened(x) BY <2>6 DEF Opened
    <3>2. Told(y, "write") = Told(x, "write") /\ Told(y, "lose") = Told(x, "lose") BY <2>6 DEF Told
    <3>3. ASSUME NEW c \in HeldBytesOf(x.held) PROVE c \in HeldBytesOf(y.held)
      <4>1. PICK j \in DOMAIN x.held : c \in BytesOf(x.held[j]) BY HeldByte
      <4>2. PICK k \in DOMAIN g : g[k] = x.held[j] BY <2>3
      <4> QED BY <2>6, <4>1, <4>2, HeldByte
    <3>4. SameStream(b, y) BY <2>6 DEF Since, SameStream
    <3> QED BY <2>6, <3>1, <3>2, <3>3, <3>4 DEF Since
  <2> QED BY <2>4, <2>7, <2>9, <2>10, <2>11, <2>12
<1> QED BY <1>1, <1>2

LEMMA PastKeeps ==
    ASSUME NEW i, NEW x \in Sounds(i), NEW y \in Sounds(i), Past(x, y)
    PROVE  /\ Fits(x) => Fits(y)
           /\ \A t : Young(x, t) => Young(y, t)
<1>1. ASSUME Fits(x) PROVE Fits(y)
  <2>1. /\ Len(x.held) \in Nat /\ Len(y.held) \in Nat /\ x.heldBytes \in Nat /\ y.heldBytes \in Nat
        /\ MaxHeld \in Nat /\ MaxHeldBytes \in Nat BY StreamIs, ReassemblyAssumption
  <2> QED BY <1>1, <2>1 DEF Fits, Past
<1>2. ASSUME NEW t, Young(x, t) PROVE Young(y, t)
  <2>1. ASSUME NEW k \in DOMAIN y.held PROVE t - y.held[k].t < MaxGapWait
    <3>1. PICK j \in DOMAIN x.held : y.held[k] = x.held[j] BY PastHas
    <3> QED BY <1>2, <3>1 DEF Young
  <2> QED BY <2>1 DEF Young
<1> QED BY <1>1, <1>2

Good(i, x) == x \in Sounds(i) /\ Ahead(x) /\ Fits(x)

\* place keeps the stream sound, its queue past a gap, within its limits and none of it too old.
LEMMA PlaceIs ==
    ASSUME NEW i \in Seqs, NEW b, Good(i, b), Since(b, b), NEW p \in Pieces(i)
    PROVE  LET y == Place(b, p) IN Good(i, y) /\ Since(b, y) /\ Young(y, p.t)
<1> DEFINE f == Fresh(b, p.t)
           q == Roomy(f, p)
           y == Place(b, p)
           old == Minus(q.next, p.seq)
<1>1. b \in Sounds(i) /\ Ahead(b) /\ Fits(b) BY DEF Good
<1>2. p.t \in Times /\ p.from \in Nat /\ p.len \in Nat /\ p.from + p.len <= N /\ p.from \in 0 .. N + 1
      /\ p.seq = Plus(i, p.from) BY PieceIs, Window
<1>3. f \in SkipsOf(i, b, b, N) /\ Young(f, p.t) BY <1>1, <1>2, FreshIs
<1>4. y = IF IsOld(q, p) THEN q ELSE IF IsEarly(q, p) THEN Hold(q, p)
          ELSE Release(Write(q, p.from + old, p.len - old))
  BY DEF Place, Fresh, Roomy
<1> HIDE DEF f
<1> SUFFICES Good(i, y) /\ Since(b, y) /\ Young(y, p.t) OBVIOUS
<1> HIDE DEF y
<1>5. f \in Sounds(i) /\ Ahead(f) /\ Since(b, f) /\ Past(b, f) BY <1>3 DEF SkipsOf
<1>6. Fits(f) BY <1>1, <1>5, PastKeeps
<1>7. q \in SkipsOf(i, b, f, N) /\ (IsEarly(q, p) => CanHold(q, p)) BY <1>1, <1>5, RoomyIs
<1> HIDE DEF q
<1>8. q \in Sounds(i) /\ Ahead(q) /\ Since(b, q) /\ Past(f, q) BY <1>7 DEF SkipsOf
<1>9. Fits(q) /\ Young(q, p.t) BY <1>3, <1>5, <1>6, <1>8, PastKeeps
<1>10. (IsOld(q, p) <=> p.from + p.len <= q.pos) /\ (IsEarly(q, p) <=> p.from > q.pos) BY <1>8, PlacesCompare
<1>11. CASE IsOld(q, p) BY <1>4, <1>8, <1>9, <1>11 DEF Good
<1>12. CASE ~IsOld(q, p) /\ IsEarly(q, p)
  <2>1. y = Hold(q, p) BY <1>4, <1>12
  <2>2. Hold(q, p) \in Sounds(i) /\ Since(b, Hold(q, p)) /\ Ahead(Hold(q, p)) /\ Fits(Hold(q, p)) /\ Young(Hold(q, p), p.t)
    BY <1>1, <1>7, <1>8, <1>9, <1>10, <1>12, HoldIs
  <2> QED BY <2>1, <2>2 DEF Good
<1>13. CASE ~IsOld(q, p) /\ ~IsEarly(q, p)
  <2> DEFINE a == p.from
             l == p.len
             n == l - old
             z == Write(q, q.pos, n)
  <2>1. q.pos \in Nat /\ q.pos <= N /\ q.next = Plus(i, q.pos) BY <1>8, StreamIs
  <2>2. ~(a + l <= q.pos) /\ ~(a > q.pos) BY <1>10, <1>13
  <2>3. a \in Nat /\ l \in Nat /\ a + l <= N /\ a \in 0 .. N + 1 /\ p.seq = Plus(i, a) BY <1>2
  <2>4. q.pos \in 0 .. N + 1 BY <2>1, Window
  <2> HIDE DEF a, l
  <2>5. old = q.pos - a BY <2>1, <2>2, <2>3, <2>4, MinusIs
  <2> HIDE DEF old
  <2>6. a + old = q.pos /\ n \in Nat /\ q.pos + n <= N BY <2>1, <2>2, <2>3, <2>5
  <2>7. y = Release(z) BY <1>4, <1>13, <2>6 DEF a, l
  <2> HIDE DEF n
  <2>8. /\ z \in Sounds(i) /\ z.pos = q.pos + n /\ z.held = q.held /\ z.heldBytes = q.heldBytes
        /\ SameStream(q, z) /\ (Opened(z) <=> Opened(q))
        /\ Told(z, "write") = Told(q, "write") \cup (q.pos .. q.pos + n - 1)
        /\ Told(z, "lose") = Told(q, "lose")
    BY <1>8, <2>6, WriteIs
  <2> HIDE DEF z
  <2>9. Since(b, z) BY <1>1, <1>8, <2>6, <2>8, SinceWrite
  <2>10. q.heldBytes \in Nat BY <1>8, StreamIs
  <2>11. q.pos <= z.pos /\ z.heldBytes <= q.heldBytes BY <2>1, <2>6, <2>8, <2>10
  <2>12. Past(q, z) BY <1>8, <2>8, <2>11, PastSame
  <2>13. y \in Sounds(i) /\ Ahead(y) /\ Released(b, z, y) BY <1>1, <2>7, <2>8, <2>9, ReleaseIs
  <2>14. Past(z, y) /\ Since(b, y) BY <2>13 DEF Released
  <2>15. Past(q, y) BY <1>8, <2>8, <2>12, <2>13, <2>14, PastPast
  <2>16. Fits(y) /\ Young(y, p.t) BY <1>8, <1>9, <2>13, <2>15, PastKeeps
  <2> QED BY <2>13, <2>14, <2>16 DEF Good
<1> QED BY <1>11, <1>12, <1>13

-----------------------------------------------------------------------------
\* A segment.

\* A direction may only be closed at the place it has come to.
LEMMA ClosesIs ==
    ASSUME NEW i \in Seqs, NEW b, NEW x, Good(i, x), Since(b, x), NEW seen \in BOOLEAN, NEW seg,
           seg.from \in Nat, seg.len \in Nat, seg.from + seg.len <= N, seg.seq = Plus(i, seg.from)
    PROVE  LET y == Closes(x, seen, seg)
           IN  Good(i, y) /\ Since(b, y) /\ y.held = x.held /\ y.syn = x.syn
<1> DEFINE close == seen /\ seg.ctl = "fin" /\ x.next = Plus(seg.seq, seg.len)
           e == [kind |-> "close", at |-> x.pos, from |-> seg.from + seg.len, len |-> 0]
           y == [x EXCEPT !.out = Append(@, e)]
<1>1. Closes(x, seen, seg) = IF close THEN y ELSE x BY DEF Closes
<1>2. x \in Sounds(i) /\ Ahead(x) /\ Fits(x) BY DEF Good
<1>3. CASE ~close BY <1>1, <1>3
<1>4. CASE close
  <2> DEFINE to == seg.from + seg.len
  <2>1. x.pos \in Nat /\ x.pos <= N /\ x.next = Plus(i, x.pos) /\ x.out \in Seq(Events) BY <1>2, StreamIs
  <2>2. to \in Nat /\ to <= N /\ to \in 0 .. N + 1 /\ to <= N + 1 BY Window
  <2>3. Plus(seg.seq, seg.len) = Plus(i, to) BY <2>2, PlusPlus
  <2>4. x.pos \in 0 .. N + 1 BY <2>1, Window
  <2>5. Plus(i, x.pos) = Plus(i, to) BY <1>4, <2>1, <2>3
  <2> HIDE DEF to
  <2>6. x.pos = to BY <2>2, <2>4, <2>5, PlusIsOneToOne
  <2>7. e \in Events BY <2>1, <2>6, Window DEF Events, to
  <2>8. e.kind = "close" /\ e.len = 0 /\ e.from = to BY DEF to
  <2> HIDE DEF e
  <2>9. Append(x.out, e) \in Seq(Events) BY <2>1, <2>7
  <2>10. x \in Shapes(i) /\ x.next = Plus(i, x.pos) /\ x.heldBytes = LenSum(x.held) BY <1>2 DEF Sounds
  <2>11. /\ y \in Shapes(i) /\ y.next = x.next /\ y.pos = x.pos /\ y.held = x.held /\ y.heldBytes = x.heldBytes
         /\ y.out = Append(x.out, e) /\ SameStream(x, y) BY <2>9, <2>10 DEF Shapes, SameStream
  <2> HIDE DEF y
  <2>12. Good(i, y) BY <1>2, <2>10, <2>11 DEF Good, Sounds, Ahead, Fits
  <2>13. /\ \A kind : Told(y, kind) = Told(x, kind) \cup (IF e.kind = kind THEN e.from .. e.from + e.len - 1 ELSE {})
         /\ Opened(y) <=> (Opened(x) \/ e.kind = "open") BY <2>1, <2>7, <2>11, ToldMore
  <2>14. Told(y, "write") = Told(x, "write") /\ Told(y, "lose") = Told(x, "lose") BY <2>8, <2>13
  <2>15. Opened(y) <=> Opened(x) BY <2>8, <2>13
  <2>16. SameStream(b, y) BY <2>11 DEF Since, SameStream
  <2>17. Since(b, y) BY <2>11, <2>14, <2>15, <2>16 DEF Since
  <2> QED BY <1>1, <1>4, <2>11, <2>12, <2>17 DEF SameStream
<1> QED BY <1>3, <1>4

\* What a segment does to the stream it finds or makes.
Fed(s, seen, seg) ==
    LET pc == [seq |-> seg.seq, from |-> seg.from, len |-> seg.len, t |-> seg.t]
        s3 == IF seg.len > 0 THEN Place(s, pc) ELSE s
    IN Closes(s3, seen, seg)

LEMMA FedIs ==
    ASSUME NEW i \in Seqs, NEW b, Good(i, b), Since(b, b), NEW seen \in BOOLEAN, NEW seg,
           seg.from \in Nat, seg.len \in Nat, seg.from + seg.len <= N, seg.seq = Plus(i, seg.from),
           seg.len > 0 => seg.t \in Times
    PROVE  LET y == Fed(b, seen, seg)
           IN  /\ Good(i, y) /\ Since(b, y)
               /\ IF seg.len > 0 THEN Young(y, seg.t) ELSE y.held = b.held
<1> DEFINE pc == [seq |-> seg.seq, from |-> seg.from, len |-> seg.len, t |-> seg.t]
           s3 == IF seg.len > 0 THEN Place(b, pc) ELSE b
           y == Closes(s3, seen, seg)
<1>1. Good(i, s3) /\ Since(b, s3) /\ IF seg.len > 0 THEN Young(s3, seg.t) ELSE s3.held = b.held
  <2>1. CASE seg.len > 0
    <3>1. seg.seq \in Seqs
      <4>1. seg.from \in 0 .. N + 1 BY Window
      <4> QED BY <4>1, PlusIs
    <3>2. pc \in Pieces(i) BY <2>1, <3>1, Window DEF Pieces
    <3>3. pc.t = seg.t OBVIOUS
    <3> HIDE DEF pc
    <3> QED BY <2>1, <3>2, <3>3, PlaceIs
  <2>2. CASE ~(seg.len > 0) BY <2>2
  <2> QED BY <2>1, <2>2
<1> HIDE DEF s3
<1>2. Good(i, y) /\ Since(b, y) /\ y.held = s3.held BY <1>1, ClosesIs
<1>3. Fed(b, seen, seg) = y BY DEF Fed, s3
<1> HIDE DEF y
<1>4. \A t : Young(s3, t) => Young(y, t) BY <1>2 DEF Young
<1> QED BY <1>1, <1>2, <1>3, <1>4

\* What a step starts from: the stream with nothing told yet, or one that begins.
Keeps(b) ==
    /\ st.made /\ ~Opened(b) /\ b.pos = st.pos /\ b.held = st.held /\ b.start = st.start
    /\ b.heldBytes = st.heldBytes /\ b.syn = st.syn /\ b.conn = st.conn

Begins(b) == Opened(b) /\ b.start = b.pos /\ b.held = <<>>

LEMMA KeptIs ==
    ASSUME NEW i, Good(i, st)
    PROVE  LET b == [st EXCEPT !.out = <<>>]
           IN  /\ Good(i, b) /\ Since(b, b) /\ Keeps(b) /\ b.synced = TRUE
               /\ Told(b, "write") = {} /\ Told(b, "lose") = {}
<1> DEFINE b == [st EXCEPT !.out = <<>>]
<1>1. st \in Sounds(i) /\ Ahead(st) /\ Fits(st) BY DEF Good
<1>2. st \in Shapes(i) /\ st.next = Plus(i, st.pos) /\ st.heldBytes = LenSum(st.held) BY <1>1 DEF Sounds
<1>3. st.made = TRUE BY <1>1, StreamIs
<1>11. <<>> \in Seq(Events) OBVIOUS
<1>4. /\ b \in Shapes(i) /\ b.next = st.next /\ b.pos = st.pos /\ b.held = st.held /\ b.heldBytes = st.heldBytes
      /\ b.out = <<>> /\ b.conn = st.conn /\ b.start = st.start /\ b.syn = st.syn BY <1>2, <1>11 DEF Shapes
<1> HIDE DEF b
<1>5. b \in Sounds(i) BY <1>2, <1>4 DEF Sounds
<1>6. Good(i, b) BY <1>1, <1>4, <1>5 DEF Good, Ahead, Fits
<1>7. DOMAIN b.out = {} BY <1>4
<1>8. ~Opened(b) /\ Told(b, "write") = {} /\ Told(b, "lose") = {} BY <1>7 DEF Opened, Told
<1>9. Since(b, b) BY <1>5, <1>8, SinceItself
<1>10. b.synced = TRUE BY <1>5, StreamIs
<1> QED BY <1>3, <1>4, <1>6, <1>8, <1>9, <1>10 DEF Keeps, b

\* A stream made and not yet synced.
Blanks == [made : {TRUE}, synced : {FALSE}, next : Seqs, syn : Seqs, held : {<<>>}, heldBytes : {0},
           conn : 1 .. MaxConns, start : 0 .. N, pos : 0 .. N, out : {<<>>}]

LEMMA NewStreamIs ==
    ASSUME NEW c \in 1 .. MaxConns
    PROVE  NewStream(c) \in Blanks /\ NewStream(c).syn = 0 /\ NewStream(c).synced = FALSE
<1>1. 0 \in Seqs /\ 0 \in 0 .. N BY Window DEF Seqs
<1> QED BY <1>1 DEF NewStream, Blanks

LEMMA EmptyQueue == ASSUME NEW i PROVE <<>> \in Queues(i) /\ LenSum(<<>>) = 0
<1> DEFINE s == [k \in Nat |-> 0]
<1>1. <<>> \in Seq(Pieces(i)) OBVIOUS
<1>2. AddsUp(s, <<>>) BY DEF AddsUp
<1>3. s[Len(<<>>)] = 0 OBVIOUS
<1> HIDE DEF s
<1>4. LenSum(<<>>) = s[Len(<<>>)] BY <1>1, <1>2, LenSumIs
<1>5. InOrder(<<>>) BY DEF InOrder
<1> QED BY <1>1, <1>3, <1>4, <1>5 DEF Queues

LEMMA BegunIs ==
    ASSUME NEW i \in Seqs, NEW x \in Blanks, NEW seg, seg.from \in 0 .. N, seg.seq = Plus(i, seg.from)
    PROVE  LET b == Synced(x, seg) IN Good(i, b) /\ Since(b, b) /\ Begins(b) /\ b.syn = x.syn
<1> DEFINE e == [kind |-> "open", at |-> seg.from, from |-> seg.from, len |-> 0]
           b == [x EXCEPT !.synced = TRUE, !.next = seg.seq, !.start = seg.from, !.pos = seg.from, !.out = <<e>>]
<1>1. Synced(x, seg) = b BY DEF Synced, Blanks
<1>2. seg.from \in Nat /\ seg.from <= N /\ seg.from \in 0 .. N + 1 /\ 0 \in 0 .. N BY Window
<1>3. seg.seq \in Seqs BY <1>2, PlusIs
<1>4. e \in Events BY <1>2 DEF Events
<1>5. e.kind = "open" OBVIOUS
<1> HIDE DEF e
<1>6. <<e>> \in Seq(Events) BY <1>4
<1>7. <<>> \in Queues(i) /\ LenSum(<<>>) = 0 BY EmptyQueue
<1> DEFINE o == <<e>>
<1>16. o \in Seq(Events) BY <1>6
<1> HIDE DEF o
<1>17. b = [x EXCEPT !.synced = TRUE, !.next = seg.seq, !.start = seg.from, !.pos = seg.from, !.out = o] BY DEF o
<1> HIDE DEF b
<1>8. /\ b \in Shapes(i) /\ b.held = <<>> /\ b.heldBytes = 0 /\ b.next = seg.seq /\ b.pos = seg.from /\ b.start = seg.from
      /\ b.out = o /\ b.syn = x.syn
  <2>1. /\ b.held = <<>> /\ b.heldBytes = 0 /\ b.next = seg.seq /\ b.pos = seg.from /\ b.start = seg.from
        /\ b.out = o /\ b.syn = x.syn BY <1>17 DEF Blanks
  <2>2. b \in Shapes(i)
    <3> DEFINE Wide == [made : {TRUE}, synced : BOOLEAN, next : Seqs, syn : Seqs, held : Queues(i), heldBytes : Nat,
                        conn : 1 .. MaxConns, start : 0 .. N, pos : 0 .. N, out : Seq(Events)]
    <3>1. x \in Wide
      <4>1. <<>> \in Seq(Events) /\ 0 \in Nat OBVIOUS
      <4> QED BY <1>7, <4>1 DEF Blanks
    <3>2. b \in Wide BY <1>3, <1>16, <1>17, <3>1
    <3>3. b.synced = TRUE BY <1>17 DEF Blanks
    <3> QED BY <3>2, <3>3 DEF Shapes
  <2> QED BY <2>1, <2>2
<1>9. b \in Sounds(i) BY <1>7, <1>8 DEF Sounds
<1>10. Ahead(b) BY <1>8 DEF Ahead
<1>11. Fits(b) BY <1>8, ReassemblyAssumption DEF Fits
<1>12. DOMAIN b.out = {1} /\ b.out[1] = e BY <1>8 DEF o
<1>13. Opened(b) BY <1>5, <1>12 DEF Opened
<1>14. Told(b, "write") = {} /\ Told(b, "lose") = {} BY <1>5, <1>12 DEF Told
<1>15. Since(b, b) BY <1>9, <1>14, SinceItself
<1> QED BY <1>1, <1>8, <1>9, <1>10, <1>11, <1>13, <1>15, <1>17 DEF Good, Begins, o

\* The stream that FeedSegment places a segment in: the one it finds, unless the segment is the
\* SYN of another connection, or one that it makes.
LEMMA FeedSegmentIs ==
    ASSUME 0 \notin StartSeqs, st = NoStream \/ (Good(iss, st) /\ st.syn \in {0, iss}), NEW i \in StartSeqs, NEW seg,
           seg.from \in 0 .. N, seg.seq = Plus(i, seg.from), seg.conn \in 1 .. MaxConns,
           seg.ctl = "syn" \/ i = iss, seg.ctl = "syn" => seg.from = 0
    PROVE  \E b : /\ Good(i, b) /\ Since(b, b) /\ b.syn \in {0, i} /\ (Keeps(b) \/ Begins(b))
                  /\ \E seen \in BOOLEAN : FeedSegment(seg) = Fed(b, seen, seg)
<1> DEFINE s1 == IF seg.ctl = "syn" THEN AfterSyn(LookedUp(seg.conn), seg) ELSE LookedUp(seg.conn)
           b == Synced(s1, seg)
           kept == [st EXCEPT !.out = <<>>]
           new == NewStream(seg.conn)
<1>1. FeedSegment(seg) = Fed(b, s1.synced, seg) BY DEF FeedSegment, Fed
<1>2. i \in Seqs /\ i # 0 /\ i \in Nat BY ReassemblyAssumption, Window DEF Seqs
<1>3. new \in Blanks /\ new.syn = 0 /\ new.synced = FALSE BY NewStreamIs
<1>4. LookedUp(seg.conn) = IF st.made THEN kept ELSE new BY DEF LookedUp
<1>5. seg.ctl = "syn" => seg.seq = i
  <2>1. 0 \in 0 .. N + 1 BY Window
  <2>2. Plus(i, 0) = IF i + 0 < Mod THEN i + 0 ELSE i + 0 - Mod BY <1>2, <2>1, PlusIs
  <2> QED BY <1>2, <2>2, Window DEF Seqs
<1>6. ~st.made => st = NoStream BY StreamIs DEF Good
<1>7. st.made => Good(iss, st) /\ st.syn \in {0, iss} BY DEF NoStream
<1>8. st.made => Good(iss, kept) /\ Since(kept, kept) /\ Keeps(kept) /\ kept.synced = TRUE BY <1>7, KeptIs
<1>9. st.made => kept.syn \in {0, iss} BY <1>7, <1>8 DEF Keeps
<1> HIDE DEF kept, new
<1> DEFINE renewed == [new EXCEPT !.syn = seg.seq]
<1>10. seg.ctl = "syn" => renewed \in Blanks /\ renewed.syn = i /\ renewed.synced = FALSE BY <1>2, <1>3, <1>5 DEF Blanks
<1>11. AfterSyn(LookedUp(seg.conn), seg) =
          IF LookedUp(seg.conn).synced /\ seg.seq # LookedUp(seg.conn).syn THEN renewed
          ELSE [LookedUp(seg.conn) EXCEPT !.syn = seg.seq] BY DEF AfterSyn, new
<1> HIDE DEF renewed
<1> DEFINE Found == /\ Good(i, b) /\ Since(b, b) /\ b.syn \in {0, i} /\ (Keeps(b) \/ Begins(b)) /\ s1.synced \in BOOLEAN
<1>12. ASSUME s1 = kept, st.made, i = iss PROVE Found
  <2>1. b = kept BY <1>8, <1>12 DEF Synced
  <2> HIDE DEF b, s1
  <2> QED BY <1>8, <1>9, <1>12, <2>1
<1>13. ASSUME s1 \in Blanks, s1.syn \in {0, i}, s1.synced = FALSE PROVE Found
  <2> HIDE DEF s1
  <2>1. Good(i, b) /\ Since(b, b) /\ Begins(b) /\ b.syn = s1.syn BY <1>2, <1>13, BegunIs
  <2> HIDE DEF b
  <2> QED BY <1>13, <2>1
<1>14. CASE seg.ctl # "syn"
  <2>1. s1 = LookedUp(seg.conn) BY <1>14
  <2>2. CASE st.made
    <3>1. Found
      <4>1. s1 = kept BY <1>4, <2>1, <2>2
      <4> HIDE DEF s1, b, Found
      <4> QED BY <1>12, <1>14, <2>2, <4>1
    <3> HIDE DEF s1, b
    <3> QED BY <1>1, <3>1
  <2>3. CASE ~st.made
    <3>1. Found
      <4>1. s1 = new BY <1>4, <2>1, <2>3
      <4>2. s1 \in Blanks /\ s1.syn \in {0, i} /\ s1.synced = FALSE
        <5> HIDE DEF s1
        <5> QED BY <1>3, <4>1
      <4> HIDE DEF s1, b, Found
      <4> QED BY <1>13, <4>2
    <3> HIDE DEF s1, b
    <3> QED BY <1>1, <3>1
  <2> QED BY <2>2, <2>3
<1>15. CASE seg.ctl = "syn"
  <2>1. s1 = IF LookedUp(seg.conn).synced /\ seg.seq # LookedUp(seg.conn).syn THEN renewed
             ELSE [LookedUp(seg.conn) EXCEPT !.syn = seg.seq] BY <1>11, <1>15
  <2>2. CASE st.made /\ kept.syn = i
    <3>1. s1 = [kept EXCEPT !.syn = i] BY <1>4, <1>5, <1>8, <1>15, <2>1, <2>2
    <3>2. kept \in Shapes(iss) BY <1>8, <2>2 DEF Good, Sounds
    <3>3. [kept EXCEPT !.syn = kept.syn] = kept BY <3>2 DEF Shapes
    <3>4. s1 = kept /\ i = iss BY <1>2, <1>9, <2>2, <3>1, <3>3
    <3>5. Found
      <4> HIDE DEF s1, b, Found
      <4> QED BY <1>12, <2>2, <3>4
    <3> HIDE DEF s1, b
    <3> QED BY <1>1, <3>5
  <2>3. CASE ~(st.made /\ kept.syn = i)
    <3>1. s1 = renewed
      <4>1. CASE st.made BY <1>4, <1>5, <1>8, <1>15, <2>1, <2>3, <4>1
      <4>2. CASE ~st.made BY <1>3, <1>4, <2>1, <4>2 DEF renewed
      <4> QED BY <4>1, <4>2
    <3>2. s1 \in Blanks /\ s1.syn \in {0, i} /\ s1.synced = FALSE
      <4> HIDE DEF s1
      <4> QED BY <1>10, <1>15, <3>1
    <3>3. Found
      <4> HIDE DEF s1, b, Found
      <4> QED BY <1>13, <3>2
    <3> HIDE DEF s1, b
    <3> QED BY <1>1, <3>3
  <2> QED BY <2>2, <2>3
<1> QED BY <1>14, <1>15

-----------------------------------------------------------------------------
\* The steps.

\* The stream is sound for its connection, fits, and nothing in it has waited too long.
IInv ==
    /\ iss \in StartSeqs /\ conn \in 1 .. MaxConns /\ now \in Times \cup {0}
    /\ got \in SUBSET (0 .. N - 1) /\ lost \in SUBSET (0 .. N - 1)
    /\ st = NoStream \/ (Good(iss, st) /\ st.syn \in {0, iss} /\ Young(st, now))

\* A step's stream comes of one that is kept or begins.
MovedFrom(b) ==
    /\ Good(iss', b) /\ Good(iss', st') /\ Since(b, st') /\ (Keeps(b) \/ Begins(b))
    /\ st'.syn \in {0, iss'} /\ Young(st', now')

Moved == (\E b : MovedFrom(b)) /\ Becomes(st')

LEMMA BecomesItself == ASSUME NEW s, Becomes(s) PROVE Becomes(st') /\ st' = s
BY DEF Becomes

\* After a step of a segment.
LEMMA SegmentMoves ==
    ASSUME 0 \notin StartSeqs, IInv, NEW i \in StartSeqs, iss' = i, NEW seg,
           seg.from \in 0 .. N, seg.len \in Nat, seg.from + seg.len <= N, seg.seq = Plus(i, seg.from),
           seg.conn \in 1 .. MaxConns, seg.ctl = "syn" \/ i = iss, seg.ctl = "syn" => seg.from = 0,
           IF seg.len > 0 THEN seg.t \in Times /\ now' = seg.t ELSE now' = now,
           Becomes(FeedSegment(seg))
    PROVE  Moved
<1>1. st = NoStream \/ (Good(iss, st) /\ st.syn \in {0, iss}) BY DEF IInv
<1>2. PICK b : /\ Good(i, b) /\ Since(b, b) /\ b.syn \in {0, i} /\ (Keeps(b) \/ Begins(b))
               /\ \E seen \in BOOLEAN : FeedSegment(seg) = Fed(b, seen, seg)
  BY <1>1, FeedSegmentIs
<1>3. PICK seen \in BOOLEAN : FeedSegment(seg) = Fed(b, seen, seg) BY <1>2
<1>4. i \in Seqs /\ seg.from \in Nat BY ReassemblyAssumption, Window
<1> DEFINE y == Fed(b, seen, seg)
<1>5. /\ Good(i, y) /\ Since(b, y)
      /\ IF seg.len > 0 THEN Young(y, seg.t) ELSE y.held = b.held
  BY <1>2, <1>4, FedIs
<1>6. st' = y /\ Becomes(st') BY <1>3, BecomesItself
<1> HIDE DEF y
<1>7. y.syn \in {0, i} BY <1>2, <1>5 DEF Since, SameStream
<1>8. Young(y, now')
  <2>1. CASE seg.len > 0 BY <1>5, <2>1
  <2>2. CASE ~(seg.len > 0)
    <3>1. now' = now /\ y.held = b.held BY <1>5, <2>2
    <3>2. CASE Keeps(b)
      <4>1. st.made /\ b.held = st.held BY <3>2 DEF Keeps
      <4>2. Young(st, now) BY <4>1 DEF IInv, NoStream
      <4> QED BY <3>1, <4>1, <4>2 DEF Young
    <3>3. CASE Begins(b) BY <3>1, <3>3 DEF Begins, Young
    <3> QED BY <1>2, <3>2, <3>3
  <2> QED BY <2>1, <2>2
<1>9. MovedFrom(b) BY <1>2, <1>5, <1>6, <1>7, <1>8 DEF MovedFrom
<1> QED BY <1>6, <1>9 DEF Moved

\* A loop that skips, from the stream as it is kept.
LEMMA SkipsMove ==
    ASSUME IInv, st.made, NEW lim, NEW y \in SkipsOf(iss, [st EXCEPT !.out = <<>>], [st EXCEPT !.out = <<>>], lim),
           Becomes(y), UNCHANGED <<iss, now>>
    PROVE  Moved
<1> DEFINE b == [st EXCEPT !.out = <<>>]
<1>1. Good(iss, st) /\ st.syn \in {0, iss} /\ Young(st, now) BY DEF IInv, NoStream
<1>2. Good(iss, b) /\ Since(b, b) /\ Keeps(b) BY <1>1, KeptIs
<1>3. y \in Sounds(iss) /\ Ahead(y) /\ Since(b, y) /\ Past(b, y) BY DEF SkipsOf
<1> HIDE DEF b
<1>4. Young(b, now) BY <1>1, <1>2 DEF Keeps, Young
<1>5. b \in Sounds(iss) /\ Fits(b) BY <1>2 DEF Good
<1>6. Fits(y) /\ Young(y, now) BY <1>3, <1>4, <1>5, PastKeeps
<1>7. y.syn \in {0, iss} BY <1>1, <1>2, <1>3 DEF Since, SameStream, Keeps
<1>8. st' = y /\ Becomes(st') BY BecomesItself
<1>9. MovedFrom(b) BY <1>2, <1>3, <1>6, <1>7, <1>8 DEF MovedFrom, Good
<1> QED BY <1>8, <1>9 DEF Moved

LEMMA AckMoves ==
    ASSUME IInv, NEW upto \in 0 .. N + 1, Ack(upto)
    PROVE  st' \in SkipsOf(iss, [st EXCEPT !.out = <<>>], [st EXCEPT !.out = <<>>], upto)
           /\ (\A k \in DOMAIN st'.held : st'.held[k].from > upto) /\ Moved
           /\ \A c \in Told(st', "lose") : c < upto
<1> DEFINE b == [st EXCEPT !.out = <<>>]
           y == Acked(b, Plus(iss, upto))
<1>1. st.made /\ Becomes(y) /\ UNCHANGED <<iss, now>> BY DEF Ack
<1>2. Good(iss, st) BY <1>1 DEF IInv, NoStream
<1>3. Good(iss, b) /\ Since(b, b) /\ Told(b, "lose") = {} BY <1>2, KeptIs
<1>4. iss \in Seqs BY ReassemblyAssumption DEF IInv
<1>5. b \in Sounds(iss) /\ Ahead(b) BY <1>3 DEF Good
<1>6. y \in SkipsOf(iss, b, b, upto) /\ \A k \in DOMAIN y.held : y.held[k].from > upto
  <2> HIDE DEF b
  <2> QED BY <1>3, <1>4, <1>5, AckedIs
<1> HIDE DEF y
<1>7. Moved BY <1>1, <1>6, SkipsMove
<1>8. st' = y BY <1>1, BecomesItself
<1>9. \A c \in Told(y, "lose") : c < upto BY <1>3, <1>6 DEF SkipsOf
<1> QED BY <1>6, <1>7, <1>8, <1>9

LEMMA EveryStep == ASSUME 0 \notin StartSeqs, IInv, Next PROVE Moved /\ iss' \in StartSeqs /\ conn' \in 1 .. MaxConns
                                                                     /\ now' \in Times \cup {0}
<1>0. iss \in StartSeqs /\ conn \in 1 .. MaxConns /\ now \in Times \cup {0} BY DEF IInv
<1>1. ASSUME NEW from \in 0 .. N - 1, NEW len \in 1 .. MaxLen, NEW t \in Times, Data(from, len, t)
      PROVE  Moved /\ iss' = iss /\ conn' = conn /\ now' \in Times
  <2> DEFINE seg == Segment("none", from, len, t)
  <2>1. from + len <= N /\ Becomes(FeedSegment(seg)) /\ now' = t /\ UNCHANGED <<iss, conn>> BY <1>1 DEF Data
  <2>2. /\ seg.ctl = "none" /\ seg.seq = Plus(iss, from) /\ seg.from = from /\ seg.len = len /\ seg.t = t
        /\ seg.conn = conn BY DEF Segment
  <2>3. from \in 0 .. N /\ len \in Nat /\ len > 0 BY Window
  <2> HIDE DEF seg
  <2>4. Moved BY <1>0, <2>1, <2>2, <2>3, SegmentMoves
  <2> QED BY <2>1, <2>4
<1>2. ASSUME NEW from \in 0 .. N, NEW t \in Times, Fin(from, t)
      PROVE  Moved /\ iss' = iss /\ conn' = conn /\ now' \in Times \cup {now}
  <2> DEFINE seg == Segment("fin", from, N - from, t)
  <2>1. Becomes(FeedSegment(seg)) /\ now' = (IF from < N THEN t ELSE now) /\ UNCHANGED <<iss, conn>> BY <1>2 DEF Fin
  <2>2. /\ seg.ctl = "fin" /\ seg.seq = Plus(iss, from) /\ seg.from = from /\ seg.len = N - from /\ seg.t = t
        /\ seg.conn = conn BY DEF Segment
  <2>3. N - from \in Nat /\ from + (N - from) <= N /\ (N - from > 0 <=> from < N) BY Window
  <2> HIDE DEF seg
  <2>4. Moved BY <1>0, <2>1, <2>2, <2>3, SegmentMoves
  <2> QED BY <2>1, <2>4
<1>3. ASSUME NEW from \in 0 .. N, Rst(from) PROVE Moved /\ iss' = iss /\ conn' = conn /\ now' = now
  <2> DEFINE seg == Segment("fin", from, 0, now)
  <2>1. Becomes(FeedSegment(seg)) /\ UNCHANGED <<iss, conn, now>> BY <1>3 DEF Rst
  <2>2. /\ seg.ctl = "fin" /\ seg.seq = Plus(iss, from) /\ seg.from = from /\ seg.len = 0 /\ seg.conn = conn BY DEF Segment
  <2>3. from + 0 <= N /\ 0 \in Nat /\ ~(0 > 0) BY Window
  <2> HIDE DEF seg
  <2>4. Moved BY <1>0, <2>1, <2>2, <2>3, SegmentMoves
  <2> QED BY <2>1, <2>4
<1>4. ASSUME Syn PROVE Moved /\ iss' = iss /\ conn' = conn /\ now' = now
  <2> DEFINE seg == Segment("syn", 0, 0, now)
  <2>1. Becomes(FeedSegment(seg)) /\ UNCHANGED <<iss, conn, now>> BY <1>4 DEF Syn
  <2>2. /\ seg.ctl = "syn" /\ seg.seq = Plus(iss, 0) /\ seg.from = 0 /\ seg.len = 0 /\ seg.conn = conn BY DEF Segment
  <2>3. 0 + 0 <= N /\ 0 \in Nat /\ 0 \in 0 .. N /\ ~(0 > 0) BY Window
  <2> HIDE DEF seg
  <2>4. Moved BY <1>0, <2>1, <2>2, <2>3, SegmentMoves
  <2> QED BY <2>1, <2>4
<1>5. ASSUME Reconnect PROVE Moved /\ iss' \in StartSeqs /\ conn' \in 1 .. MaxConns /\ now' = now
  <2> DEFINE seg == [ctl |-> "syn", seq |-> iss', from |-> 0, len |-> 0, t |-> now, conn |-> conn']
  <2>1. /\ conn < MaxConns /\ conn' = conn + 1 /\ iss' \in StartSeqs /\ Becomes(FeedSegment(seg)) /\ now' = now
    BY <1>5 DEF Reconnect
  <2>2. /\ seg.ctl = "syn" /\ seg.seq = iss' /\ seg.from = 0 /\ seg.len = 0 /\ seg.conn = conn' OBVIOUS
  <2>3. 0 + 0 <= N /\ 0 \in Nat /\ 0 \in 0 .. N /\ 0 \in 0 .. N + 1 /\ ~(0 > 0) BY Window
  <2> DEFINE i == iss'
  <2>4. i \in StartSeqs /\ i \in Seqs /\ i \in Nat BY <2>1, ReassemblyAssumption, Window DEF Seqs
  <2>5. Plus(i, 0) = i
    <3> HIDE DEF i
    <3>1. Plus(i, 0) = IF i + 0 < Mod THEN i + 0 ELSE i + 0 - Mod BY <2>3, <2>4, PlusIs
    <3> QED BY <2>4, <3>1, Window DEF Seqs
  <2>6. conn' \in 1 .. MaxConns
    <3>1. MaxConns \in Nat BY ReassemblyAssumption
    <3> QED BY <1>0, <2>1, <3>1
  <2> HIDE DEF seg
  <2>7. Moved BY <2>1, <2>2, <2>3, <2>4, <2>5, <2>6, SegmentMoves
  <2> QED BY <2>1, <2>6, <2>7
<1>6. ASSUME NEW upto \in 0 .. N + 1, Ack(upto) PROVE Moved /\ iss' = iss /\ conn' = conn /\ now' = now
  <2>1. UNCHANGED <<iss, conn, now>> BY <1>6 DEF Ack
  <2> QED BY <1>6, <2>1, AckMoves
<1>7. ASSUME Flush PROVE Moved /\ iss' = iss /\ conn' = conn /\ now' = now
  <2> DEFINE b == [st EXCEPT !.out = <<>>]
             y == GiveUpAll(b)
  <2>1. st.made /\ Becomes(y) /\ UNCHANGED <<iss, conn, now>> BY <1>7 DEF Flush
  <2>2. Good(iss, st) BY <2>1 DEF IInv, NoStream
  <2>3. Good(iss, b) /\ Since(b, b) BY <2>2, KeptIs
  <2>4. iss \in Seqs BY <1>0, ReassemblyAssumption
  <2>5. b \in Sounds(iss) /\ Ahead(b) BY <2>3 DEF Good
  <2>6. y \in SkipsOf(iss, b, b, N)
    <3> HIDE DEF b
    <3> QED BY <2>3, <2>4, <2>5, GiveUpAllIs
  <2> HIDE DEF y
  <2>7. Moved BY <2>1, <2>6, SkipsMove
  <2> QED BY <2>1, <2>7
<1> QED BY <1>0, <1>1, <1>2, <1>3, <1>4, <1>5, <1>6, <1>7 DEF Next

-----------------------------------------------------------------------------
\* Theorems.

LEMMA Starts == Init => IInv
<1> SUFFICES ASSUME Init PROVE IInv OBVIOUS
<1>1. 1 \in 1 .. MaxConns BY ReassemblyAssumption
<1> QED BY <1>1 DEF Init, IInv

LEMMA ToldIsOfTheBytes ==
    ASSUME NEW i, NEW b, NEW x, Good(i, b), Good(i, x), Since(b, x)
    PROVE  /\ b.pos \in Nat /\ x.pos \in Nat /\ b.pos <= x.pos /\ x.pos <= N
           /\ Told(x, "write") \in SUBSET (b.pos .. x.pos - 1)
           /\ Told(x, "lose") = (b.pos .. x.pos - 1) \ Told(x, "write")
           /\ Told(x, "write") \in SUBSET (0 .. N - 1) /\ Told(x, "lose") \in SUBSET (0 .. N - 1)
<1>1. b.pos \in Nat /\ x.pos \in Nat /\ x.pos <= N BY StreamIs DEF Good
<1>2. /\ b.pos <= x.pos /\ Told(x, "write") \cup Told(x, "lose") = b.pos .. x.pos - 1
      /\ Told(x, "write") \cap Told(x, "lose") = {} BY DEF Since
<1>3. (b.pos .. x.pos - 1) \subseteq 0 .. N - 1 BY <1>1, Window
<1>4. Told(x, "write") \in SUBSET (b.pos .. x.pos - 1) /\ Told(x, "lose") \subseteq (b.pos .. x.pos - 1)
      /\ Told(x, "lose") = (b.pos .. x.pos - 1) \ Told(x, "write") BY <1>2
<1> QED BY <1>1, <1>2, <1>3, <1>4

LEMMA StaysSound == 0 \notin StartSeqs => (IInv /\ [Next]_vars => IInv')
<1> SUFFICES ASSUME 0 \notin StartSeqs, IInv, [Next]_vars PROVE IInv' OBVIOUS
<1>1. CASE Next
  <2>1. Moved /\ iss' \in StartSeqs /\ conn' \in 1 .. MaxConns /\ now' \in Times \cup {0} BY <1>1, EveryStep
  <2>2. PICK b : MovedFrom(b) BY <2>1 DEF Moved
  <2>3. Good(iss', st') /\ st'.syn \in {0, iss'} /\ Young(st', now') /\ Good(iss', b) /\ Since(b, st') BY <2>2 DEF MovedFrom
  <2>4. Told(st', "write") \in SUBSET (0 .. N - 1) /\ Told(st', "lose") \in SUBSET (0 .. N - 1)
    BY <2>3, ToldIsOfTheBytes
  <2>5. got' \in SUBSET (0 .. N - 1) /\ lost' \in SUBSET (0 .. N - 1) BY <2>1, <2>4 DEF Moved, Becomes, IInv
  <2>6. (Good(iss, st))' /\ (Young(st, now))' BY <2>3 DEF Good, Ahead, Fits, Young
  <2> QED BY <2>1, <2>3, <2>5, <2>6 DEF IInv
<1>2. CASE UNCHANGED vars
  <2>1. iss' = iss /\ conn' = conn /\ now' = now /\ got' = got /\ lost' = lost /\ st' = st BY <1>2 DEF vars
  <2>2. Good(iss, st) => (Good(iss, st))' BY <2>1 DEF Good, Ahead, Fits
  <2>3. Young(st, now) => (Young(st, now))' BY <2>1 DEF Young
  <2> QED BY <2>1, <2>2, <2>3 DEF IInv
<1> QED BY <1>1, <1>2

LEMMA StreamsAreSound == 0 \notin StartSeqs => (Spec => []IInv)
<1> SUFFICES ASSUME 0 \notin StartSeqs PROVE Spec => []IInv OBVIOUS
<1>1. Init => IInv BY Starts
<1>2. IInv /\ [Next]_vars => IInv' BY StaysSound
<1> QED BY <1>1, <1>2, PTL DEF Spec

LEMMA SoundIsInPlace == IInv => QueueInPlace
<1> SUFFICES ASSUME IInv PROVE QueueInPlace OBVIOUS
<1>1. iss \in Seqs BY ReassemblyAssumption DEF IInv
<1>2. CASE st = NoStream
  <2>1. ~st.made /\ st.out = <<>> BY <1>2 DEF NoStream
  <2>2. TypeOK BY <2>1 DEF TypeOK, IInv
  <2>3. FramerInPlace BY <2>1 DEF FramerInPlace
  <2>4. HeldInOrder BY <2>1 DEF HeldInOrder
  <2> QED BY <2>2, <2>3, <2>4 DEF QueueInPlace
<1>3. CASE Good(iss, st)
  <2>1. st \in Sounds(iss) /\ Ahead(st) /\ Fits(st) BY <1>3 DEF Good
  <2>2. /\ st.made = TRUE /\ st.synced = TRUE /\ st.next \in Seqs /\ st.syn \in Seqs
        /\ st.held \in Queues(iss) /\ st.heldBytes \in Nat /\ st.heldBytes = LenSum(st.held)
        /\ st.pos \in Nat /\ st.out \in Seq(Events) BY <2>1, StreamIs
  <2>3. st.held \in Seq(Pieces(iss)) /\ InOrder(st.held) BY <2>2 DEF Queues
  <2>4. ASSUME NEW k \in DOMAIN st.held
        PROVE  st.held[k].seq \in Seqs /\ st.held[k].t \in Times /\ BytesOf(st.held[k]) \subseteq 0 .. N - 1
    <3>1. st.held[k] \in Pieces(iss) BY <2>3
    <3>2. st.held[k].seq \in Seqs /\ st.held[k].t \in Times BY <3>1, PieceIs
    <3>3. ASSUME NEW c \in BytesOf(st.held[k]) PROVE c \in 0 .. N - 1
      <4>1. c \in HeldBytesOf(st.held) BY <3>3, HeldByte
      <4> QED BY <2>3, <4>1, HeldByteIs
    <3> QED BY <3>2, <3>3
  <2>5. st.heldBytes \in 0 .. MaxHeldBytes
    <3>1. MaxHeldBytes \in Nat BY ReassemblyAssumption
    <3> QED BY <2>1, <2>2, <3>1 DEF Fits
  <2>6. TypeOK BY <2>2, <2>4, <2>5 DEF TypeOK, IInv
  <2>7. FramerInPlace
    <3>1. \A k \in DOMAIN st.out : st.out[k] \in Events BY <2>2
    <3> QED BY <3>1, EventIs DEF FramerInPlace
  <2>8. HeldInOrder
    <3>1. \A k \in DOMAIN st.held : st.held[k].from > st.pos BY <2>1 DEF Ahead
    <3>2. \A j, k \in DOMAIN st.held : j < k => Before(st.held[j], st.held[k]) BY <2>3 DEF InOrder
    <3>3. Len(st.held) <= MaxHeld BY <2>1 DEF Fits
    <3> QED BY <2>2, <3>1, <3>2, <3>3 DEF HeldInOrder, Before
  <2> QED BY <2>6, <2>7, <2>8 DEF QueueInPlace
<1> QED BY <1>2, <1>3 DEF IInv

\* Whatever order and cut the segments come in, and wherever the sequence numbers wrap, the framer
\* is given each byte at the place it has counted to, and the queue is in order, ahead of it and
\* within its limits (place, hold, release, skip, and the condition of FeedSegment to let go), if
\* no connection starts at 0: that is the code's mark of a stream that has seen no SYN.
THEOREM BytesAreInPlace == 0 \notin StartSeqs => (Spec => []QueueInPlace)
<1> SUFFICES ASSUME 0 \notin StartSeqs PROVE Spec => []QueueInPlace OBVIOUS
<1>1. Spec => []IInv BY StreamsAreSound
<1>2. IInv => QueueInPlace BY SoundIsInPlace
<1> QED BY <1>1, <1>2, PTL

\* No segment waits behind a gap longer than maxGapWait past its stream's latest payload (stale and
\* the first loop of place).
THEOREM GapsAreGivenUpInTime == 0 \notin StartSeqs => (Spec => []NoneWaitsTooLong)
<1> SUFFICES ASSUME 0 \notin StartSeqs PROVE Spec => []NoneWaitsTooLong OBVIOUS
<1>1. Spec => []IInv BY StreamsAreSound
<1>2. IInv => NoneWaitsTooLong BY DEF IInv, NoneWaitsTooLong, Young, NoStream
<1> QED BY <1>1, <1>2, PTL

LEMMA MovingKeeps ==
    ASSUME Moved
    PROVE  /\ ~Opened(st') => Told(st', "lose") \cap HeldBytesOf(Held) = {}
           /\ ~Opened(st') /\ st.made =>
                  \A c \in HeldBytesOf(st.held) : c < st'.pos \/ c \in HeldBytesOf(st'.held)
<1>1. PICK b : MovedFrom(b) BY DEF Moved
<1>2. Since(b, st') /\ (Keeps(b) \/ Begins(b)) BY <1>1 DEF MovedFrom
<1>3. ASSUME ~Opened(st') PROVE st.made /\ b.held = st.held BY <1>2, <1>3 DEF Since, Begins, Keeps
<1>4. ASSUME ~Opened(st') PROVE Told(st', "lose") \cap HeldBytesOf(Held) = {} BY <1>2, <1>3, <1>4 DEF Since, Held
<1>5. ASSUME ~Opened(st'), st.made
      PROVE  \A c \in HeldBytesOf(st.held) : c < st'.pos \/ c \in HeldBytesOf(st'.held)
  BY <1>2, <1>3, <1>5 DEF Since
<1> QED BY <1>4, <1>5

\* A byte held past a gap is handed on or stays held: whatever gives up the gap, age, room, an ACK
\* or the end, it is not among the bytes given up (skip, release, hold).
THEOREM NothingHeldIsLost == 0 \notin StartSeqs => (Spec => HeldIsKept)
<1> SUFFICES ASSUME 0 \notin StartSeqs PROVE Spec => HeldIsKept OBVIOUS
<1>1. Spec => []IInv BY StreamsAreSound
<1>2. IInv /\ [Next]_vars => [~Opened(st') => Told(st', "lose") \cap HeldBytesOf(Held) = {}]_vars
  BY EveryStep, MovingKeeps
<1>3. IInv /\ [Next]_vars =>
        [~Opened(st') /\ st.made =>
            \A b \in HeldBytesOf(st.held) : b < st'.pos \/ b \in HeldBytesOf(st'.held)]_vars
  BY EveryStep, MovingKeeps
<1>4. Spec => HeldIsNeverLost BY <1>1, <1>2, PTL DEF Spec, HeldIsNeverLost
<1>5. Spec => HeldUntilPassed BY <1>1, <1>3, PTL DEF Spec, HeldUntilPassed
<1> QED BY <1>4, <1>5 DEF HeldIsKept

\* An ACK gives up every gap before the byte it acknowledges and nothing after it (acked).
THEOREM AcksGiveUpWhatTheyCover == 0 \notin StartSeqs => (Spec => AckGivesUpWhatItCovers)
<1> SUFFICES ASSUME 0 \notin StartSeqs PROVE Spec => AckGivesUpWhatItCovers OBVIOUS
<1>1. Spec => []IInv BY StreamsAreSound
<1>2. IInv /\ [Next]_vars =>
        [\A upto \in 0 .. N + 1 : Ack(upto) =>
            /\ \A b \in Told(st', "lose") : b < upto
            /\ \A i \in DOMAIN st'.held : st'.held[i].from > upto]_vars
  BY AckMoves
<1> QED BY <1>1, <1>2, PTL DEF Spec, AckGivesUpWhatItCovers

LEMMA StreamStarts == Init => Stream!Init
BY DEF Init, Stream!Init, NoStream

LEMMA StreamSteps == 0 \notin StartSeqs => (IInv /\ [Next]_vars => [Stream!Next]_(Stream!vars))
<1> SUFFICES ASSUME 0 \notin StartSeqs, IInv, [Next]_vars PROVE [Stream!Next]_(Stream!vars) OBVIOUS
<1>1. CASE UNCHANGED vars BY <1>1 DEF vars, Stream!vars
<1>2. CASE Next
  <2>1. Moved BY <1>2, EveryStep
  <2>2. PICK b : MovedFrom(b) BY <2>1 DEF Moved
  <2>3. Good(iss', st') /\ Good(iss', b) /\ Since(b, st') /\ (Keeps(b) \/ Begins(b)) BY <2>2 DEF MovedFrom
  <2> DEFINE given == Told(st', "write")
             range == b.pos .. st'.pos - 1
  <2>4. /\ b.pos \in Nat /\ st'.pos \in Nat /\ b.pos <= st'.pos /\ st'.pos <= N
        /\ given \in SUBSET range /\ Told(st', "lose") = range \ given
    BY <2>3, ToldIsOfTheBytes
  <2>5. /\ got'  = given \cup (IF Opened(st') THEN {} ELSE got)
        /\ lost' = (range \ given) \cup (IF Opened(st') THEN {} ELSE lost)
    BY <2>1, <2>4 DEF Moved, Becomes
  <2>6. st'.start = b.start /\ (Opened(st') <=> Opened(b)) BY <2>3 DEF Since, SameStream
  <2> HIDE DEF given
  <2>7. CASE Keeps(b)
    <3>1. b.pos = st.pos /\ b.start = st.start /\ ~Opened(st') BY <2>6, <2>7 DEF Keeps
    <3>2. st'.pos \in st.pos .. N BY <2>4, <3>1, Window
    <3>3. given \in SUBSET (st.pos .. st'.pos - 1) BY <2>4, <3>1
    <3>4. got' = got \cup given /\ lost' = lost \cup ((st.pos .. st'.pos - 1) \ given) BY <2>5, <3>1
    <3>5. st'.start = st.start BY <2>6, <3>1
    <3>6. Stream!Advance BY <3>2, <3>3, <3>4, <3>5 DEF Stream!Advance
    <3> QED BY <3>6 DEF Stream!Next
  <2>8. CASE Begins(b)
    <3>1. b.pos = st'.start /\ Opened(st') BY <2>6, <2>8 DEF Begins
    <3>2. st'.start \in 0 .. N /\ st'.pos \in st'.start .. N BY <2>4, <3>1, Window
    <3>3. given \in SUBSET (st'.start .. st'.pos - 1) BY <2>4, <3>1
    <3>4. got' = given /\ lost' = (st'.start .. st'.pos - 1) \ given BY <2>5, <3>1
    <3>5. Stream!Open BY <3>2, <3>3, <3>4 DEF Stream!Open
    <3> QED BY <3>5 DEF Stream!Next
  <2> QED BY <2>3, <2>7, <2>8
<1> QED BY <1>1, <1>2

\* Whatever the capture lost, repeated or reordered, what the framer is told is a direction in
\* order, each of its bytes given once or reported lost once (FeedSegment, acked, flush).
THEOREM ReassemblyIsAByteStream == 0 \notin StartSeqs => (Spec => ImplementsByteStream)
<1> SUFFICES ASSUME 0 \notin StartSeqs PROVE Spec => ImplementsByteStream OBVIOUS
<1>1. Spec => []IInv BY StreamsAreSound
<1>2. Init => Stream!Init BY StreamStarts
<1>3. IInv /\ [Next]_vars => [Stream!Next]_(Stream!vars) BY StreamSteps
<1>4. Spec => Stream!Spec BY <1>1, <1>2, <1>3, PTL DEF Spec, Stream!Spec
<1> QED BY <1>4 DEF ImplementsByteStream
=============================================================================
