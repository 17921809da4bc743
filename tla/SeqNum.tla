------------------------------- MODULE SeqNum -------------------------------
(***************************************************************************)
(* Sequence-number arithmetic of src/wire/stream.go: unsigned integers     *)
(* that wrap, compared by the sign of their difference.  In the code Mod   *)
(* is 2^32; it is a parameter so that TLC can reach the wraparound.        *)
(***************************************************************************)
EXTENDS Integers

CONSTANT Mod        \* how many sequence numbers there are

ASSUME ModAssumption == Mod \in Nat \ {0} /\ Mod % 2 = 0

Seqs == 0 .. (Mod - 1)

\* a + n and a - b in unsigned arithmetic
Plus(a, n)  == (a + n) % Mod
Minus(a, b) == (a - b) % Mod

\* int32(a - b) > 0: the difference is neither 0 nor a negative number
After(a, b) == Minus(a, b) \in 1 .. (Mod \div 2 - 1)
=============================================================================
