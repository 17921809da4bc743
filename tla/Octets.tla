-------------------------------- MODULE Octets --------------------------------
(***************************************************************************)
(* Numbers in bytes, encoding/binary as src/capture uses it, in bytes of   *)
(* Base values.  Offsets begin at 0 as in the code.                        *)
(***************************************************************************)
EXTENDS Integers, Sequences

CONSTANT Base       \* how many values a byte has, 256

OctetsAssumption == Base \in Nat /\ Base > 1 /\ Base % 2 = 0

Orders == {"little", "big"}

Half == Base * Base         \* how many values 16 bits have

Word == Half * Half         \* how many values 32 bits have

U16(order, b, i) == IF order = "big" THEN b[i + 1] * Base + b[i + 2] ELSE b[i + 2] * Base + b[i + 1]

U32(order, b, i) ==
    IF order = "big" THEN U16(order, b, i) * Half + U16(order, b, i + 2)
                     ELSE U16(order, b, i + 2) * Half + U16(order, b, i)

\* A signed number of 64 bits.
S64(order, b, i) ==
    LET lo == U32(order, b, IF order = "big" THEN i + 4 ELSE i)
        hi == U32(order, b, IF order = "big" THEN i ELSE i + 4)
    IN (IF hi >= Word \div 2 THEN hi - Word ELSE hi) * Word + lo

Put16(order, n) == IF order = "big" THEN <<n \div Base, n % Base>> ELSE <<n % Base, n \div Base>>

Put32(order, n) ==
    IF order = "big" THEN Put16(order, n \div Half) \o Put16(order, n % Half)
                     ELSE Put16(order, n % Half) \o Put16(order, n \div Half)

Put64(order, n) ==
    LET hi == (n \div Word) % Word IN
    IF order = "big" THEN Put32(order, hi) \o Put32(order, n % Word) ELSE Put32(order, n % Word) \o Put32(order, hi)

From(b, i) == SubSeq(b, i + 1, Len(b))          \* b[i:]

Lesser(a, b) == IF a < b THEN a ELSE b

UpTo(b, n) == SubSeq(b, 1, Lesser(n, Len(b)))   \* b[:n], or all of b
===============================================================================
