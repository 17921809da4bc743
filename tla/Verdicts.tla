------------------------------- MODULE Verdicts -------------------------------
(***************************************************************************)
(* What Framing says of bytes while more of them arrive.  The framer keeps *)
(* what was refused once, so an answer may not change for the better.      *)
(***************************************************************************)
EXTENDS Framing

CONSTANTS Alphabet, MaxLen      \* bounds: the bytes that arrive, how many

VARIABLE seen                      \* the bytes so far

Arrives(b) == Len(seen) < MaxLen /\ seen' = Append(seen, b)

Init == seen = <<>>

Next == \E b \in Alphabet : Arrives(b)

Spec == Init /\ [][Next]_seen

-----------------------------------------------------------------------------
\* Properties.

\* The one form of n: its digits in Base, the least first, all but the last marked.
Encoded[n \in Nat] == IF n < Base THEN <<n>> ELSE <<(n % Base) + Base>> \o Encoded[n \div Base]

Power[k \in Nat] == IF k = 0 THEN 1 ELSE Base * Power[k - 1]

\* What fits: 32 bits, for five bytes of seven.
MaxValue == Power[VarintLen - 1] * (TopLimit + 1) - 1

\* uvarint reads a number exactly when seen begins with the shortest form of one that
\* fits, and asks for more exactly when such a form begins with seen (uvarint's comment).
UvarintIsCanonical ==
    LET Forms == {Encoded[n] : n \in 0 .. MaxValue}
        whole == {e \in Forms : Len(e) <= Len(seen) /\ SubSeq(seen, 1, Len(e)) = e}
        u     == Uvarint(seen)
    IN /\ u.width > 0 <=> whole # {}
       /\ u.width > 0 => whole = {SubSeq(seen, 1, u.width)} /\ Encoded[u.v] = SubSeq(seen, 1, u.width)
       /\ whole = {} => (u.width = 0 <=> Len(seen) < VarintLen /\ \A i \in 1 .. Len(seen) : seen[i] >= Base)

\* An offset refused while the bytes are fewer than a stalled frame's stays refused when
\* more arrive, so a search may forget it; and an undecided one does decide (resume's and
\* find's comments).
RefusedForGood ==
    seen # <<>> =>
        LET old == SubSeq(seen, 1, Len(seen) - 1)
        IN /\ Len(seen) < StallLimit /\ Pair(old, 0) = "no" => Pair(seen, 0) = "no"
           /\ Begins(old) = "no" => Begins(seen) = "no"
           /\ Len(seen) < StallLimit /\ Accepts(old) = "no" => Accepts(seen) = "no"
           /\ Pair(old, 0) = "yes" => Pair(seen, 0) = "yes"
=============================================================================
