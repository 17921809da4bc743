------------------------------- MODULE Framing -------------------------------
(***************************************************************************)
(* What the framer of src/wire/framer.go decides about bytes: varints,     *)
(* frames, bundles, envelopes, each as an operator on a sequence of bytes  *)
(* that may end before the answer is known.  Widths and limits are         *)
(* parameters, so that TLC reaches every one of them with few bytes.       *)
(* Offsets count from 0, as in the code.                                   *)
(***************************************************************************)
EXTENDS Integers, Sequences
LOCAL INSTANCE SequencesExt
LOCAL INSTANCE FiniteSetsExt

CONSTANTS
    Base,           \* values of a varint's byte, 128; a byte has twice as many
    VarintLen,      \* bytes of the longest varint, 5
    TopLimit,       \* the greatest last byte of the longest varint, 0x0F
    HeadLen,        \* bytes of a u32le, 4
    MaxFrame, StallLimit, MinBundle, MinEnvelope, MaxEnvelope,  \* as in the code
    FlagBytes,      \* bytes that may come before a bundle, 0xF0 to 0xFE
    Families,       \* inFamily: the second bytes of plausible opcodes
    Known,          \* Opcode.Known: the opcodes of the table, as pairs of bytes
    KnownOnly       \* Config.KnownOnly

Full == 2 * Base - 1        \* 0xFF
Bytes == 0 .. Full

ASSUME FramingAssumption ==
    /\ {Base, VarintLen, TopLimit, HeadLen, MaxFrame, StallLimit, MinBundle, MinEnvelope, MaxEnvelope}
         \subseteq Nat \ {0}
    /\ MinBundle = HeadLen + 3 /\ StallLimit <= MaxFrame
    /\ FlagBytes \subseteq Bytes \ {0, Full} /\ Families \subseteq Bytes \ {Full}
    /\ Known \subseteq Bytes \X Families

\* p from offset i on
From(p, i) == SubSeq(p, i + 1, Len(p))

\* The little-endian number of p's bytes.
Le(p) == FoldLeft(LAMBDA acc, b : [n |-> acc.n + b * acc.w, w |-> acc.w * 2 * Base],
                  [n |-> 0, w |-> 1], p).n

\* The u32le at offset i.
U32(p, i) == Le(SubSeq(p, i + 1, i + HeadLen))

\* The value of the varint whose bytes are p.
ValueOf(p) == FoldLeft(LAMBDA acc, b : [n |-> acc.n + (b % Base) * acc.w, w |-> acc.w * Base],
                       [n |-> 0, w |-> 1], p).n

\* uvarint: width 0 means p ends inside the varint, -1 that p does not begin with one.
Uvarint(p) ==
    LET last == {i \in 1 .. VarintLen : i <= Len(p) /\ p[i] < Base}
        Of(w) == IF (w = VarintLen /\ p[w] > TopLimit) \/ (w > 1 /\ p[w] = 0)
                 THEN [v |-> 0, width |-> -1]
                 ELSE [v |-> ValueOf(SubSeq(p, 1, w)), width |-> w]
    IN IF last # {} THEN Of(Min(last)) ELSE [v |-> 0, width |-> IF Len(p) < VarintLen THEN 0 ELSE -1]

\* plausible: b, two bytes or more of a body of this size, could begin a real frame.
Plausible(b, size) ==
    IF b[1] = Full /\ b[2] = Full THEN size >= MinBundle
    ELSE IF b[1] \in FlagBytes /\ b[2] = Full THEN size > MinBundle /\ (Len(b) < 3 \/ b[3] = Full)
    ELSE IF KnownOnly THEN <<b[1], b[2]>> \in Known
    ELSE b[2] \in Families

\* frameLen: the frame's length, 0 for more bytes needed and -1 for none; the varint's width.
FrameLen(p, trust) ==
    LET Of(v, head, n) ==
            IF head = 0 THEN [n |-> 0, head |-> 0]
            ELSE IF head < 0 \/ v < 6 \/ n > MaxFrame THEN [n |-> -1, head |-> 0]
            ELSE IF ~trust /\ Len(p) < head + 2 THEN [n |-> 0, head |-> head]
            ELSE IF ~trust /\ (~Plausible(From(p, head), n - head) \/ (n > Len(p) /\ n > StallLimit))
            THEN [n |-> -1, head |-> 0]
            ELSE [n |-> IF n > Len(p) THEN 0 ELSE n, head |-> head]
        With(u) == Of(u.v, u.width, u.v + u.width - 4)
    IN With(Uvarint(p))

\* p after any padding
Unpadded(p) ==
    From(p, Min({i \in DOMAIN p : p[i] # 0} \cup {Len(p) + 1}) - 1)

\* begins: a plausible frame begins at p, however long it is.
Begins(p) ==
    LET Of(v, head) == IF head = 0 THEN "maybe"
                       ELSE IF head < 0 \/ v < 6 \/ v + head - 4 > MaxFrame THEN "no"
                       ELSE IF Len(p) < head + 2 THEN "maybe"
                       ELSE IF Plausible(From(p, head), v - 4) THEN "yes" ELSE "no"
        With(u) == Of(u.v, u.width)
    IN With(Uvarint(p))

\* accepts: an untrusted stream would take a frame at p, complete or not.
Accepts(p) ==
    LET Of(fl) == IF fl.n < 0 THEN "no"
                  ELSE IF fl.head = 0 \/ Len(p) < fl.head + 2 THEN "maybe" ELSE "yes"
    IN Of(FrameLen(p, FALSE))

\* What an untrusted stream reads at p: a complete frame, none, or it cannot tell yet.
Complete(n) == IF n < 0 THEN "no" ELSE IF n = 0 THEN "maybe" ELSE "yes"

\* pair: p holds two complete frames in a row at i, under the untrusted rules.
Pair(p, i) ==
    LET Of(n) == IF n > 0 THEN Complete(FrameLen(Unpadded(From(p, i + n)), FALSE).n) ELSE Complete(n)
    IN Of(FrameLen(From(p, i), FALSE).n)

Believable(n) == n \in MinEnvelope .. MaxEnvelope

\* One header of chain: the one an envelope further than h.
NextHead(p, h) == h + HeadLen + U32(p, h)

\* What chain says of the header at h, as far as it is concerned.
Link(p, h, far) ==
    IF h + HeadLen > far THEN "no" ELSE IF h + HeadLen > Len(p) THEN "maybe"
    ELSE IF Believable(U32(p, h)) THEN "yes" ELSE "no"

\* chain: the header at h is followed by two more, one envelope apart, none past far.
Chain(p, h, far) ==
    LET Second(i) == IF Link(p, i, far) # "yes" THEN Link(p, i, far) ELSE Link(p, NextHead(p, i), far)
    IN Second(NextHead(p, h))

\* envelope: an envelope begins at p.
Envelope(p, afterFrame) ==
    LET Of(v) == IF v # "yes" \/ afterFrame THEN v ELSE Chain(p, 0, StallLimit)
        l     == Le(SubSeq(p, 1, Min({HeadLen, Len(p)})))
    IN IF l > MaxEnvelope \/ (Len(p) >= HeadLen /\ l < MinEnvelope) THEN "no"
       ELSE IF Len(p) < HeadLen THEN "maybe"
       ELSE IF Begins(Unpadded(p)) = "yes" THEN "no"
       ELSE Of(Accepts(From(p, HeadLen)))
=============================================================================
