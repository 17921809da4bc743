-------------------------------- MODULE Pcapng --------------------------------
(***************************************************************************)
(* The pcapng reader, src/capture/pcapng.go, with the Reader over it,      *)
(* src/capture/capture.go.  A program writes blocks to a file, external    *)
(* here, and dies anywhere in the last, or a byte of the file is altered;  *)
(* then the file is read, one block a step.                                *)
(***************************************************************************)
EXTENDS Octets, FiniteSets
LOCAL INSTANCE Folds
LOCAL INSTANCE Functions

CONSTANTS
    Blocks,             \* bound: the blocks a writer writes
    MaxBlocks,          \* bound: how many, after the first section header
    Cuts,               \* bound: how many bytes a torn file may lack
    Altered,            \* bound: the bytes an altered file may have instead of its own
    MaxBlock,           \* maxBlock, 16 MiB
    DefaultResolution,  \* 6, for microseconds
    MaxDecimal,         \* the largest power of ten of resolution, 19
    MaxBinary,          \* the largest power of two of resolution, 63
    PerSecond           \* nanoseconds in a second

PcapngAssumption ==
    /\ MaxBlocks \in Nat /\ Cuts \subseteq Nat \ {0} /\ Altered \subseteq 0 .. Base - 1
    /\ MaxBlock \in Nat /\ DefaultResolution \in 0 .. MaxDecimal /\ PerSecond \in Nat \ {0}

VARIABLES
    blocks,             \* history: what the file's blocks say
    file,               \* the bytes of the file
    sound,              \* history: how many blocks are as they were written
    at,                 \* "writing", "opening", "reading", or how reading ended: "eof", "truncated", "refused"
    pos,                \* how much of the file is read
    order, ifaces,      \* those of pcapng
    got, cut            \* the segments ReadSegment returned; Reader.cut

vars == <<blocks, file, sound, at, pos, order, ifaces, got, cut>>

reader == <<pos, order, ifaces, got, cut>>

-----------------------------------------------------------------------------
\* The writer.

SectionType == <<10, 13, 13, 10>>       \* ngSection
ByteOrder == <<1, 2, 3, 4>>             \* ngByteOrder, as a big-endian writer writes it

Reversed(s) == [i \in 1 .. Len(s) |-> s[Len(s) + 1 - i]]

Up4(n) == ((n + 3) \div 4) * 4

Padded(s) == s \o [i \in 1 .. Up4(Len(s)) - Len(s) |-> Base - 1]

Framed(o, type, body) == LET size == Put32(o, 12 + Len(body)) IN type \o size \o body \o size

Option(o, code, value) == Put16(o, code) \o Put16(o, Len(value)) \o Padded(value)

Stamp(b) == Put32(b.order, b.ticks \div Word) \o Put32(b.order, b.ticks % Word)
                \o Put32(b.order, Len(b.data)) \o Put32(b.order, b.orig) \o Padded(b.data)

\* The bytes of block b.
Written(b) ==
    LET o == b.order IN
    CASE b.kind = "section" ->
            Framed(o, SectionType, (IF o = "big" THEN ByteOrder ELSE Reversed(ByteOrder))
                                       \o Put16(o, 1) \o Put16(o, 0) \o [i \in 1 .. 8 |-> Base - 1])
      [] b.kind = "interface" ->
            Framed(o, Put32(o, 1), Put16(o, b.link) \o Put16(o, 0) \o Put32(o, b.snap) \o Option(o, 2, <<7, 7>>)
                                       \o Option(o, 9, <<b.resolution>>) \o Option(o, 14, Put64(o, b.offset)) \o Put32(o, 0))
      [] b.kind = "enhanced" -> Framed(o, Put32(o, 6), Put32(o, b.id) \o Stamp(b))
      [] b.kind = "obsolete" -> Framed(o, Put32(o, 2), Put16(o, b.id) \o Put16(o, 1) \o Stamp(b))
      [] b.kind = "simple"   -> Framed(o, Put32(o, 3), Put32(o, b.orig) \o Padded(b.data))
      [] b.kind = "other"    -> Framed(o, Put32(o, 5), <<0, 0, 0, 1>>)

\* The interfaces that block k of bs may name: those of its section, before it.
Described(bs, k) == {j \in 1 .. k - 1 : bs[j].kind = "interface" /\ \A i \in j .. k - 1 : bs[i].kind # "section"}

\* The one it names with id: the one with id others before it, or none.
Meant(bs, k, id) == {j \in Described(bs, k) : Cardinality({i \in Described(bs, k) : i < j}) = id}

\* A block is written in its section's order, and a simple packet's to its snap length.
Placed(b) ==
    LET o  == IF b.kind = "section" THEN b.order ELSE blocks[Len(blocks)].order
        in == Meant(Append(blocks, b), Len(blocks) + 1, 0)
        c  == IF b.kind = "simple" /\ \E j \in in : blocks[j].snap \in 1 .. Len(b.data)
              THEN UpTo(b.data, blocks[CHOOSE j \in in : TRUE].snap) ELSE IF b.kind = "simple" THEN b.data ELSE <<>>
    IN [x \in DOMAIN b \cup {"order"} |-> IF x = "order" THEN o ELSE IF x = "data" /\ b.kind = "simple" THEN c ELSE b[x]]

Write(b) ==
    /\ at = "writing" /\ Len(blocks) <= MaxBlocks
    /\ LET w == Placed(b) IN blocks' = Append(blocks, w) /\ file' = file \o Written(w)
    /\ sound' = sound + 1
    /\ UNCHANGED <<at, reader>>

\* The writer is done,
Finish == at = "writing" /\ at' = "opening" /\ UNCHANGED <<blocks, file, sound, reader>>

\* or dies within its last write,
Tear(n) ==
    /\ at = "writing" /\ at' = "opening" /\ n < Len(Written(blocks[Len(blocks)]))
    /\ file' = UpTo(file, Len(file) - n) /\ sound' = sound - 1
    /\ UNCHANGED <<blocks, reader>>

\* or a byte of the last block is altered later.
Alter(i, v) ==
    /\ at = "writing" /\ at' = "opening"
    /\ i \in Len(file) - Len(Written(blocks[Len(blocks)])) + 1 .. Len(file) /\ file[i] # v
    /\ file' = [file EXCEPT ![i] = v] /\ sound' = sound - 1
    /\ UNCHANGED <<blocks, reader>>

-----------------------------------------------------------------------------
\* pcapng.readBlock, of what is left of the file.

Rest == From(file, pos)

IsSection == UpTo(Rest, 4) = SectionType

\* The order that holds in the block.
OrderThere ==
    IF ~IsSection THEN order
    ELSE IF SubSeq(Rest, 9, 12) = Reversed(ByteOrder) THEN "little"
    ELSE IF SubSeq(Rest, 9, 12) = ByteOrder THEN "big" ELSE "none"

Size == U32(OrderThere, Rest, 4)

Body == SubSeq(Rest, 9, Size - 4)

\* How readBlock ends: with a block, or with an error, of which nothing follows.
Outcome ==
    CASE Rest = <<>> -> "eof"
      [] Len(Rest) \in 1 .. 7 \/ (IsSection /\ Len(Rest) < 12) -> "truncated"
      [] OTHER ->
         IF OrderThere = "none" \/ Size < 12 \/ Size % 4 # 0 \/ Size > MaxBlock THEN "refused"
         ELSE IF Len(Rest) < Size THEN "truncated"
         ELSE IF U32(OrderThere, Rest, Size - 4) # Size THEN "refused"
         ELSE IF IsSection /\ (Len(Body) < 16 \/ U16(OrderThere, Body, 4) # 1) THEN "refused"
         ELSE "block"

Type == IF IsSection THEN "section"
        ELSE LET t == U32(order, Rest, 0) IN
             CASE t = 1 -> "interface" [] t = 2 -> "obsolete" [] t = 3 -> "simple" [] t = 6 -> "enhanced"
               [] OTHER -> "other"

-----------------------------------------------------------------------------
\* pcapng.iface.

\* The options of an interface description, as long as they lie in it.
Options(b) ==
    LET from[i \in Nat] ==
            IF i + 4 > Len(b) \/ U16(order, b, i) = 0 THEN <<>>
            ELSE IF i + 4 + U16(order, b, i + 2) > Len(b) THEN <<[code |-> 0, value |-> <<>>]>>
            ELSE <<[code |-> U16(order, b, i), value |-> SubSeq(b, i + 5, i + 4 + U16(order, b, i + 2))]>>
                    \o from[i + 4 + Up4(U16(order, b, i + 2))]
    IN from[8]

\* resolution: ticks a second, none for 0.
Resolution(v) ==
    IF v >= Base \div 2 THEN IF v - Base \div 2 > MaxBinary THEN 0 ELSE 2 ^ (v - Base \div 2)
    ELSE IF v > MaxDecimal THEN 0 ELSE 10 ^ v

\* The last option with this code and length.
LastOf(options, code, size, default) ==
    LET those == SelectSeq(options, LAMBDA o : o.code = code /\ Len(o.value) = size)
    IN IF those = <<>> THEN default ELSE those[Len(those)].value

Iface(b) ==
    LET With(options) == [link   |-> U16(order, b, 0),
                          snap   |-> U32(order, b, 4),
                          ticks  |-> Resolution(LastOf(options, 9, 1, <<DefaultResolution>>)[1]),
                          offset |-> S64(order, LastOf(options, 14, 8, [i \in 1 .. 8 |-> 0]), 0)]
    IN With(Options(b))

IfaceIsGood(b) ==
    /\ Len(b) >= 8
    /\ \A i \in 1 .. Len(Options(b)) :
          LET o == Options(b)[i] IN o.code # 0 /\ (o.code = 9 /\ Len(o.value) = 1 => Resolution(o.value[1]) > 0)

\* iface.time
TimeOf(in, t) == [sec |-> t \div in.ticks + in.offset, ns |-> ((t % in.ticks) * PerSecond) \div in.ticks]

-----------------------------------------------------------------------------
\* pcapng.packetBlock and simpleBlock.

Id(b) == IF Type = "obsolete" THEN U16(order, b, 0) ELSE U32(order, b, 0)

PacketIsGood(b) ==
    IF Type = "simple" THEN Len(b) >= 4 /\ ifaces # <<>>
    ELSE Len(b) >= 20 /\ Id(b) < Len(ifaces) /\ U32(order, b, 12) <= Len(b) - 20

PacketOf(b) ==
    LET in   == ifaces[IF Type = "simple" THEN 1 ELSE Id(b) + 1]
        size == Lesser(Lesser(U32(order, b, 0), Len(b) - 4), IF in.snap > 0 THEN in.snap ELSE Len(b) - 4)
    IN IF Type = "simple"
       THEN [time |-> [sec |-> 0, ns |-> 0], link |-> in.link, ifIndex |-> 0,
             orig |-> U32(order, b, 0), data |-> SubSeq(b, 5, 4 + size)]
       ELSE [time |-> TimeOf(in, U32(order, b, 4) * Word + U32(order, b, 8)), link |-> in.link, ifIndex |-> Id(b),
             orig |-> U32(order, b, 16), data |-> SubSeq(b, 21, 20 + U32(order, b, 12))]

\* Whether peel finds a segment in a packet, which Peel says: here, by its first byte.
Peels(p) == p.data # <<>> /\ p.data[1] = 1

-----------------------------------------------------------------------------
\* Reader.ReadSegment, a block of pcapng.next at a time.

\* newContainer: whether the file begins as pcapng.
Open ==
    /\ at = "opening" /\ at' = IF UpTo(file, 4) = SectionType THEN "reading" ELSE "refused"
    /\ UNCHANGED <<blocks, file, sound, reader>>

Consume == pos' = pos + Size

\* Mutant: a section keeps the interfaces of the one before.
ReadSectionKeeping ==
    /\ at = "reading" /\ Outcome = "block" /\ Type = "section"
    /\ order' = OrderThere /\ Consume
    /\ UNCHANGED <<blocks, file, sound, at, ifaces, got, cut>>

ReadSection ==
    /\ at = "reading" /\ Outcome = "block" /\ Type = "section"
    /\ order' = OrderThere /\ ifaces' = <<>> /\ Consume
    /\ UNCHANGED <<blocks, file, sound, at, got, cut>>

ReadInterface ==
    /\ at = "reading" /\ Outcome = "block" /\ Type = "interface" /\ IfaceIsGood(Body)
    /\ ifaces' = Append(ifaces, Iface(Body)) /\ Consume
    /\ UNCHANGED <<blocks, file, sound, at, order, got, cut>>

ReadPacket ==
    /\ at = "reading" /\ Outcome = "block" /\ Type \in {"enhanced", "obsolete", "simple"} /\ PacketIsGood(Body)
    /\ LET With(p) ==
               /\ got' = IF Peels(p) THEN Append(got, p) ELSE got
               /\ cut' = IF Peels(p) /\ Len(p.data) < p.orig THEN cut + 1 ELSE cut
       IN With(PacketOf(Body))
    /\ Consume
    /\ UNCHANGED <<blocks, file, sound, at, order, ifaces>>

SkipBlock ==
    /\ at = "reading" /\ Outcome = "block" /\ Type = "other" /\ Consume
    /\ UNCHANGED <<blocks, file, sound, at, order, ifaces, got, cut>>

BadBlock ==
    /\ at = "reading" /\ Outcome = "block"
    /\ \/ Type = "interface" /\ ~IfaceIsGood(Body)
       \/ Type \in {"enhanced", "obsolete", "simple"} /\ ~PacketIsGood(Body)
    /\ at' = "refused"
    /\ UNCHANGED <<blocks, file, sound, reader>>

EndRead ==
    /\ at = "reading" /\ Outcome # "block" /\ at' = Outcome
    /\ UNCHANGED <<blocks, file, sound, reader>>

Init ==
    /\ \E o \in Orders : blocks = <<[kind |-> "section", order |-> o]>>
    /\ file = Written(blocks[1]) /\ sound = 1 /\ at = "writing"
    /\ pos = 0 /\ order = "none" /\ ifaces = <<>> /\ got = <<>> /\ cut = 0

Writes ==
    \/ \E b \in Blocks : Write(b)
    \/ Finish
    \/ \E n \in Cuts : Tear(n)
    \/ \E i \in 1 .. Len(file), v \in Altered : Alter(i, v)

Reads == Open \/ ReadSection \/ ReadInterface \/ ReadPacket \/ SkipBlock \/ BadBlock \/ EndRead

Next == Writes \/ Reads

Spec == Init /\ [][Next]_vars

-----------------------------------------------------------------------------
\* Properties.

IsPacket(b) == b.kind \in {"enhanced", "obsolete", "simple"}

\* Ticks a second of an interface block.
PerTick(b) == IF b.resolution < Base \div 2 THEN 10 ^ b.resolution ELSE 2 ^ (b.resolution - Base \div 2)

\* A block that can be read: a packet is of an interface its section describes.
Readable(k) ==
    /\ IsPacket(blocks[k]) => Meant(blocks, k, blocks[k].id) # {}
    /\ blocks[k].kind = "interface" => PerTick(blocks[k]) <= IF blocks[k].resolution < Base \div 2
                                                            THEN 10 ^ MaxDecimal ELSE 2 ^ MaxBinary

\* The blocks that are to be read: those before the first damaged or unreadable one.
Whole == {k \in 1 .. sound : \A j \in 1 .. k : Readable(j)}

\* The blocks of those that hold a segment, in order.
Segments == SelectSeq([k \in 1 .. Cardinality(Whole) |-> k],
                      LAMBDA k : IsPacket(blocks[k]) /\ Peels(blocks[k]))

Ended == at \in {"eof", "truncated", "refused"}

\* An interface has a resolution, so no time divides by zero; and the reader is in the
\* file, with a byte order once it has read some of it.
TypeOK ==
    /\ sound \in {Len(blocks), Len(blocks) - 1} /\ pos \in 0 .. Len(file)
    /\ order \in IF pos > 0 THEN Orders ELSE {"none"}
    /\ \A i \in 1 .. Len(ifaces) : ifaces[i].ticks > 0
    /\ cut <= Len(got)

\* Packet p is the one block k was written for: on the link of the interface its section
\* describes, its bytes whole, at its time to the nanosecond below (packetBlock, simpleBlock).
IsOf(p, k) ==
    LET b  == blocks[k]
        in == blocks[CHOOSE j \in Meant(blocks, k, b.id) : TRUE]
    IN /\ p.data = b.data /\ p.orig = b.orig /\ p.link = in.link /\ p.ifIndex = b.id
       /\ p.time.ns \in 0 .. PerSecond - 1
       /\ IF b.kind = "simple" THEN p.time.sec = 0 /\ p.time.ns = 0
          ELSE (p.time.sec - in.offset) * PerSecond + p.time.ns = (b.ticks * PerSecond) \div PerTick(in)

\* What is read is what was written, in order, whatever the file's sections and orders;
\* damage takes away nothing before it, and nothing is read that names no interface.
ReadAsWritten ==
    /\ \A i \in 1 .. Lesser(Len(got), Len(Segments)) : IsOf(got[i], Segments[i])
    /\ Ended => Len(got) >= Len(Segments)
    /\ Len(got) <= Len(Segments) + IF Cardinality(Whole) < Len(blocks) /\ Cardinality(Whole) = sound THEN 1 ELSE 0

\* CutShort is how many of the segments read are shorter than on the wire (its comment).
CutIsCounted ==
    Ended /\ sound = Len(blocks) =>
        cut = Cardinality({i \in 1 .. Len(Segments) : Len(blocks[Segments[i]].data) < blocks[Segments[i]].orig})

\* A file ends well if it is whole, and a torn one never does: the reader says it is
\* truncated, unless it stopped at something else before.
EndIsTold ==
    Ended =>
        LET written == FoldFunction(LAMBDA b, n : n + Len(Written(b)), 0, blocks) IN
        /\ at = "eof" => Len(file) = written
        /\ sound = Len(blocks) /\ Cardinality(Whole) = sound => at = "eof"
        /\ Len(file) < written /\ Cardinality(Whole) = sound /\ Len(file) >= 4 => at = "truncated"
===============================================================================
