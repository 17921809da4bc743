------------------------------- MODULE Recording -------------------------------
(***************************************************************************)
(* A recording: the capture of live.go, through libpcap, the recorder of   *)
(* record.go that writes each of its packets to a file, and classic of     *)
(* pcap.go, which reads the file back, all of src/capture.  The device and *)
(* the disk are external.  The process may die, and a write may fail or    *)
(* fall short.  Other programs' recordings differ in what their header     *)
(* says.                                                                   *)
(***************************************************************************)
EXTENDS Octets, FiniteSets

CONSTANTS
    Packets,            \* bound: the packets a device delivers
    MaxPackets,         \* bound: how many
    Links,              \* bound: link types of devices, as the operating system numbers them
    Writers,            \* the recorder, and other programs: order, nanoseconds a tick, upper bits of the link type
    MaxSnap,            \* maxSnap
    Micro,              \* nanoseconds in a microsecond, 1000
    LinkBits            \* how many link types there are, 2^26

\* The recorder takes less of a packet than the reader refuses (snapLen, maxSnap).
RecordingAssumption ==
    /\ MaxPackets \in Nat /\ MaxSnap \in Nat /\ LinkBits \in Nat \ {0} /\ Micro \in Nat \ {0, 1}
    /\ \A p \in Packets : Len(p.data) <= MaxSnap
    /\ \A w \in Writers : w.upper % LinkBits = 0 /\ w.tick \in {1, Micro}

VARIABLES
    writer, link,       \* who records, what
    live,               \* "open", "closed", or how it ended: "eof", "failed", "dead"
    rec,                \* whether Live.rec is set
    file,               \* the bytes of the file
    torn,               \* history: whether the last write fell short
    seen,               \* history: the packets delivered, and whether since Record
    read,               \* "no", "reading", or how reading ended: "eof", "truncated", "refused"
    head,               \* what newClassic keeps of the header: order, tick, linkType
    pos, got            \* how much is read; the packets

vars == <<writer, link, live, rec, file, torn, seen, read, head, pos, got>>

reading == <<read, head, pos, got>>

-----------------------------------------------------------------------------
\* record.go

\* pcapNano and pcapMicro, most significant byte first.
Magic(tick) == IF tick = 1 THEN <<10, 11, 3, 13>> ELSE <<10, 11, 12, 13>>

Ordered(order, s) == IF order = "big" THEN s ELSE [i \in 1 .. Len(s) |-> s[Len(s) + 1 - i]]

\* fileLinkType
FileLinkType(dlt) == IF dlt \in {12, 14} THEN 101 ELSE dlt

\* newRecorder
Header ==
    LET o == writer.order IN
    Ordered(o, Magic(writer.tick)) \o Put16(o, 2) \o Put16(o, 4) \o [i \in 1 .. 8 |-> 0]
        \o Put32(o, MaxSnap) \o Put32(o, FileLinkType(link) + writer.upper)

\* recorder.write: the header of a packet and its data.
Entry(p) ==
    LET o == writer.order IN
    Put32(o, p.sec) \o Put32(o, p.ns \div writer.tick) \o Put32(o, Len(p.data)) \o Put32(o, p.orig) \o p.data

-----------------------------------------------------------------------------
\* live.go

Record ==
    /\ live = "open" /\ ~rec /\ read = "no" /\ rec' = TRUE /\ file' = Header
    /\ UNCHANGED <<writer, link, live, torn, seen, reading>>

\* The header could not be written: a2k gives the capture up.
RecordFails(n) ==
    /\ live = "open" /\ ~rec /\ n < Len(Header) /\ file' = UpTo(Header, n) /\ torn' = TRUE /\ live' = "failed"
    /\ UNCHANGED <<writer, link, rec, seen, reading>>

Seen(p, inFile) == seen' = Append(seen, [packet |-> p, recorded |-> inFile])

\* ReadSegment, with one packet: it is recorded, in one Write, before peel sees it.
Deliver(p) ==
    /\ live = "open" /\ Len(seen) < MaxPackets
    /\ file' = IF rec THEN file \o Entry(p) ELSE file
    /\ Seen(p, rec)
    /\ UNCHANGED <<writer, link, live, rec, torn, reading>>

\* The write fails, or falls short.
DeliverFails(p, n) ==
    /\ live = "open" /\ Len(seen) < MaxPackets /\ rec /\ n < Len(Entry(p))
    /\ file' = file \o UpTo(Entry(p), n) /\ torn' = (n > 0) /\ live' = "failed"
    /\ UNCHANGED <<writer, link, rec, seen, reading>>

DeviceFails ==
    /\ live = "open" /\ live' = "failed"
    /\ UNCHANGED <<writer, link, rec, file, torn, seen, reading>>

\* Close, from any goroutine; the read that waits ends.
Close ==
    /\ live = "open" /\ live' = "closed"
    /\ UNCHANGED <<writer, link, rec, file, torn, seen, reading>>

ReadEOF ==
    /\ live = "closed" /\ live' = "eof"
    /\ UNCHANGED <<writer, link, rec, file, torn, seen, reading>>

Die ==
    /\ live \in {"open", "closed"} /\ live' = "dead"
    /\ UNCHANGED <<writer, link, rec, file, torn, seen, reading>>

-----------------------------------------------------------------------------
\* pcap.go

\* What the file's magic says, if it is one: the byte order, and nanoseconds a tick.
Magics == {m \in [order : Orders, tick : {1, Micro}] : UpTo(file, 4) = Ordered(m.order, Magic(m.tick))}

\* newContainer and newClassic
OpenFile ==
    /\ live \notin {"open", "closed"} /\ read = "no"
    /\ IF Len(file) < 24 \/ Magics = {} THEN read' = "refused" /\ UNCHANGED <<head, pos>>
       ELSE \E m \in Magics :
            /\ read' = "reading" /\ pos' = 24
            /\ head' = [order |-> m.order, tick |-> m.tick, linkType |-> U32(m.order, file, 20) % LinkBits]
    /\ UNCHANGED <<writer, link, live, rec, file, torn, seen, got>>

Left == Len(file) - pos

\* The lengths in the next packet's header.
Stored == U32(head.order, file, pos + 8)

\* Mutant: a packet cut off is the end of the file.
EndLenient ==
    IF Left < 16 THEN "eof" ELSE IF Stored > MaxSnap THEN "refused" ELSE IF Left < 16 + Stored THEN "eof" ELSE "packet"

\* How classic.next ends.
End ==
    IF Left = 0 THEN "eof" ELSE IF Left < 16 THEN "truncated"
    ELSE IF Stored > MaxSnap THEN "refused" ELSE IF Left < 16 + Stored THEN "truncated" ELSE "packet"

ReadNext ==
    /\ read = "reading" /\ End = "packet"
    /\ got' = Append(got, [sec |-> U32(head.order, file, pos), ns |-> U32(head.order, file, pos + 4) * head.tick,
                           orig |-> U32(head.order, file, pos + 12), data |-> SubSeq(file, pos + 17, pos + 16 + Stored)])
    /\ pos' = pos + 16 + Stored
    /\ UNCHANGED <<writer, link, live, rec, file, torn, seen, read, head>>

ReadEnds ==
    /\ read = "reading" /\ End # "packet" /\ read' = End
    /\ UNCHANGED <<writer, link, live, rec, file, torn, seen, head, pos, got>>

Init ==
    /\ writer \in Writers /\ link \in Links /\ live = "open" /\ rec = FALSE /\ file = <<>> /\ torn = FALSE /\ seen = <<>>
    /\ read = "no" /\ head = [order |-> "none", tick |-> 0, linkType |-> 0] /\ pos = 0 /\ got = <<>>

Next ==
    \/ Record \/ (\E n \in 0 .. 23 : RecordFails(n))
    \/ \E p \in Packets : Deliver(p) \/ \E n \in 0 .. 16 + MaxSnap : DeliverFails(p, n)
    \/ DeviceFails \/ Close \/ ReadEOF \/ Die
    \/ OpenFile \/ ReadNext \/ ReadEnds

Spec == Init /\ [][Next]_vars

-----------------------------------------------------------------------------
\* Properties.

\* The packets that were to be recorded and could be.
Kept == LET k == SelectSeq(seen, LAMBDA s : s.recorded) IN [i \in 1 .. Len(k) |-> k[i].packet]

\* A packet as it is read from what w writes of it.
Coarse(w, p) == [p EXCEPT !.ns = (@ \div w.tick) * w.tick]

\* The reader takes the header for what it is: the writer's order and ticks, and the link
\* type the file is to have, without the bits above it (newClassic).
HeaderRead ==
    read \notin {"no", "refused"} => head = [order |-> writer.order, tick |-> writer.tick, linkType |-> FileLinkType(link)]

\* What is read is what was recorded, in order, to the tick of the time, and nothing else.
ReadAsRecorded ==
    Len(got) <= Len(Kept) /\ \A i \in 1 .. Len(got) : got[i] = Coarse(writer, Kept[i])

\* A recording is whole up to the last packet even if the process died (recorder's
\* comment): all is read and it ends well, unless a write fell short, which is told.
WholeUpToTheLast ==
    /\ read \in {"eof", "truncated"} => Len(got) = Len(Kept) /\ (read = "truncated" <=> torn)
    /\ read = "refused" => ~rec
===============================================================================
