----------------------------- MODULE Reassembly -----------------------------
(***************************************************************************)
(* Reassembly of one direction of a TCP connection in src/wire/decoder.go: *)
(* FeedSegment's placing of a segment by its sequence number, the gaps     *)
(* given up for age, for room, for an ACK and at the end, and the SYN that *)
(* starts the direction over.                                              *)
(*                                                                         *)
(* A payload is the interval of the sender's bytes it carries: from, the   *)
(* position of its first byte in what the connection sends, and len.  The  *)
(* code never sees from; it has the sequence number alone, which wraps.    *)
(* What the framer is told is logged in st.out, with st.pos, the position  *)
(* the framer has reached by counting what it was told: the properties     *)
(* compare the two.                                                        *)
(***************************************************************************)
EXTENDS Naturals, Sequences, FiniteSets, SeqNum
LOCAL INSTANCE SequencesExt

CONSTANTS
    N,              \* bytes the sender sends in this direction
    MaxLen,         \* bytes a segment carries at most
    StartSeqs,      \* sequence numbers a connection's first byte may have
    Times,          \* capture times of segments
    MaxHeld,        \* maxHeld: segments held past a gap
    MaxHeldBytes,   \* maxHeldBytes: bytes held past a gap
    MaxGapWait,     \* maxGapWait: how long a segment waits behind a gap
    MaxConns        \* bound: connections that use the ports one after another

ASSUME ReassemblyAssumption ==
    /\ {N, MaxLen, MaxHeld, MaxHeldBytes} \subseteq Nat
    /\ {MaxGapWait, MaxConns} \subseteq Nat \ {0}
    /\ N + 1 < Mod \div 2      \* the bytes in flight fit the window, as TCP's do
    /\ StartSeqs \subseteq Seqs
    /\ Times \subseteq Nat

VARIABLES
    iss,            \* sequence number of the connection's first byte
    conn,           \* which connection uses the ports
    st,             \* the decoder's stream, or NoStream
    now,            \* history: the time of the last payload placed
    got, lost       \* history: the bytes given and reported lost

vars == <<iss, conn, st, now, got, lost>>

NoStream == [made |-> FALSE, synced |-> FALSE, conn |-> 0, start |-> 0, pos |-> 0, out |-> <<>>]

\* A fresh stream of the table, not yet synced.  syn is 0 until a SYN is seen.
NewStream(c) == [made |-> TRUE, synced |-> FALSE, next |-> 0, syn |-> 0, held |-> <<>>,
                 heldBytes |-> 0, conn |-> c, start |-> 0, pos |-> 0, out |-> <<>>]

-----------------------------------------------------------------------------
\* Handing over.  Every operator from here on takes a stream and returns it changed.

Write(s, from, len) ==
    [s EXCEPT !.next = Plus(@, len), !.pos = @ + len,
              !.out = Append(@, [kind |-> "write", at |-> s.pos, from |-> from, len |-> len])]

Lose(s, len) ==
    [s EXCEPT !.pos = @ + len,
              !.out = Append(@, [kind |-> "lose", at |-> s.pos, from |-> s.pos, len |-> len])]

\* The state of a loop that runs Step while Cond holds, at most n times.
While(Cond(_), Step(_), s, n) ==
    LET after[i \in 0 .. n] ==
            IF i = 0 THEN s ELSE IF Cond(after[i - 1]) THEN Step(after[i - 1]) ELSE after[i - 1]
    IN after[n]

\* Mutant: a held piece is handed over from its first byte, seen or not.
TakeFirstWhole(s) ==
    LET pc == Head(s.held)
    IN [Write(s, pc.from, pc.len) EXCEPT !.heldBytes = @ - pc.len, !.held = Tail(@)]

\* Hand over the unseen tail of a held piece, if it has one, and take it off the front.
TakeFirst(s) ==
    LET pc  == Head(s.held)
        old == Minus(s.next, pc.seq)
        s1  == IF old < pc.len THEN Write(s, pc.from + old, pc.len - old) ELSE s
    IN [s1 EXCEPT !.heldBytes = @ - pc.len, !.held = Tail(@)]

FirstInOrder(s) == s.held # <<>> /\ ~After(Head(s.held).seq, s.next)

Release(s) == While(FirstInOrder, TakeFirst, s, Len(s.held))

\* Mutant: the gap is given up to seq, past a held piece before it.
SkipPast(s, seq) == Release([Lose(s, Minus(seq, s.next)) EXCEPT !.next = seq])

\* Mutant: the gap is given up without telling the framer.
SkipSilently(s, seq) ==
    LET to == IF s.held # <<>> /\ After(seq, Head(s.held).seq) THEN Head(s.held).seq ELSE seq
    IN Release([s EXCEPT !.next = to])

\* Give up the oldest gap, up to seq or the first held piece.
Skip(s, seq) ==
    LET to == IF s.held # <<>> /\ After(seq, Head(s.held).seq) THEN Head(s.held).seq ELSE seq
    IN Release([Lose(s, Minus(to, s.next)) EXCEPT !.next = to])

SkipFirst(s) == Skip(s, Head(s.held).seq)

-----------------------------------------------------------------------------
\* Placing a segment p = [seq, from, len, t].

\* Mutant: only the first held piece's age is looked at.
IsStaleFirst(s, t) == s.held # <<>> /\ t - Head(s.held).t >= MaxGapWait

IsStale(s, t) == \E i \in DOMAIN s.held : t - s.held[i].t >= MaxGapWait

\* How many held pieces p goes behind: the code scans from the back.
Slot(s, p) ==
    CHOOSE i \in 0 .. Len(s.held) :
        /\ i > 0 => ~After(s.held[i].seq, p.seq)
        /\ \A j \in i + 1 .. Len(s.held) : After(s.held[j].seq, p.seq)

IsRetransmit(s, p) == LET i == Slot(s, p)
                      IN i > 0 /\ s.held[i].seq = p.seq /\ s.held[i].len >= p.len

HasRoom(s, p) == Len(s.held) # MaxHeld /\ s.heldBytes + p.len <= MaxHeldBytes

Hold(s, p) == IF IsRetransmit(s, p) THEN s
              ELSE [s EXCEPT !.held = InsertAt(@, Slot(s, p) + 1, p), !.heldBytes = @ + p.len]

IsOld(s, p)    == ~After(Plus(p.seq, p.len), s.next)
IsEarly(s, p)  == ~IsOld(s, p) /\ After(p.seq, s.next)
CanHold(s, p)  == IsRetransmit(s, p) \/ HasRoom(s, p)

Place(s, p) ==
    LET Aged(x)  == IsStale(x, p.t)
        Full(x)  == IsEarly(x, p) /\ ~CanHold(x, p)
        Room(x)  == Skip(x, p.seq)
        fresh    == While(Aged, SkipFirst, s, Len(s.held))
        placed   == While(Full, Room, fresh, Len(fresh.held) + 1)
        old      == Minus(placed.next, p.seq)
    IN IF IsOld(placed, p) THEN placed
       ELSE IF IsEarly(placed, p) THEN Hold(placed, p)
       ELSE Release(Write(placed, p.from + old, p.len - old))

\* Mutant: an ACK gives up every gap.
AckedAll(s, ack) == LET Holds(x) == x.held # <<>> IN While(Holds, SkipFirst, s, Len(s.held))

\* Give up the gaps that the receiver acknowledges.
Acked(s, ack) ==
    LET Covered(x) == x.held # <<>> /\ ~After(Head(x.held).seq, ack)
    IN While(Covered, SkipFirst, s, Len(s.held))

\* Every gap is given up at the end.
GiveUpAll(s) == LET Holds(x) == x.held # <<>> IN While(Holds, SkipFirst, s, Len(s.held))

-----------------------------------------------------------------------------
\* FeedSegment, from the lookup of the stream on.  A segment is [ctl, seq, from, len, t, conn]
\* with ctl "none", "syn" or "fin"; the seq of a SYN is the one after it, its payload's.

LookedUp(c) == IF st.made THEN [st EXCEPT !.out = <<>>] ELSE NewStream(c)

\* A SYN that is not the stream's own means a new connection on the same ports.
AfterSyn(s, seg) == LET s1 == IF s.synced /\ seg.seq # s.syn THEN NewStream(seg.conn) ELSE s
                    IN [s1 EXCEPT !.syn = seg.seq]

\* The first segment of a stream says where it begins.
Synced(s, seg) ==
    IF s.synced THEN s
    ELSE [s EXCEPT !.synced = TRUE, !.next = seg.seq, !.start = seg.from, !.pos = seg.from,
                   !.out = <<[kind |-> "open", at |-> seg.from, from |-> seg.from, len |-> 0]>>]

\* The condition on which FeedSegment lets the lock go: the FIN or RST is next in order.
Closes(s, seen, seg) ==
    IF seen /\ seg.ctl = "fin" /\ s.next = Plus(seg.seq, seg.len)
    THEN [s EXCEPT !.out = Append(@, [kind |-> "close", at |-> s.pos,
                                      from |-> seg.from + seg.len, len |-> 0])]
    ELSE s

FeedSegment(seg) ==
    LET s1 == IF seg.ctl = "syn" THEN AfterSyn(LookedUp(seg.conn), seg) ELSE LookedUp(seg.conn)
        s2 == Synced(s1, seg)
        pc == [seq |-> seg.seq, from |-> seg.from, len |-> seg.len, t |-> seg.t]
        s3 == IF seg.len > 0 THEN Place(s2, pc) ELSE s2
    IN Closes(s3, s1.synced, seg)

\* History: the bytes the step's events of a kind tell of.
Told(s, kind) == UNION {s.out[i].from .. s.out[i].from + s.out[i].len - 1 :
                        i \in {j \in DOMAIN s.out : s.out[j].kind = kind}}

Opened(s) == \E i \in DOMAIN s.out : s.out[i].kind = "open"

Becomes(s) ==
    /\ st' = s
    /\ got'  = Told(s, "write") \cup (IF Opened(s) THEN {} ELSE got)
    /\ lost' = Told(s, "lose") \cup (IF Opened(s) THEN {} ELSE lost)

-----------------------------------------------------------------------------
\* The capture: segments of the connection in any order, repeated, cut anew or missing.

Segment(ctl, from, len, t) ==
    [ctl |-> ctl, seq |-> Plus(iss, from), from |-> from, len |-> len, t |-> t, conn |-> conn]

Data(from, len, t) ==
    /\ from + len <= N
    /\ Becomes(FeedSegment(Segment("none", from, len, t)))
    /\ now' = t
    /\ UNCHANGED <<iss, conn>>

\* A FIN stands after the last byte; its segment may carry the last ones.
Fin(from, t) ==
    /\ Becomes(FeedSegment(Segment("fin", from, N - from, t)))
    /\ now' = IF from < N THEN t ELSE now
    /\ UNCHANGED <<iss, conn>>

\* A RST carries nothing, and may come at any byte.
Rst(from) ==
    /\ Becomes(FeedSegment(Segment("fin", from, 0, now)))
    /\ UNCHANGED <<iss, conn, now>>

\* The connection's SYN, or a copy of it.
Syn ==
    /\ Becomes(FeedSegment(Segment("syn", 0, 0, now)))
    /\ UNCHANGED <<iss, conn, now>>

\* A new connection takes the ports.  Its SYN is captured before its other segments.
Reconnect ==
    /\ conn < MaxConns
    /\ conn' = conn + 1
    /\ iss' \in StartSeqs \ {iss}
    /\ Becomes(FeedSegment([ctl |-> "syn", seq |-> iss', from |-> 0, len |-> 0, t |-> now,
                            conn |-> conn']))
    /\ UNCHANGED now

\* A segment of the other direction acknowledges every byte before upto, or the FIN at N.
Ack(upto) ==
    /\ st.made
    /\ Becomes(Acked([st EXCEPT !.out = <<>>], Plus(iss, upto)))
    /\ UNCHANGED <<iss, conn, now>>

Flush ==
    /\ st.made
    /\ Becomes(GiveUpAll([st EXCEPT !.out = <<>>]))
    /\ UNCHANGED <<iss, conn, now>>

Init ==
    /\ iss \in StartSeqs
    /\ conn = 1
    /\ st = NoStream
    /\ now = 0
    /\ got = {} /\ lost = {}

Next ==
    \/ \E from \in 0 .. N - 1, len \in 1 .. MaxLen, t \in Times : Data(from, len, t)
    \/ \E from \in {i \in 0 .. N : N - i <= MaxLen}, t \in Times : Fin(from, t)
    \/ \E from \in 0 .. N : Rst(from)
    \/ Syn
    \/ Reconnect
    \/ \E upto \in 0 .. N + 1 : Ack(upto)
    \/ Flush

Spec == Init /\ [][Next]_vars

-----------------------------------------------------------------------------
\* Properties.

Held == IF st.made THEN st.held ELSE <<>>

BytesOf(pc) == pc.from .. pc.from + pc.len - 1
HeldBytesOf(h) == UNION {BytesOf(h[i]) : i \in DOMAIN h}

\* The lengths of the pieces of h, added up.
LenSum(h) == LET sum[i \in 0 .. Len(h)] == IF i = 0 THEN 0 ELSE sum[i - 1] + h[i].len IN sum[Len(h)]

\* Every variable has its type, and the stream its shape.
TypeOK ==
    /\ iss \in StartSeqs /\ conn \in 1 .. MaxConns /\ now \in Times \cup {0}
    /\ got \in SUBSET (0 .. N - 1) /\ lost \in SUBSET (0 .. N - 1)
    /\ st.made =>
          /\ st.synced
          /\ {st.next, st.syn} \subseteq Seqs
          /\ st.heldBytes \in 0 .. MaxHeldBytes
          /\ \A i \in DOMAIN st.held :
                /\ st.held[i].seq \in Seqs
                /\ st.held[i].t \in Times
                /\ BytesOf(st.held[i]) \subseteq 0 .. N - 1

\* The sequence arithmetic never puts a byte in the wrong place: whatever order and cut the
\* segments come in, and wherever the numbers wrap, each byte handed to the framer is the one at
\* the position the framer has counted to, and the lock's connection is found closed only there
\* (place, deliver, release, skip, and the letGo condition of FeedSegment).
FramerInPlace == \A i \in DOMAIN st.out : st.out[i].from = st.out[i].at

\* The held queue is what release and skip rely on: in sequence order, strictly ahead of the
\* next byte, pieces of one start only ever longer, within both limits, and its byte count true
\* (hold, release).
HeldInOrder ==
    st.made =>
        /\ \A i \in DOMAIN st.held : st.held[i].from > st.pos
        /\ \A i, j \in DOMAIN st.held : i < j =>
              \/ st.held[i].from < st.held[j].from
              \/ st.held[i].from = st.held[j].from /\ st.held[i].len < st.held[j].len
        /\ Len(st.held) <= MaxHeld
        /\ st.heldBytes = LenSum(st.held)

\* What a stream keeps is where it belongs, in the queue and in the framer.
QueueInPlace == TypeOK /\ FramerInPlace /\ HeldInOrder

\* A byte that was held past a gap is never among the bytes given up, whatever gives up the gap:
\* age, room, an ACK or the end.
HeldIsNeverLost ==
    [][~Opened(st') => Told(st', "lose") \cap HeldBytesOf(Held) = {}]_vars

\* Nothing held is forgotten either: a held byte stays held until the framer's position passes it.
HeldUntilPassed ==
    [][~Opened(st') /\ st.made =>
        \A b \in HeldBytesOf(st.held) : b < st'.pos \/ b \in HeldBytesOf(st'.held)]_vars

\* A held byte is handed on or stays held: it is neither given up nor forgotten.
HeldIsKept == HeldIsNeverLost /\ HeldUntilPassed

\* No segment waits behind a gap longer than maxGapWait past its stream's latest payload (stale
\* and the first loop of place), also when capture times run backwards.
NoneWaitsTooLong ==
    st.made => \A i \in DOMAIN st.held : now - st.held[i].t < MaxGapWait

\* An ACK gives up every gap before the acknowledged byte, and nothing after it: what it reports
\* lost the receiver had got, and no piece from before it stays held.
AckGivesUpWhatItCovers ==
    [][\A upto \in 0 .. N + 1 : Ack(upto) =>
        /\ \A b \in Told(st', "lose") : b < upto
        /\ \A i \in DOMAIN st'.held : st'.held[i].from > upto]_vars

\* The comment in FeedSegment, "a new connection on the same ports": after the SYN of a new
\* connection the stream is that connection's, never the one before it.
SynStartsAfresh == st.made => st.conn = conn

\* Reassembly implements the in-order stream with each byte given or lost once.
Stream == INSTANCE ByteStream WITH
    start <- st.start, cursor <- st.pos, got <- got, lost <- lost

ImplementsByteStream == Stream!Spec
=============================================================================
