-------------------------------- MODULE Framer --------------------------------
(***************************************************************************)
(* The framer of src/wire/framer.go, with the envelopes of envelope.go and *)
(* the search of scan.go: one stream's bytes come in writes of any length, *)
(* with gaps between them, and go as frames.                               *)
(***************************************************************************)
EXTENDS Framing
LOCAL INSTANCE SequencesExt
LOCAL INSTANCE FiniteSetsExt

CONSTANTS
    MaxBuf, Probation, MaxDepth, MaxPlain, MaxGrowth,   \* as in the code, Probation is probationFrames
    Lz4,            \* the plaintexts that LZ4 blocks decompress to, a function of the block
    MaxFed          \* bound: bytes written or lost

ASSUME FramerAssumption ==
    /\ {MaxBuf, Probation, MaxDepth, MaxPlain, MaxGrowth, MaxFed} \subseteq Nat
    /\ MaxFrame <= MaxBuf

VARIABLES
    f,              \* the framer
    out,            \* the frames emitted
    fed             \* how many bytes were written or lost

vars == <<f, out, fed>>

-----------------------------------------------------------------------------
\* scan: a search over a buffer that grows.

NewScan == [done |-> 0, pending |-> <<>>]

\* Mutant: an offset that more bytes may decide is not looked at again.
UndecidedForgotten(s, start, to, v) == <<>>

\* The offsets still undecided: of those that were, and of those from start on.
Undecided(s, start, to, v) ==
    SelectSeq(s.pending \o [i \in 1 .. (to - start) |-> start + i - 1], LAMBDA i : v[i] = "maybe")

\* scan.find, where v is what its argument says of each offset: the first offset
\* the answer is yes for, or -1, and the scan as it is left.
Find(s, from, to, v) ==
    LET Of(start, again, new) ==
            IF again # <<>> THEN [at |-> again[1], scan |-> s]
            ELSE IF new # {} THEN [at |-> Min(new), scan |-> s]
            ELSE [at |-> -1, scan |-> [done |-> Max({start, to}), pending |-> Undecided(s, start, to, v)]]
        After(start) == Of(start, SelectSeq(s.pending, LAMBDA i : v[i] = "yes"),
                           {i \in start .. to - 1 : v[i] = "yes"})
    IN After(Max({s.done, from}))

-----------------------------------------------------------------------------
\* Envelopes.

NoEnvelopes == [on |-> FALSE, lost |-> FALSE, left |-> 0, head |-> <<>>, search |-> NewScan]

\* Mutant: what is lost of the body is not accounted for.
SkipKeepingLeft(e, n) ==
    IF ~e.lost /\ n <= e.left THEN e
    ELSE [e EXCEPT !.lost = TRUE, !.left = 0, !.head = <<>>, !.search = NewScan]

\* envelopes.skip: n bytes are lost.
SkipLost(e, n) ==
    IF ~e.lost /\ n <= e.left THEN [e EXCEPT !.left = @ - n]
    ELSE [e EXCEPT !.lost = TRUE, !.left = 0, !.head = <<>>, !.search = NewScan]

\* One byte of envelopes.strip.
StripByte(s, b) ==
    LET head == Append(s.env.head, b)
    IN IF s.over THEN [s EXCEPT !.out = Append(@, b)]
       ELSE IF s.env.left > 0 THEN [s EXCEPT !.out = Append(@, b), !.env.left = @ - 1]
       ELSE IF Len(head) < HeadLen THEN [s EXCEPT !.env.head = head]
       ELSE IF Believable(Le(head)) THEN [s EXCEPT !.env.left = Le(head), !.env.head = <<>>]
       ELSE [s EXCEPT !.over = TRUE, !.out = @ \o head, !.env.on = FALSE, !.env.head = <<>>]

\* framer.strip of the buffer from offset from on.
Strip(g, from) ==
    LET With(s) == [g EXCEPT !.env = s.env, !.buf = SubSeq(@, 1, from) \o s.out, !.aligned = @ /\ ~s.over]
    IN With(FoldLeft(StripByte, [env |-> g.env, out |-> <<>>, over |-> FALSE], From(g.buf, from)))

-----------------------------------------------------------------------------
\* Frames and bundles.

\* walk: the bodies of the frames p holds, up to the first bytes that are none.
Bodies(p) ==
    LET after[i \in 0 .. Len(p)] ==
            LET Of(fl) == IF fl.n <= 0 THEN <<>>
                          ELSE <<SubSeq(p, i + fl.head + 1, i + fl.n)>> \o after[i + fl.n]
            IN IF i = Len(p) THEN <<>>
               ELSE IF p[i + 1] = 0 THEN after[i + 1]
               ELSE Of(FrameLen(From(p, i), TRUE))
    IN after[0]

\* unwrap: the plaintext of a bundle at this depth, with used bytes of plaintext
\* around it, or none: the set of it.
Plaintext(body, depth, used) ==
    LET Of(size, block) ==
            IF depth >= MaxDepth \/ size = 0 \/ size > MaxGrowth * Len(block) \/ size > MaxPlain - used
            THEN {} ELSE {plain \in {Lz4[b] : b \in DOMAIN Lz4 \cap {block}} : Len(plain) = size}
    IN IF Len(body) < MinBundle THEN {} ELSE Of(U32(body, 2), From(body, 2 + HeadLen))

\* A bundle that is dropped when it does not unwrap.
IsBundle(body) == body[1] = Full /\ body[2] = Full

IsFlagged(body) == Len(body) > MinBundle /\ body[1] \in FlagBytes /\ body[2] = Full /\ body[3] = Full

\* parse: the bodies it emits, and whether they came in a bundle.
Parse[body \in Seq(Bytes), depth \in 0 .. MaxDepth, used \in 0 .. MaxPlain] ==
    LET Inner(bodies, n) == FlattenSeq([i \in DOMAIN bodies |-> Parse[bodies[i], depth + 1, used + n]])
        plain == IF IsBundle(body) THEN Plaintext(body, depth, used)
                 ELSE IF IsFlagged(body) THEN Plaintext(Tail(body), depth, used) ELSE {}
        Of(ps) == IF ps # {} THEN LET p == CHOOSE p \in ps : TRUE IN Inner(Bodies(p), Len(p))
                  ELSE IF IsBundle(body) THEN <<>>
                  ELSE <<[body |-> body, bundled |-> depth > 0]>>
    IN Of(plain)

-----------------------------------------------------------------------------
\* The buffer.  sound is a history: every search kept between writes found what
\* one from the start would have.

New == [buf |-> <<>>, begun |-> FALSE, over |-> FALSE, aligned |-> FALSE, probation |-> 0,
        skipped |-> 0, resync |-> FALSE, resyncs |-> 0, env |-> NoEnvelopes, waiting |-> FALSE,
        ahead |-> NewScan, sound |-> TRUE]

Trusted(g) == g.aligned /\ g.probation = 0

\* follows: a plausible frame or an envelope begins at p, after any padding.
Follows(g, p) ==
    LET Of(v) == IF v # "no" THEN v ELSE Begins(Unpadded(p))
    IN Of(IF g.env.on THEN "no" ELSE Envelope(p, TRUE))

\* The steps of pump's loop.  s is [g, off, kept, run, out]: the framer, pump's
\* locals, whether the loop goes on, and the frames emitted.

\* The frame of n bytes at p is taken.
Take(s, p, n, head) ==
    LET again == s.g.skipped > 0
        first == s.g.resync \/ again
        With(bodies) ==
            [s EXCEPT !.off = @ + n,
                 !.g.skipped = 0, !.g.begun = TRUE, !.g.aligned = TRUE,
                 !.g.probation = IF again THEN Probation ELSE IF @ > 0 THEN @ - 1 ELSE 0,
                 !.g.resyncs = IF again THEN @ + 1 ELSE @,
                 !.g.resync = first /\ bodies = <<>>,
                 !.out = @ \o [i \in DOMAIN bodies |->
                     [body |-> bodies[i].body, bundled |-> bodies[i].bundled, resynced |-> first /\ i = 1]]]
    IN With(Parse[SubSeq(p, head + 1, n), 0, 0])

\* Where resume's search goes on from.
SearchFrom(s) == IF s.kept /\ s.off = 0 THEN s.g.ahead ELSE NewScan

\* The frame at p is incomplete.  An unaligned stream looks for two further on.
Wait(s, p) ==
    LET With(found, fresh) ==
            IF found.at = -1
            THEN [s EXCEPT !.run = FALSE, !.g.waiting = TRUE, !.g.ahead = found.scan,
                           !.g.sound = @ /\ fresh = -1]
            ELSE [s EXCEPT !.off = @ + found.at, !.g.begun = TRUE, !.g.skipped = @ + found.at,
                           !.g.ahead = found.scan, !.g.sound = @ /\ fresh = found.at]
        Search(v) == With(Find(SearchFrom(s), 1, Len(p), v), Find(NewScan, 1, Len(p), v).at)
    IN IF s.g.aligned THEN [s EXCEPT !.run = FALSE]
       ELSE Search([i \in 1 .. Len(p) - 1 |-> Pair(p, i)])

\* A byte of garbage.
Garbage(s) ==
    [s EXCEPT !.off = @ + 1, !.g.begun = TRUE, !.g.aligned = FALSE, !.g.skipped = @ + 1]

\* The frame at p, if one is.
AtFrame(s, p) ==
    LET Of(n, head) ==
            IF n > 0 /\ (s.g.aligned \/ Follows(s.g, From(p, n)) # "no") THEN Take(s, p, n, head)
            ELSE IF n = 0 THEN Wait(s, p) ELSE Garbage(s)
        With(fl) == Of(fl.n, fl.head)
    IN With(FrameLen(p, Trusted(s.g)))

\* What pump asks of p before it looks for a frame: envelopes begin only where a
\* frame could, after one or at the start.
MayOpen(s, p) == IF ~s.g.env.on /\ (s.g.aligned \/ ~s.g.begun) THEN Envelope(p, s.g.aligned) ELSE "no"

PumpStep(s) ==
    LET Of(p, env) ==
            IF env = "yes" THEN [s EXCEPT !.g = Strip([@ EXCEPT !.env.on = TRUE], s.off), !.kept = FALSE]
            ELSE IF env = "maybe" /\ ~s.g.over THEN [s EXCEPT !.run = FALSE]
            ELSE IF p[1] = 0 THEN [s EXCEPT !.off = @ + 1]
            ELSE AtFrame(s, p)
        At(p) == Of(p, MayOpen(s, p))
    IN IF s.off = Len(s.g.buf) THEN [s EXCEPT !.run = FALSE] ELSE At(From(s.g.buf, s.off))

\* The loop, which takes a byte at least, or starts the envelopes, in each step.
Looped(s) == FoldLeft(LAMBDA t, i : IF t.run THEN PumpStep(t) ELSE t, s,
                      [i \in 1 .. 2 * Len(s.g.buf) + 2 |-> i])

\* pump: the framer w.g, with what it emits after w.out.
Pump(w) ==
    LET With(s) == [w EXCEPT !.g = [s.g EXCEPT !.buf = From(@, s.off)], !.out = s.out]
    IN With(Looped([g |-> [w.g EXCEPT !.waiting = FALSE], off |-> 0, kept |-> w.g.waiting,
                    run |-> TRUE, out |-> w.out]))

\* Mutant: the buffered bytes stay, and what follows the gap is read on from them.
DroppedNone(w, n) ==
    [w EXCEPT !.g.skipped = @ + n, !.g.waiting = FALSE,
              !.g.env = IF @.on THEN SkipLost(@, n) ELSE @]

\* The buffered bytes and n more are lost.
Dropped(w, n) ==
    [w EXCEPT !.g.skipped = @ + Len(w.g.buf) + n, !.g.buf = <<>>, !.g.aligned = FALSE, !.g.waiting = FALSE,
              !.g.env = IF @.on THEN SkipLost(@, n) ELSE @]

\* lose: n bytes will never arrive.
LoseBytes(w, n) == Dropped(IF w.g.begun THEN w ELSE Pump([w EXCEPT !.g.begun = TRUE]), n)

\* What chain says of a header at each offset of a buffer.
Headers(buf) ==
    [h \in 0 .. Len(buf) - HeadLen |-> IF Believable(U32(buf, h)) THEN Chain(buf, h, MaxBuf) ELSE "no"]

\* The headers are found: from the first, they are removed again.
FoundAgain(g, at, fresh) ==
    Strip([g EXCEPT !.env.lost = FALSE, !.env.left = at, !.env.search = NewScan,
                    !.sound = @ /\ fresh = at], 0)

\* refind: three believable headers in a row, an envelope apart, in the bytes since
\* a header was lost.  The envelopes are found again, given up, or neither.
Refind(g) ==
    LET With(found, fresh) ==
            IF found.at # -1 THEN FoundAgain(g, found.at, fresh)
            ELSE IF Len(g.buf) < MaxBuf
            THEN [g EXCEPT !.env.search = found.scan, !.sound = @ /\ fresh = -1]
            ELSE [g EXCEPT !.env = NoEnvelopes]
        Search(v, to) == With(Find(g.env.search, 0, to, v), Find(NewScan, 0, to, v).at)
    IN Search(Headers(g.buf), Len(g.buf) - HeadLen + 1)

\* One turn of write's loop: as much of w.p as there is room for.
WriteSome(w) ==
    LET Pumped(w1) == IF w1.g.env.lost THEN w1 ELSE Pump(w1)
        Sorted(g, at) == IF g.env.lost THEN Refind(g) ELSE IF g.env.on THEN Strip(g, at) ELSE g
        Taken(room, at, n) ==
            [room EXCEPT !.p = From(@, n),
                         !.g = Sorted([@ EXCEPT !.buf = @ \o SubSeq(room.p, 1, n)], at)]
        Into(room) == Pumped(Taken(room, Len(room.g.buf), Min({Len(room.p), MaxBuf - Len(room.g.buf)})))
    IN Into(IF Len(w.g.buf) >= MaxBuf THEN LoseBytes(w, 0) ELSE w)

\* write: the bytes of p arrive.
Written(w) == FoldLeft(LAMBDA u, i : IF u.p = <<>> THEN u ELSE WriteSome(u), w, w.p)

\* end: no more bytes will arrive.
Ended(w) ==
    Pump([w EXCEPT !.g.over = TRUE, !.g.begun = TRUE,
                   !.g.env = IF @.lost THEN NoEnvelopes ELSE @])

-----------------------------------------------------------------------------
Becomes(ws) == \E w \in ws : f' = w.g /\ out' = w.out

Now(p) == [g |-> f, out |-> out, p |-> p]

Write(p) ==
    /\ ~f.over /\ fed + Len(p) <= MaxFed
    /\ Becomes({Written(Now(p))}) /\ fed' = fed + Len(p)

Lose(n) ==
    /\ ~f.over /\ fed + n <= MaxFed
    /\ Becomes({LoseBytes(Now(<<>>), n)}) /\ fed' = fed + n

End ==
    /\ ~f.over /\ Becomes({Ended(Now(<<>>))}) /\ UNCHANGED fed

Init == f = New /\ out = <<>> /\ fed = 0

-----------------------------------------------------------------------------
\* Properties.

\* The framer has its type, and what it keeps fits: envelopes with a header in part
\* have no body left, and a header is lost only while they are on (envelopes).
TypeOK ==
    /\ f.buf \in Seq(Bytes) /\ {f.probation, f.skipped, f.resyncs} \subseteq Nat
    /\ f.env.left > 0 => f.env.head = <<>>
    /\ Len(f.env.head) < HeadLen
    /\ f.env.lost => f.env.on /\ f.env.head = <<>> /\ f.env.left = 0
    /\ f.env.head # <<>> \/ f.env.left > 0 => f.env.on
    /\ f.waiting => ~f.aligned /\ f.buf # <<>>

\* A search that goes on where it left off finds what one from the start would: what
\* was refused once stays refused (resume, refind, scan).
SearchesAreSound == f.sound

\* However the stream is aligned, lost or in envelopes, the framer is never left with
\* a full buffer: bytes are dropped for room never (write).
RoomForMore == Len(f.buf) < MaxBuf
=============================================================================
