----------------------------- MODULE FramerStreams -----------------------------
(***************************************************************************)
(* The framer of Framer given a real stream: frames, padding, bundles and  *)
(* envelope headers follow each other as the server sends them, cut into   *)
(* writes anywhere, with bytes lost anywhere.                              *)
(***************************************************************************)
EXTENDS Framer
LOCAL INSTANCE SequencesExt
LOCAL INSTANCE FiniteSets

CONSTANTS
    Streams,        \* the streams: sequences of pieces, each its bytes, the bodies it
                    \* carries, and whether it is an envelope's header
    MaxCut, MaxGap, \* bounds: bytes of one write and of one gap
    MaxGaps         \* bound: gaps

ASSUME StreamsAssumption == {MaxCut, MaxGap, MaxGaps} \subseteq Nat

VARIABLES
    stream,         \* what the server sends
    gone            \* the gaps: sets of offsets

streamVars == <<f, out, fed, stream, gone>>

BytesOf(s) == FlattenSeq([i \in DOMAIN s |-> s[i].bytes])

\* What the next write may bring of the stream, and how many bytes of it may be lost.
Coming == {SubSeq(BytesOf(stream), fed + 1, fed + n) :
              n \in {m \in 1 .. MaxCut : fed + m <= Len(BytesOf(stream))}}

Losable == {n \in 1 .. MaxGap : fed + n <= Len(BytesOf(stream)) /\ Cardinality(gone) < MaxGaps}

StreamsInit == Init /\ stream \in Streams /\ gone = {}

\* The bytes of chunks come, or gaps of them are lost; of no stream, none is remembered.
Arrives(chunks, gaps) ==
    /\ UNCHANGED stream
    /\ \/ \E p \in chunks : Write(p) /\ UNCHANGED gone
       \/ \E n \in gaps :
              /\ Lose(n)
              /\ gone' = IF stream = <<>> THEN gone ELSE gone \cup {fed .. fed + n - 1}
       \/ End /\ UNCHANGED gone

StreamsNext == Arrives(Coming, Losable)

StreamsSpec == StreamsInit /\ [][StreamsNext]_streamVars

-----------------------------------------------------------------------------
\* Properties.

Starts(s) == [i \in DOMAIN s |-> Len(BytesOf(SubSeq(s, 1, i - 1)))]

\* The pieces that have arrived whole, and their bodies.
Arrived ==
    LET from == Starts(stream)
    IN {i \in DOMAIN stream :
            /\ from[i] + Len(stream[i].bytes) <= fed
            /\ \A g \in gone : g \cap (from[i] .. from[i] + Len(stream[i].bytes) - 1) = {}}

BodiesOf(is) == FlattenSeq([i \in DOMAIN stream |-> IF i \in is THEN stream[i].bodies ELSE <<>>])

Emitted == [i \in DOMAIN out |-> out[i].body]

\* However a stream is cut, no frame is emitted that was not sent, or out of order,
\* or before its last byte (pump, fuzz_test.go's FuzzRoundTrip).
NothingInvented == IsPrefix(Emitted, BodiesOf(Arrived))

\* At the end, every frame that arrived whole has been emitted: a gap takes only the
\* frames with a byte in it, whatever part of an envelope went with them (lose, skip,
\* refind, end).
OnlyTouchedLost == f.over => Emitted = BodiesOf(Arrived)

\* While the stream is in envelopes and its place in them is known, the next header is
\* where the server put it, whatever was lost before (skip, strip, refind).
HeadersInPlace ==
    LET headers == {Starts(stream)[i] : i \in {j \in DOMAIN stream : stream[j].header}}
                       \cup {Len(BytesOf(stream))}
    IN f.env.on /\ ~f.env.lost => fed + f.env.left - Len(f.env.head) \in headers

\* Resynced marks the first frame after a gap, and no other (Frame's Flags, parse).
FirstAfterGapMarked ==
    LET bodies == [i \in DOMAIN stream |-> Len(stream[i].bodies)]
        owner  == FlattenSeq([i \in DOMAIN stream |->
                      IF i \in Arrived THEN [k \in 1 .. bodies[i] |-> i] ELSE <<>>])
        After(k) == \E g \in gone : \E x \in g :
                        /\ x < Starts(stream)[owner[k]]
                        /\ k = 1 \/ x >= Starts(stream)[owner[k - 1]]
    IN f.over => \A k \in DOMAIN out : out[k].resynced <=> After(k)
=============================================================================
