------------------------------ MODULE MCFramer ------------------------------
(***************************************************************************)
(* The framer on bytes of four bits: a varint holds three bits a byte, at  *)
(* most two bytes, and a u32le has two bytes.  The streams are of a frame  *)
(* of two bytes, one of four, a bundle of two frames and padding, in       *)
(* envelopes or not; or the writes are what a search finds hardest; or     *)
(* bytes arrive of which Framing is asked.                                 *)
(***************************************************************************)
EXTENDS FramerStreams, FiniteSets

VARIABLES
    given,          \* "plain", "enveloped", "search", "headers", "varints" or "verdicts"
    seen            \* Verdicts' bytes

MCFlagBytes == {14}
MCFamilies == {3}
MCKnown == {<<1, 3>>}
MCLz4 == [b \in {<<1>>} |-> <<6, 1, 3, 6, 2, 3>>]

Short == [bytes |-> <<6, 1, 3>>, bodies |-> <<<<1, 3>>>>, header |-> FALSE]
Long  == [bytes |-> <<8, 1, 2, 3, 0, 0>>, bodies |-> <<<<2, 3, 0, 0>>>>, header |-> FALSE]
Packed == [bytes |-> <<9, 1, 15, 15, 6, 0, 1>>, bodies |-> <<<<1, 3>>, <<2, 3>>>>, header |-> FALSE]
Zero  == [bytes |-> <<0>>, bodies |-> <<>>, header |-> FALSE]
Header(n) == [bytes |-> <<n, 0>>, bodies |-> <<>>, header |-> TRUE]

MCPlain == {<<Short, Long, Zero, Packed, Short>>, <<Zero, Packed, Long, Short, Long>>}
MCEnveloped == {<<Header(3), Short, Header(6), Long, Header(3), Short, Header(3), Short, Header(3), Short>>}
MCStreams == MCPlain \cup MCEnveloped \cup {<<>>}

\* 6 3 3 is a frame, 9 1 and 14 1 begin frames of 7 and 12 bytes.
MCSearchChunks == {<<9, 1>>, <<1, 3>>, <<14, 1>>, <<6>>, <<6, 3, 3>>}
\* 6 1 3 is a frame, 3 0 the header of the envelope around it.
MCEnvelopeChunks == {<<3>>, <<6, 1, 3>>, <<0, 6, 1, 3>>}

\* Varints of three bytes of two bits; and bytes that make frames, bundles, padding and neither.
Varints == INSTANCE Verdicts WITH
    Base <- 4, VarintLen <- 3, TopLimit <- 1, FlagBytes <- {6}, Alphabet <- 0 .. 7, MaxLen <- 4
Answers == INSTANCE Verdicts WITH Alphabet <- {0, 1, 3, 6, 8, 14, 15}, MaxLen <- 6

MCInit ==
    /\ given \in {"plain", "enveloped", "search", "headers", "varints", "verdicts"}
    /\ StreamsInit
    /\ given = "plain" <=> stream \in MCPlain
    /\ given = "enveloped" <=> stream \in MCEnveloped
    /\ seen = <<>>

MCNext ==
    /\ UNCHANGED given
    /\ \/ /\ given \notin {"varints", "verdicts"}
          /\ Arrives(CASE given = "search" -> MCSearchChunks [] given = "headers" -> MCEnvelopeChunks
                       [] OTHER -> Coming,
                     IF given \in {"search", "headers"} THEN {1} ELSE Losable)
          /\ given = "enveloped" => Cardinality(gone') <= 1
          /\ given = "search" => fed' <= 12
          /\ given = "headers" => fed' <= 22
          /\ UNCHANGED seen
       \/ given = "varints" /\ Varints!Next /\ UNCHANGED streamVars
       \/ given = "verdicts" /\ Answers!Next /\ UNCHANGED streamVars

\* A gap while headers are searched for drops what was kept, so OnlyTouchedLost is of one gap in
\* envelopes, and of two in a plain stream.
MCSpec == MCInit /\ [][MCNext]_<<streamVars, given, seen>>

-----------------------------------------------------------------------------
\* The properties of Framer, FramerStreams and Verdicts, each of the framers that it is about.

\* However a stream is cut into writes, and whatever is lost of it, the frames that come out are those
\* that arrived whole, once, in order and marked where bytes were lost (pump, lose, end).
FramesAreTheStreams ==
    /\ given \in {"plain", "enveloped"} => NothingInvented /\ OnlyTouchedLost
    /\ given = "plain" => FirstAfterGapMarked

\* The framer knows where it is: the next envelope's header is where the server put it, and there is
\* always room for another byte (skip, strip, refind, write).
PlaceIsKept ==
    /\ given = "enveloped" => HeadersInPlace
    /\ given \in {"search", "headers"} => RoomForMore
    /\ TypeOK

\* What was refused stays refused while more bytes arrive, so a search that goes on where it left off
\* finds what one from the start would; and a number has one varint (resume, find, uvarint).
RefusalsStand ==
    /\ SearchesAreSound
    /\ given = "varints" => Varints!UvarintIsCanonical
    /\ given = "verdicts" => Answers!RefusedForGood
=============================================================================
