----------------------------- MODULE MCDecoder -----------------------------
(***************************************************************************)
(* The decoder on two connections, a table of three streams, and the few   *)
(* kinds of frame each question needs.  A run asks several questions: the  *)
(* decoder is then the one of the cfg, or one with the bounds of another   *)
(* question.                                                               *)
(***************************************************************************)
EXTENDS Decoder, TLC

CONSTANTS
    h1, h2, h3, h4,     \* hosts: endpoints of connections
    Asked               \* the decoders of the run: of "this", "table", "held", "pair", "turn",
                        \* "burst", "both" and "next"

VARIABLE asked          \* which of them it is

MCKeys == {<<h1, h2>>, <<h2, h1>>, <<h3, h4>>, <<h4, h3>>}

MCTimes1 == {0}
MCTimes2 == 0 .. 1
MCTimes3 == 0 .. 2

Kind(op, resynced, trusted) == [op |-> op, resynced |-> resynced, trusted |-> trusted]

\* Frames that tell the ways to the lock apart.
MCHuntKinds == {Kind("combat", FALSE, TRUE), Kind("known", FALSE, TRUE), Kind("known", TRUE, TRUE),
                Kind("known", FALSE, FALSE), Kind("other", FALSE, TRUE)}
MCCombat == {Kind("combat", FALSE, TRUE)}
MCCombatOrOther == {Kind("combat", FALSE, TRUE), Kind("other", FALSE, TRUE)}
MCKnown == {Kind("known", FALSE, TRUE)}

MCAllControls == {"none", "syn", "renew", "fin"}
MCFeed == {"feed"}
MCPayloadAndRenew == {"none", "renew"}
MCOnlyPayload == {"none"}
MCPayloadAndFin == {"none", "fin"}

Config(client, unlocked, known) ==
    [emitClient |-> client, emitUnlocked |-> unlocked, knownOnly |-> known]
MCConfig == {Config(FALSE, FALSE, FALSE)}
MCKnownOnly == {Config(FALSE, FALSE, TRUE)}
MCClient == {Config(TRUE, FALSE, FALSE)}
MCConfigs == MCKnownOnly \cup {Config(TRUE, FALSE, FALSE), Config(TRUE, TRUE, FALSE)}

\* The endpoints of a connection, and the connections, are interchangeable.
HostPermutation(p) == [x \in {h1, h2, h3, h4} |-> CASE x = h1 -> p[1] [] x = h2 -> p[2]
                                                     [] x = h3 -> p[3] [] x = h4 -> p[4]]
MCSymmetry == {HostPermutation(p) :
                  p \in {<<h1, h2, h3, h4>>, <<h2, h1, h3, h4>>, <<h1, h2, h4, h3>>, <<h2, h1, h4, h3>>,
                         <<h3, h4, h1, h2>>, <<h4, h3, h1, h2>>, <<h3, h4, h2, h1>>, <<h4, h3, h2, h1>>}}

\* A table that fills up, all its payloads from Decoder.Feed.
Table == INSTANCE Decoder WITH Controls <- MCFeed, MaxBorn <- 4

\* Segments are held, resyncs counted, and the capture ends.
Held == INSTANCE Decoder WITH FrameKinds <- MCCombat, Controls <- MCPayloadAndRenew, Configs <- MCKnownOnly,
                              CombatFrames <- 2, Ends <- TRUE, MaxBurst <- 1, MaxFrames <- 2,
                              MaxResyncs <- 1, MaxPieces <- 1

\* One connection is locked, let go, renewed and locked again, the ACKs of each side releasing what
\* is held of the other.
Pair == INSTANCE Decoder WITH Times <- MCTimes1, FrameKinds <- MCCombat, Controls <- MCAllControls,
                              Configs <- MCClient, CombatFrames <- 1, MaxBorn <- 3, MaxLocks <- 2,
                              MaxBurst <- 1, MaxFrames <- 2, MaxPieces <- 1

\* The same with no third stream, and a resync.
Turn == INSTANCE Decoder WITH Times <- MCTimes1, FrameKinds <- MCCombat, Controls <- MCAllControls,
                              Configs <- MCClient, CombatFrames <- 1, MaxBorn <- 2, MaxLocks <- 2,
                              MaxBurst <- 1, MaxFrames <- 2, MaxResyncs <- 1, MaxPieces <- 1

\* A stream emits two frames at once, the lock among them, on one connection or two.
Burst == INSTANCE Decoder WITH MaxBorn <- 2, MaxBurst <- 2

\* Frames of both sides wait, and the ACK that releases one of the client's may come with the
\* payload that earns the lock.
Both == INSTANCE Decoder WITH FrameKinds <- MCCombatOrOther, Configs <- MCClient, MaxBorn <- 2,
                              MaxPieces <- 2

\* One connection is locked and let go, and the other one is locked before it is forgotten.
Other == INSTANCE Decoder WITH Times <- MCTimes1, Controls <- MCPayloadAndFin, MaxLocks <- 2

OneConnection == \A j, k \in DOMAIN d.streams : j \in {k, Reverse(k)}

MCInit ==
    /\ asked \in Asked
    /\ CASE asked = "held" -> Held!Init
         [] asked = "pair" -> Pair!Init
         [] asked = "turn" -> Turn!Init
         [] asked = "burst" -> Burst!Init
         [] asked = "both" -> Both!Init
         [] asked = "next" -> Other!Init
         [] OTHER -> Init

MCNext ==
    /\ UNCHANGED asked
    /\ \/ asked = "this" /\ Next
       \/ asked = "table" /\ Table!Next
       \/ asked = "held" /\ Held!Next
       \/ asked = "pair" /\ Pair!Next /\ OneConnection'
       \/ asked = "turn" /\ Turn!Next /\ OneConnection'
       \/ asked = "burst" /\ Burst!Next
       \/ asked = "both" /\ Both!Next /\ OneConnection'
       \/ asked = "next" /\ Other!Next

MCSpec == MCInit /\ [][MCNext]_<<vars, asked>>
=============================================================================
