------------------------------- MODULE MCFiles -------------------------------
(***************************************************************************)
(* What is read from bytes: the pcapng files of Pcapng, the packets of     *)
(* Peel, the recordings of Recording and the messages of GameParse.  A     *)
(* behaviour is of one of them, with the bounds that make its hard cases   *)
(* happen.                                                                 *)
(***************************************************************************)
EXTENDS GameParse

VARIABLES
    given,          \* "sections", "altered", "packets", "recordings" or "messages"
    blocks, file, sound, stage, pos, order, ifaces, got, cut,   \* Pcapng
    frame, captured, peeled, found,                             \* Peel
    writer, link, live, rec, written, torn, seen, read, head, place, packets    \* Recording

pcapngVars    == <<blocks, file, sound, stage, pos, order, ifaces, got, cut>>
peelVars      == <<frame, captured, peeled, found>>
recordingVars == <<writer, link, live, rec, written, torn, seen, read, head, place, packets>>

Orders == {"little", "big"}

-----------------------------------------------------------------------------
\* Pcapng in bytes of four bits: sections in both orders, interfaces of different resolutions,
\* and packets of every kind, one cut short.
Section(o) == [kind |-> "section", order |-> o]
Plain == [kind |-> "interface", link |-> 1, snap |-> 0, resolution |-> 6, offset |-> 0]
Snapped == [kind |-> "interface", link |-> 9, snap |-> 2, resolution |-> 11, offset |-> -1]
Unusable == [kind |-> "interface", link |-> 1, snap |-> 0, resolution |-> 7, offset |-> 0]
Packet(k, id, orig, data) == [kind |-> k, id |-> id, ticks |-> 66667, orig |-> orig, data |-> data]
Simple == [kind |-> "simple", id |-> 0, orig |-> 3, data |-> <<1, 2, 3>>]
Other == [kind |-> "other"]
OfPlain == Packet("enhanced", 0, 1, <<1>>)
OfSnapped == Packet("enhanced", 1, 5, <<1, 2>>)
Obsolete == Packet("obsolete", 0, 5, <<2, 2, 2, 2>>)

Sections == INSTANCE Pcapng WITH
    Base <- 16, MaxBlocks <- 3, Cuts <- {1, 9, 20}, Altered <- {}, MaxBlock <- 256,
    Blocks <- {Section(o) : o \in Orders}
                \cup {Plain, Snapped, OfPlain, OfSnapped, Obsolete, Simple, Other, Unusable},
    DefaultResolution <- 6, MaxDecimal <- 6, MaxBinary <- 6, PerSecond <- 1000, at <- stage
Alterable == INSTANCE Pcapng WITH
    Base <- 16, MaxBlocks <- 2, Cuts <- {3}, Altered <- {0, 2}, MaxBlock <- 256,
    Blocks <- {Section(o) : o \in Orders}
                \cup {Snapped, OfPlain, OfSnapped, Packet("obsolete", 0, 1, <<1>>), Simple},
    DefaultResolution <- 6, MaxDecimal <- 6, MaxBinary <- 6, PerSecond <- 1000, at <- stage

ASSUME Sections!OctetsAssumption /\ Sections!PcapngAssumption /\ Alterable!PcapngAssumption

-----------------------------------------------------------------------------
\* Packets of every link type, their addresses ones that read as Ethernet types when a packet
\* without a link header is filed as Ethernet.
Frame(l, version, vlans, o, net, fragment, protocol, options, padding) ==
    [link |-> l, version |-> version, vlans |-> vlans, order |-> o, net |-> net,
     fragment |-> fragment, protocol |-> protocol, ipOptions |-> options[1],
     tcpOptions |-> options[2], payload |-> <<5, 6>>, padding |-> padding]

Any(links, vlans, orders, nets) ==
    {Frame(l, version, vs, o, net, fragment, protocol, options, padding) :
        l \in links, version \in {4, 6}, vs \in vlans, o \in orders, net \in nets,
        fragment \in {0, 16384, 8192, 1}, protocol \in {6, 17},
        options \in {<<0, 0>>, <<1, 0>>, <<0, 2>>}, padding \in {<<>>, <<9, 9>>}}

Peeled == INSTANCE Peel WITH
    Base <- 256, Lengths <- 0 .. 100,
    Frames <- Any({"Ethernet"}, {<<>>, <<33024>>, <<34984, 33024>>}, {"big"}, {<<10, 0, 0>>})
                \cup Any({"Null"}, {<<>>}, Orders, {<<10, 0, 0>>})
                \cup Any({"SLL", "SLL2", "Raw"}, {<<>>}, {"big"}, {<<10, 0, 0>>})
                \cup Any({"Filed"}, {<<>>}, {"big"}, {<<10, 0, 0>>, <<8, 0, 69>>, <<129, 0, 8>>})

ASSUME Peeled!OctetsAssumption

-----------------------------------------------------------------------------
\* Recordings in bytes of four bits, of packets with and without a segment, whole and cut, by
\* the recorder and by programs in every other format.
Ours == [order |-> "little", tick |-> 1, upper |-> 0]

Recordings == INSTANCE Recording WITH
    Base <- 16, MaxPackets <- 3, Links <- {1, 12, 276}, MaxSnap <- 2, LinkBits <- 1024, Micro <- 16,
    Writers <- {Ours} \cup [order : Orders, tick : {1, 16}, upper : {0, 4096}],
    Packets <- {[sec |-> 300, ns |-> 35, orig |-> 1, data |-> <<1>>],
                [sec |-> 5, ns |-> 16, orig |-> 4, data |-> <<2, 7>>],
                [sec |-> 300, ns |-> 0, orig |-> 3, data |-> <<>>]},
    file <- written, pos <- place, got <- packets

ASSUME Recordings!OctetsAssumption /\ Recordings!RecordingAssumption

-----------------------------------------------------------------------------
\* Messages, cut anywhere: the cfg has their bounds.
MCKinds == {"hit", "spawn", "object", "death", "fall", "gearScore", "combatPower", "kill",
            "character", "cast", "castEnd", "moveA", "moveB", "tick", "ping", "zone", "sheet",
            "sheetUpdate", "gauges", "nameCheck", "redirect", "account", "lobbyPing",
            "servers", "characters"}

ASSUME ParseAssumption

-----------------------------------------------------------------------------
\* A hit has the most forms, and the shortest messages of which that end in each of its reads are
\* the ones of at most 40 bytes.
FewHits == kind = "hit" => left <= 40

NoPcapng ==
    /\ blocks = 0 /\ file = 0 /\ sound = 0 /\ stage = 0 /\ pos = 0 /\ order = 0 /\ ifaces = 0
    /\ got = 0 /\ cut = 0
NoPeel == frame = 0 /\ captured = 0 /\ peeled = 0 /\ found = 0
NoRecording ==
    /\ writer = 0 /\ link = 0 /\ live = 0 /\ rec = 0 /\ written = 0 /\ torn = 0 /\ seen = 0
    /\ read = 0 /\ head = 0 /\ place = 0 /\ packets = 0
NoParse == kind = "hit" /\ client = TRUE /\ left = 0 /\ Init        \* a message nothing reads

MCInit ==
    \/ given = "sections" /\ Sections!Init /\ NoPeel /\ NoRecording /\ NoParse
    \/ given = "altered" /\ Alterable!Init /\ NoPeel /\ NoRecording /\ NoParse
    \/ given = "packets" /\ Peeled!Init /\ NoPcapng /\ NoRecording /\ NoParse
    \/ given = "recordings" /\ Recordings!Init /\ NoPcapng /\ NoPeel /\ NoParse
    \/ given = "messages" /\ Init /\ FewHits /\ NoPcapng /\ NoPeel /\ NoRecording

MCNext ==
    /\ UNCHANGED given
    /\ \/ given = "sections" /\ Sections!Next /\ UNCHANGED <<peelVars, recordingVars, vars>>
       \/ given = "altered" /\ Alterable!Next /\ UNCHANGED <<peelVars, recordingVars, vars>>
       \/ given = "packets" /\ Peeled!Next /\ UNCHANGED <<pcapngVars, recordingVars, vars>>
       \/ given = "recordings" /\ Recordings!Next /\ UNCHANGED <<pcapngVars, peelVars, vars>>
       \/ given = "messages" /\ Next /\ UNCHANGED <<pcapngVars, peelVars, recordingVars>>

MCSpec == MCInit /\ [][MCNext]_<<given, pcapngVars, peelVars, recordingVars, vars>>

-----------------------------------------------------------------------------
\* The properties of the first three, each where its bounds are.

\* A pcapng file is read as it was written, whole or torn or altered, and says how it ended
\* (pcapng, Reader).
FileIsReadAsWritten ==
    /\ given = "sections" =>
           Sections!TypeOK /\ Sections!ReadAsWritten /\ Sections!CutIsCounted /\ Sections!EndIsTold
    /\ given = "altered" => Alterable!ReadAsWritten

\* A segment is found in a packet of any link exactly where it is, and nothing else is taken for
\* its bytes (peel).
SegmentIsFound == given = "packets" => Peeled!FoundWhereItIs /\ Peeled!BytesAreTheStreams

\* What was recorded can be read again, up to the last packet that was written, however the
\* recording ended (recorder, newClassic, classic.next).
RecordingIsRead ==
    given = "recordings" =>
        Recordings!HeaderRead /\ Recordings!ReadAsRecorded /\ Recordings!WholeUpToTheLast
=============================================================================
