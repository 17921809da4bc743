--------------------------------- MODULE Peel ---------------------------------
(***************************************************************************)
(* The layers under TCP, src/capture/peel.go.  A packet is put together    *)
(* here from its layers, external, and captured up to some length; peel is *)
(* to find the segment in it.                                              *)
(***************************************************************************)
EXTENDS Octets

CONSTANTS Frames,           \* the packets: what their layers say
          Lengths           \* how much of each is captured

VARIABLES frame, captured, peeled, found

vars == <<frame, captured, peeled, found>>

-----------------------------------------------------------------------------
\* A packet.

Repeat(v, n) == [i \in 1 .. n |-> v]

Flat(ss) == LET upto[n \in 0 .. Len(ss)] == IF n = 0 THEN <<>> ELSE upto[n - 1] \o ss[n] IN upto[Len(ss)]

TypeField(version) == IF version = 4 THEN Put16("big", 2048) ELSE Put16("big", 34525)

\* The link header of f, a VLAN tag a pair of its kind and its number.
LinkHeader(f) ==
    CASE f.link = "Ethernet" ->
            Repeat(2, 12) \o Flat([i \in 1 .. Len(f.vlans) |-> Put16("big", f.vlans[i]) \o <<0, 7>>]) \o TypeField(f.version)
      [] f.link = "Null" -> Put32(f.order, IF f.version = 4 THEN 2 ELSE 30)
      [] f.link = "SLL" -> Repeat(0, 14) \o TypeField(f.version)
      [] f.link = "SLL2" -> TypeField(f.version) \o Repeat(0, 18)
      [] OTHER -> <<>>

Address(f, last) == IF f.version = 4 THEN f.net \o <<last>> ELSE <<32, 1>> \o Repeat(0, 13) \o <<last>>

Ports == <<2, 88, 195, 80>>
SeqAck == <<0, 0, 1, 44, 0, 0, 2, 88>>

Tcp(f) == Ports \o SeqAck \o <<(5 + f.tcpOptions) * 16, 24, 0, 0, 0, 0, 0, 0>> \o Repeat(1, 4 * f.tcpOptions) \o f.payload

Ip(f) ==
    IF f.version = 4
    THEN <<4 * 16 + 5 + f.ipOptions, 0>> \o Put16("big", 20 + 4 * f.ipOptions + Len(Tcp(f))) \o <<0, 0>>
            \o Put16("big", f.fragment) \o <<64, f.protocol, 0, 0>> \o Address(f, 1) \o Address(f, 9) \o Repeat(1, 4 * f.ipOptions)
    ELSE <<6 * 16, 0, 0, 0>> \o Put16("big", Len(Tcp(f))) \o <<f.protocol, 64>> \o Address(f, 1) \o Address(f, 9)

\* What was sent, with what the link pads it with.
Sent(f) == LinkHeader(f) \o Ip(f) \o Tcp(f) \o f.padding

\* What the file says the link type is: a tunnel's packet may be filed as Ethernet.
LinkType(f) ==
    CASE f.link \in {"Ethernet", "Filed"} -> 1 [] f.link = "Null" -> IF f.order = "big" THEN 108 ELSE 0
      [] f.link = "SLL" -> 113 [] f.link = "SLL2" -> 276 [] OTHER -> 101

-----------------------------------------------------------------------------
\* peel.go.  A result without segment is <<>>.

\* ethertype, family
Ethertype(t) == IF t = 2048 THEN 4 ELSE IF t = 34525 THEN 6 ELSE 0

Family(af) == IF af = 2 THEN 4 ELSE IF af \in {24, 28, 30} THEN 6 ELSE 0

\* The offset behind the VLAN tags.
PastTags(p) ==
    LET past[off \in Nat] ==
            IF U16("big", p, off - 2) \in {33024, 34984} /\ Len(p) >= off + 4 THEN past[off + 4] ELSE off
    IN past[14]

Skip(p, n, version) == [ip |-> From(p, n), version |-> version]

NotIP == [ip |-> <<>>, version |-> 0]

\* network
Network(link, p) ==
    CASE link = 1 -> IF Len(p) < 14 THEN NotIP
                     ELSE LET At(off) == Skip(p, off, Ethertype(U16("big", p, off - 2))) IN At(PastTags(p))
      [] link \in {0, 108} ->
            IF Len(p) < 4 THEN NotIP
            ELSE Skip(p, 4, Family(IF U16("little", p, 2) > 0 THEN U32("big", p, 0) ELSE U32("little", p, 0)))
      [] link = 113 -> IF Len(p) < 16 THEN NotIP ELSE Skip(p, 16, Ethertype(U16("big", p, 14)))
      [] link = 276 -> IF Len(p) < 20 THEN NotIP ELSE Skip(p, 20, Ethertype(U16("big", p, 0)))
      [] OTHER -> IF p # <<>> /\ p[1] \div 16 \in {4, 6} THEN Skip(p, 0, p[1] \div 16) ELSE NotIP

\* Mutant: the packet goes on to the end of what was captured.
Ipv4Whole(p) ==
    IF \/ Len(p) < 20 \/ p[1] \div 16 # 4 \/ p[10] # 6 \/ U16("big", p, 6) % 16384 # 0
       \/ (p[1] % 16) * 4 < 20 \/ Len(p) < (p[1] % 16) * 4 + 20
    THEN <<>> ELSE <<[tcp |-> From(p, (p[1] % 16) * 4), src |-> SubSeq(p, 13, 16), dst |-> SubSeq(p, 17, 20)]>>

Ipv4(p) ==
    LET n == (p[1] % 16) * 4
        total == Lesser(U16("big", p, 2), Len(p))
    IN IF Len(p) < 20 \/ p[1] \div 16 # 4 \/ p[10] # 6 \/ U16("big", p, 6) % 16384 # 0 \/ n < 20 \/ total < n + 20
       THEN <<>> ELSE <<[tcp |-> SubSeq(p, n + 1, total), src |-> SubSeq(p, 13, 16), dst |-> SubSeq(p, 17, 20)]>>

Ipv6(p) ==
    LET total == Lesser(40 + U16("big", p, 4), Len(p))
    IN IF Len(p) < 40 \/ p[7] # 6 \/ total < 60
       THEN <<>> ELSE <<[tcp |-> SubSeq(p, 41, total), src |-> SubSeq(p, 9, 24), dst |-> SubSeq(p, 25, 40)]>>

\* segment, of what network or an IP header left.
Segment(net) ==
    LET ip == CASE net.version = 4 -> Ipv4(net.ip) [] net.version = 6 -> Ipv6(net.ip) [] OTHER -> <<>>
        Of(tcp) == LET n == (tcp[13] \div 16) * 4 IN
            IF n < 20 \/ n > Len(tcp) THEN <<>>
            ELSE <<[src |-> ip[1].src \o UpTo(tcp, 2), dst |-> ip[1].dst \o SubSeq(tcp, 3, 4),
                    seq |-> U32("big", tcp, 4), ack |-> U32("big", tcp, 8), flags |-> tcp[14], payload |-> From(tcp, n)]>>
    IN IF ip = <<>> THEN <<>> ELSE Of(ip[1].tcp)

\* peel: an Ethernet packet without a segment is tried as raw IP.
PeelPacket(link, p) ==
    LET Or(s) == IF s = <<>> /\ link = 1 THEN Segment(Network(101, p)) ELSE s
    IN Or(Segment(Network(link, p)))

-----------------------------------------------------------------------------
Init == frame \in Frames /\ captured \in Lengths /\ captured <= Len(Sent(frame)) /\ peeled = FALSE /\ found = <<>>

Next ==
    /\ ~peeled /\ peeled' = TRUE
    /\ found' = PeelPacket(LinkType(frame), UpTo(Sent(frame), captured))
    /\ UNCHANGED <<frame, captured>>

Spec == Init /\ [][Next]_vars

-----------------------------------------------------------------------------
\* Properties.

Before(f) == Len(LinkHeader(f)) + Len(Ip(f))        \* where TCP begins

Headers(f) == Before(f) + 20 + 4 * f.tcpOptions

\* Whether f holds a segment that can be read without another packet.
HasSegment(f) == f.protocol = 6 /\ (f.version = 4 => f.fragment \in {0, 16384})

\* A segment is found exactly in a packet that is unfragmented TCP, whatever is under it,
\* and of which the headers were captured (peel's comment).
FoundWhereItIs == peeled => (found # <<>> <=> HasSegment(frame) /\ captured >= Headers(frame))

\* Its bytes are those that were sent as far as they were captured: no byte of an option
\* or of the link's padding is taken for the stream's (ipv4, ipv6, segment).
BytesAreTheStreams ==
    found # <<>> =>
        /\ found[1].payload = UpTo(frame.payload, captured - Headers(frame))
        /\ found[1].src = Address(frame, 1) \o UpTo(Ports, 2) /\ found[1].dst = Address(frame, 9) \o From(Ports, 2)
        /\ found[1].seq = 300 /\ found[1].ack = 600 /\ found[1].flags = 24
===============================================================================
