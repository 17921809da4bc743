-------------------------------- MODULE Conns --------------------------------
(***************************************************************************)
(* The connections ledger of src/conns.go: what becomes of the connections *)
(* two hosts have on one pair of ports, told from the packets a recording  *)
(* holds of them.  The hosts are the environment: use knows what they did; *)
(* the ledger sees the packets that were captured, some of them logged     *)
(* twice.                                                                  *)
(***************************************************************************)
EXTENDS Integers, Sequences, FiniteSets, SeqNum

CONSTANTS
    Ends,           \* pairs <<client, server>> of endpoints, [addr, port] each
    StartSeqs,      \* the sequence numbers a SYN may have
    N,              \* bytes a side sends at most in a connection
    CopyGap,        \* copyGap: within it a packet like the last is its copy
    MaxUses,        \* bound: connections that use the ports one after another
    MaxSyns,        \* bound: SYNs, and SYN-ACKs, of a connection
    MaxPackets      \* bound: packets the two send in a connection

ASSUME ConnsAssumption ==
    /\ \A e \in Ends : {e[1], e[2]} \subseteq [addr : Nat, port : Nat] /\ e[1] # e[2]
    /\ {N, MaxUses, MaxSyns, MaxPackets} \subseteq Nat /\ CopyGap \in Nat \ {0}
    /\ N + 1 < Mod \div 2      \* TCP's window
    /\ StartSeqs \subseteq Seqs

VARIABLES
    ends,           \* who talks: [client, server]
    use,            \* what the hosts did with their present connection
    open,           \* ledger.open: the conn a pair is in, by its place in conns
    conns,          \* ledger.conns
    marks,          \* where connections heard messages: the pairs locked, the worlds sent to
    seen            \* history: what was captured of each of conns

vars == <<ends, use, open, conns, marks, seen>>

Sides == {"client", "server"}
Other(side) == IF side = "client" THEN "server" ELSE "client"

-----------------------------------------------------------------------------
\* The ledger.

\* AddrPort.Compare(a, b) > 0
Above(a, b) == a.addr > b.addr \/ (a.addr = b.addr /\ a.port > b.port)

PairOf(a, b) == IF Above(a, b) THEN [lo |-> b, hi |-> a] ELSE [lo |-> a, hi |-> b]

HeaderOf(s) == [src |-> s.src, flags |-> s.flags, seq |-> s.seq, ack |-> s.ack, n |-> s.n]
NoHeader    == [src |-> [addr |-> 0, port |-> 0], flags |-> {}, seq |-> 0, ack |-> 0, n |-> 0]

IsSyn(s)    == "SYN" \in s.flags /\ "ACK" \notin s.flags
IsSynAck(s) == "SYN" \in s.flags /\ "ACK" \in s.flags

\* c.age is the time since lastAt, no more than CopyGap.
Copied(c, s) == HeaderOf(s) = c.last /\ c.age < CopyGap

Unseen == [end |-> 0, seen |-> FALSE]

\* Mutant: the numbers are compared as they are, wrapped or not.
NewBytesUnwrapped(e, seq, n) ==
    IF ~e.seen THEN n
    ELSE IF Plus(seq, n) > e.end THEN IF n < Plus(seq, n) - e.end THEN n ELSE Plus(seq, n) - e.end
    ELSE 0

\* What advance returns: how many of the n bytes from seq on are new.
NewBytes(e, seq, n) ==
    LET past == Minus(Plus(seq, n), e.end)
    IN IF ~e.seen THEN n
       ELSE IF After(Plus(seq, n), e.end) THEN IF n < past THEN n ELSE past
       ELSE 0

\* What it leaves of the edge.
Advanced(e, seq, n) ==
    IF ~e.seen \/ After(Plus(seq, n), e.end) THEN [end |-> Plus(seq, n), seen |-> TRUE] ELSE e

\* Who is taken for the client of a connection that begins with s: the one the
\* SYN comes from, or, with no SYN, the one with the higher port.
ClientBy(s) ==
    IF IsSynAck(s) \/ (~IsSyn(s) /\ s.src.port < s.dst.port) THEN s.dst ELSE s.src

NewConn(s) ==
    [client |-> ClientBy(s), server |-> IF ClientBy(s) = s.src THEN s.dst ELSE s.src,
     syn |-> 0, synack |-> 0, fin |-> FALSE, rst |-> FALSE, acked |-> FALSE, refused |-> FALSE,
     sent |-> 0, received |-> 0, sentEdge |-> Unseen, recvEdge |-> Unseen,
     last |-> NoHeader, age |-> CopyGap]

\* Mutant: the close of a connection is not looked at, and a reused port begins none.
BeginsOnce(k, s) == k \notin DOMAIN open

\* s begins a connection: none is open, or it is a SYN after a close, a reused port.
Begins(k, s) ==
    \/ k \notin DOMAIN open
    \/ IsSyn(s) /\ (conns[open[k]].fin \/ conns[open[k]].rst)

\* The client answers the SYN-ACK.
Acks(c, s) == s.src = c.client /\ "ACK" \in s.flags /\ c.synack > 0

\* What tally makes of the connection c, when s belongs to it and is no copy.
Tallied(c, s) ==
    LET client == s.src = c.client
        c1 == [c EXCEPT !.last = HeaderOf(s), !.age = 0,
                 !.syn     = IF IsSyn(s) /\ client THEN @ + 1 ELSE @,
                 !.synack  = IF "SYN" \in s.flags /\ ~client THEN @ + 1 ELSE @,
                 !.acked   = @ \/ Acks(c, s),
                 !.fin     = @ \/ "FIN" \in s.flags,
                 !.rst     = @ \/ "RST" \in s.flags,
                 !.refused = @ \/ ("RST" \in s.flags /\ ~client /\ c.synack = 0)]
    IN IF client
       THEN [c1 EXCEPT !.sent = @ + NewBytes(c.sentEdge, s.seq, s.n),
                       !.sentEdge = Advanced(@, s.seq, s.n)]
       ELSE [c1 EXCEPT !.received = @ + NewBytes(c.recvEdge, s.seq, s.n),
                       !.recvEdge = Advanced(@, s.seq, s.n)]

Status(c) ==
    IF c.synack > 0 /\ c.sent > 0 /\ c.received = 0 THEN "silent"
    ELSE IF c.fin THEN "closed"
    ELSE IF c.syn > 0 /\ c.synack = 0 THEN IF c.refused THEN "refused" ELSE "no answer"
    ELSE IF c.rst THEN "reset"
    ELSE IF c.syn = 0 /\ c.synack = 0 THEN "already open"
    ELSE IF c.acked THEN "open" ELSE "half open"

Failed(c) == Status(c) \in {"no answer", "refused", "half open", "silent", "reset"}

\* A connection is listed as the game's: its ports were locked on, or the lobby
\* sent the client to its server.
Game(c) == PairOf(c.client, c.server) \in marks.locked \/ c.server \in marks.worlds

-----------------------------------------------------------------------------
\* The hosts.

\* A connection of the hosts, before anything of it was sent.
Unused(k, iss) ==
    [k |-> k, iss |-> iss, sent |-> [x \in Sides |-> 0], syns |-> 0, accepts |-> 0, acked |-> FALSE,
     fin |-> {}, reset |-> {}, whole |-> TRUE, first |-> "none", packets |-> 0]

\* The packet that side sends with flags and n bytes, from its byte from on.
Packet(u, side, flags, from, n) ==
    LET peer == Other(side)
    IN [src |-> ends[side], dst |-> ends[peer], flags |-> flags, n |-> n, from |-> from,
        seq |-> IF "SYN" \in flags THEN u.iss[side] ELSE Plus(u.iss[side], 1 + from),
        ack |-> IF "ACK" \in flags
                THEN Plus(u.iss[peer], 1 + u.sent[peer] + IF peer \in u.fin THEN 1 ELSE 0) ELSE 0]

Fresh == [uses |-> {}, opens |-> {}, closed |-> {}, synacked |-> {}, syns |-> 0,
          reached |-> [x \in Sides |-> 0], bytes |-> [x \in Sides |-> {}], late |-> [x \in Sides |-> {}]]

\* What was captured of a conn, with s of side as well.
Witnessed(h, u, side, s) ==
    LET carried == s.from .. (s.from + s.n - 1)
        end     == s.from + s.n
    IN [h EXCEPT !.uses = @ \cup {u.k},
                 !.opens = IF u.first = "none" /\ IsSyn(s) THEN @ \cup {u.k} ELSE @,
                 !.closed = IF s.flags \cap {"FIN", "RST"} # {} THEN @ \cup {u.k} ELSE @,
                 !.synacked = IF IsSynAck(s) THEN @ \cup {u.k} ELSE @,
                 !.syns = IF IsSyn(s) THEN @ + 1 ELSE @,
                 !.late[side] = @ \cup ({b \in carried : b < h.reached[side]} \ h.bytes[side]),
                 !.reached[side] = IF end > @ THEN end ELSE @,
                 !.bytes[side] = @ \cup carried]

Aged(c, dt) == [c EXCEPT !.age = IF @ + dt < CopyGap THEN @ + dt ELSE CopyGap]

\* ReadSegment hands s, dt after the conn's last packet, to tally.
Read(s, dt) ==
    LET k == PairOf(s.src, s.dst)
        i == IF Begins(k, s) THEN Len(conns) + 1 ELSE open[k]
        c == IF Begins(k, s) THEN NewConn(s) ELSE Aged(conns[i], dt)
        tallied == IF Copied(c, s) THEN c ELSE Tallied(c, s)
    IN /\ conns' = IF i > Len(conns) THEN Append(conns, tallied) ELSE [conns EXCEPT ![i] = tallied]
       /\ open' = [p \in DOMAIN open \cup {k} |-> IF p = k THEN i ELSE open[p]]

\* The conn that a packet between the two is put in as things stand.
Present == open[PairOf(ends.client, ends.server)]

\* side sends s, which leaves the hosts at u.  It is captured, or it is not.  A
\* retransmit comes no sooner than CopyGap after what it repeats.
Send(u, side, s) ==
    /\ use.packets < MaxPackets
    /\ \/ /\ use' = [u EXCEPT !.whole = FALSE, !.packets = @ + 1]
          /\ UNCHANGED <<ends, open, conns, marks, seen>>
       \/ \E dt \in 0 .. CopyGap :
          /\ UNCHANGED <<ends, marks>>
          /\ open # <<>> /\ conns[Present].last = HeaderOf(s) => conns[Present].age + dt >= CopyGap
          /\ Read(s, dt)
          /\ use' = [u EXCEPT !.first = IF @ # "none" THEN @ ELSE IF IsSyn(s) THEN "SYN" ELSE "other",
                              !.packets = @ + 1]
          /\ seen' = IF Len(conns') > Len(seen)
                     THEN Append(seen, Witnessed(Fresh, u, side, s))
                     ELSE [seen EXCEPT ![Present'] = Witnessed(@, u, side, s)]

\* The client sends its SYN, for the first time or again.
Connect ==
    /\ use.syns < MaxSyns /\ use.accepts = 0 /\ use.reset = {}
    /\ LET u == [use EXCEPT !.syns = @ + 1] IN Send(u, "client", Packet(u, "client", {"SYN"}, 0, 0))

\* The server answers it, or has not heard the client's ACK and answers again.
Accept ==
    /\ use.syns > 0 /\ use.accepts < MaxSyns /\ ~use.acked /\ use.reset = {}
    /\ LET u == [use EXCEPT !.accepts = @ + 1]
       IN Send(u, "server", Packet(u, "server", {"SYN", "ACK"}, 0, 0))

Established == use.acked /\ use.reset = {}

\* The client's bare ACK.
Answer ==
    /\ use.accepts > 0 /\ use.reset = {}
    /\ LET u == [use EXCEPT !.acked = TRUE]
       IN Send(u, "client", Packet(u, "client", {"ACK"}, use.sent["client"], 0))

\* A side sends bytes, new ones or some it sent before, cut as it likes.
Data(side) ==
    /\ Established /\ side \notin use.fin
    /\ \E from \in 0 .. use.sent[side], n \in 1 .. N :
        /\ from + n <= N
        /\ LET u == [use EXCEPT !.sent[side] = IF from + n > @ THEN from + n ELSE @]
           IN Send(u, side, Packet(u, side, {"ACK"}, from, n))

Close(side) ==
    /\ Established /\ side \notin use.fin
    /\ LET u == [use EXCEPT !.fin = @ \cup {side}]
       IN Send(u, side, Packet(u, side, {"FIN", "ACK"}, use.sent[side], 0))

\* A side resets the connection, the server maybe instead of accepting it.
Reset(side) ==
    /\ use.syns > 0 /\ use.reset = {} /\ (side = "client" => use.accepts > 0)
    /\ LET u == [use EXCEPT !.reset = {side}]
       IN Send(u, side, Packet(u, side, {"RST", "ACK"}, use.sent[side], 0))

\* The packet captured last between the two is logged a second time.
LoggedTwice ==
    /\ open # <<>>
    /\ \E dt \in 0 .. CopyGap - 1 :
        LET h == conns[Present].last
            s == [src |-> h.src, dst |-> IF h.src = ends.client THEN ends.server ELSE ends.client,
                  flags |-> h.flags, seq |-> h.seq, ack |-> h.ack, n |-> h.n]
        IN /\ conns[Present].age + dt < CopyGap
           /\ Read(s, dt)
    /\ UNCHANGED <<ends, use, marks, seen>>

\* The decoder, which reads what the ledger has tallied, hands out a message of
\* the server's, or one of a lobby elsewhere that sends the client to this server.
Message ==
    /\ \/ /\ \E i \in DOMAIN seen : seen[i].bytes["server"] # {}
          /\ marks' = [marks EXCEPT !.locked = @ \cup {PairOf(ends.server, ends.client)}]
       \/ marks' = [marks EXCEPT !.worlds = @ \cup {ends.server}]
    /\ UNCHANGED <<ends, use, open, conns, seen>>

\* The ports are used again, once both hosts are done with them.
Reuse ==
    /\ use.k < MaxUses /\ (use.reset # {} \/ use.fin = Sides)
    /\ \E c \in StartSeqs, v \in StartSeqs :
        use' = Unused(use.k + 1, [x \in Sides |-> IF x = "client" THEN c ELSE v])
    /\ UNCHANGED <<ends, open, conns, marks, seen>>

Init ==
    /\ \E e \in Ends : ends = [client |-> e[1], server |-> e[2]]
    /\ \E c \in StartSeqs, v \in StartSeqs :
        use = Unused(1, [x \in Sides |-> IF x = "client" THEN c ELSE v])
    /\ open = <<>> /\ conns = <<>> /\ seen = <<>>
    /\ marks = [locked |-> {}, worlds |-> {}]

Next ==
    \/ Connect \/ Accept \/ Answer \/ LoggedTwice \/ Message \/ Reuse
    \/ \E side \in Sides : Data(side) \/ Close(side) \/ Reset(side)

Spec == Init /\ [][Next]_vars

-----------------------------------------------------------------------------
\* Properties.

\* The records have their types, and each conn its history.
TypeOK ==
    /\ Len(conns) = Len(seen)
    /\ \A k \in DOMAIN open : open[k] \in DOMAIN conns
    /\ \A i \in DOMAIN conns :
        /\ {conns[i].client, conns[i].server} = {ends.client, ends.server}
        /\ {conns[i].syn, conns[i].synack, conns[i].sent, conns[i].received} \subseteq Nat
        /\ conns[i].age \in 0 .. CopyGap

\* conns[i] holds one connection of the hosts, with the client taken for the client.
Clear(i) == Cardinality(seen[i].uses) = 1 /\ conns[i].client = ends.client

\* Sent and Received count each byte captured once, however often it was sent,
\* however it was cut, and across the wrap of the numbers; but for bytes
\* first captured after a packet that came after them, which pass for retransmits
\* (edge.advance).
BytesCountedOnce ==
    \A i \in DOMAIN conns : Clear(i) =>
        /\ conns[i].sent = Cardinality(seen[i].bytes["client"] \ seen[i].late["client"])
        /\ conns[i].received = Cardinality(seen[i].bytes["server"] \ seen[i].late["server"])

\* A packet logged twice is counted once, one sent twice is counted twice (conn.copied).
CopiesNotCounted == \A i \in DOMAIN conns : Clear(i) => conns[i].syn = seen[i].syns

\* Connections that use the same ports one after another are told apart (tally):
\* one whose SYN was captured first is in one conn only, and in none with an
\* earlier one whose close was captured.
UsesToldApart ==
    \A i \in DOMAIN conns : \A k \in seen[i].opens :
        /\ \A j \in DOMAIN conns : k \in seen[j].uses => j = i
        /\ \A earlier \in seen[i].uses \cap seen[i].closed : ~(earlier < k)

\* What became of a connection, as the hosts know.
Fate(u) ==
    IF u.accepts = 0 THEN IF "server" \in u.reset THEN "refused" ELSE "no answer"
    ELSE IF u.sent["client"] > 0 /\ u.sent["server"] = 0 THEN "silent"
    ELSE IF u.fin # {} THEN "closed"
    ELSE IF u.reset # {} THEN "reset"
    ELSE IF u.acked THEN "open" ELSE "half open"

\* A connection captured whole has the status of what became of it (conn.status).
StatusIsTheFate ==
    open # <<>> /\ use.whole /\ seen[Present].uses = {use.k} =>
        Status(conns[Present]) = Fate(use)

\* What the decoder locked on, and where the lobby sent the client, is listed as
\* the game's, whichever packet of it was captured first (connections).
GameIsListed ==
    /\ marks.locked # {} => \E i \in DOMAIN conns : Game(conns[i]) /\ seen[i].bytes["server"] # {}
    /\ marks.worlds # {} => \A i \in DOMAIN conns : Clear(i) => Game(conns[i])

\* However much was lost of it, a connection seen to carry bytes of both sides
\* fails only when it was reset, if its SYN-ACK was captured when its SYN was.
TalkedNeverFails ==
    \A i \in DOMAIN conns :
        /\ Clear(i)
        /\ seen[i].bytes["client"] # {} /\ seen[i].bytes["server"] # {}
        /\ seen[i].syns > 0 => seen[i].synacked # {}
        /\ Failed(conns[i])
        => conns[i].rst

\* What a connection is said to have sent is what its hosts sent, each byte and each SYN once,
\* however often it was sent or logged, and one that carried bytes has not failed (tally, advance).
BytesAreTheHosts == TypeOK /\ BytesCountedOnce /\ CopiesNotCounted /\ TalkedNeverFails

\* Connections on the same ports are told apart, and each is said to have become what it did
\* (tally, status, connections).
FatesAreTold == UsesToldApart /\ StatusIsTheFate /\ GameIsListed
=============================================================================
