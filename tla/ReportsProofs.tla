---------------------------- MODULE ReportsProofs ----------------------------
(***************************************************************************)
(* What a recording is reported as: the connections ledger and the trace.  *)
(*                                                                         *)
(* The ledger, for any endpoints, any width of sequence numbers,           *)
(* connections of any length in the window and ports used again any number *)
(* of times, whatever was captured of them: what a conn counts is what was *)
(* captured of its connection, connections that use the same ports are     *)
(* told apart, and one captured whole has the status of what became of it. *)
(* A packet goes to the last conn of its pair or begins a new one.  Told   *)
(* says what a conn and the history of what was captured of it share for   *)
(* good; Follows and Complete, what the last conn has besides with the     *)
(* hosts' present connection; Parted, which conns a connection is in.      *)
(*                                                                         *)
(* The trace, for any messages, of however many entities, at any times:    *)
(* each Cast is in it once, with the end that is its own, on a track with  *)
(* a name.  A Cast waits as long as no message of its actor and skill has  *)
(* come after it (WaitsFor), and the first that comes decides what it is   *)
(* written as (IsDecided); what is kept waits (KeptAre), and what is       *)
(* written is on a track that was opened (OnTracks).                       *)
(*                                                                         *)
(* The analysis, for any servers and flows, segments of any size that are  *)
(* sent again or overtake each other within the window, and messages at    *)
(* any times: it is of one server's session, with the packets that its     *)
(* client sent, each once.  A segment's end is after that of the furthest  *)
(* before (IsNew) when it reaches past all its flow had sent (NewIsPast),  *)
(* for the furthest is where the flow had reached (FurthestAre); a         *)
(* selection that grows at its end grows by one (ThoseGrow), so what tee   *)
(* keeps are the sends; and what Analyze picks of them and of the messages *)
(* is all there is of the flow with the most (PickedIs, SentAre).          *)
(***************************************************************************)
EXTENDS Conns, Trace, Analysis, FiniteSetTheorems, SequenceTheorems, Induction, TLAPS

Endpoint == [addr : Nat, port : Nat]
Flags == {"SYN", "ACK", "FIN", "RST"}
Header == [src : Endpoint, flags : SUBSET Flags, seq : Int, ack : Int, n : Nat]
Edge == [end : Int, seen : BOOLEAN]

Firsts == {"none", "SYN", "other"}

\* A connection of the hosts, a conn of the ledger, and what was captured of one.
AUse == [k : Nat, iss : [Sides -> Seqs], sent : [Sides -> 0 .. N], syns : Nat, accepts : Nat, acked : BOOLEAN,
         fin : SUBSET Sides, reset : SUBSET Sides, whole : BOOLEAN, first : Firsts,
         packets : Nat]
AConn == [client : Endpoint, server : Endpoint, syn : Nat, synack : Nat, fin : BOOLEAN, rst : BOOLEAN,
          acked : BOOLEAN, refused : BOOLEAN, sent : Nat, received : Nat, sentEdge : Edge, recvEdge : Edge,
          last : Header, age : 0 .. CopyGap]
AHistory == [uses : SUBSET Nat, opens : SUBSET Nat, closed : SUBSET Nat, synacked : SUBSET Nat, syns : Nat,
             reached : [Sides -> 0 .. N], bytes : [Sides -> SUBSET (0 .. N)], late : [Sides -> SUBSET Nat]]

Pair == PairOf(ends.client, ends.server)
Placed == IF conns = <<>> THEN open = <<>> ELSE open = [p \in {Pair} |-> Len(conns)]

Types ==
    /\ ends \in [client : Endpoint, server : Endpoint] /\ ends.client # ends.server
    /\ use \in AUse
    /\ Len(conns) = Len(seen)
    /\ conns \in Seq(AConn) /\ seen \in Seq(AHistory)
    /\ Placed
    /\ marks \in [locked : SUBSET {Pair}, worlds : SUBSET {ends.server}]

\* What the hosts have done, they did in its order.
InOrder(u) ==
    /\ u.acked => u.accepts > 0
    /\ u.accepts > 0 => u.syns > 0
    /\ \A x \in Sides : u.sent[x] > 0 => u.acked
    /\ u.fin # {} => u.acked
    /\ u.reset # {} => u.syns > 0
    /\ "client" \in u.reset => u.accepts > 0
    /\ u.whole => u.first # "other" /\ (u.first = "none" <=> u.syns = 0)

\* All of a conn is of one connection, whose client it names.
Right(c, h) == c.client = ends.client /\ \A j, k \in h.uses : j = k

News(h, x) == h.bytes[x] \ h.late[x]

TallyOf(c, x) == IF x = "client" THEN c.sent ELSE c.received

\* What such a conn counts is what was captured.
Counted(c, h) ==
    /\ \A x \in Sides : TallyOf(c, x) = Cardinality(News(h, x))
    /\ c.syn = h.syns
    /\ h.synacked # {} => c.synack > 0
    /\ c.synack > 0 /\ h.bytes["client"] # {} => c.acked
    /\ h.bytes["server"] # {} => News(h, "server") # {}

\* A conn and what was captured of it, for good.
Told(c, h) ==
    /\ {c.client, c.server} = {ends.client, ends.server}
    /\ h.uses # {} /\ h.opens \subseteq h.uses /\ h.closed \subseteq h.uses
    /\ (c.fin \/ c.rst) <=> h.closed # {}
    /\ c.last.src \in {ends.client, ends.server}
    /\ IsSyn(c.last) => ~c.fin /\ ~c.rst
    /\ Right(c, h) => Counted(c, h)

EdgeOf(c, x) == IF x = "client" THEN c.sentEdge ELSE c.recvEdge

\* The edge of a side that has reached r bytes, or has sent no more than its SYN.
At(e, iss, r) == IF e.seen THEN e.end = Plus(iss, 1 + r) \/ (r = 0 /\ e.end = iss) ELSE r = 0

\* The last conn, as long as it is of the hosts' present connection alone.
Follows(c, h, u) ==
    /\ \A x \in Sides :
        /\ At(EdgeOf(c, x), u.iss[x], h.reached[x])
        /\ h.reached[x] <= u.sent[x]
        /\ h.bytes[x] \subseteq 0 .. h.reached[x] - 1
        /\ h.late[x] \subseteq h.bytes[x]
    /\ h.bytes["server"] = {} /\ h.reached["server"] # 0 => "server" \in u.fin \/ u.reset # {}

\* And all of that connection was captured.
Complete(c, h, u) ==
    /\ c.client = ends.client
    /\ \A x \in Sides : h.bytes[x] = 0 .. u.sent[x] - 1 /\ h.late[x] = {} /\ h.reached[x] = u.sent[x]
    /\ c.syn = u.syns /\ c.synack = u.accepts
    /\ c.fin <=> u.fin # {}
    /\ c.rst <=> u.reset # {}
    /\ u.reset = {} => (c.acked <=> u.acked)
    /\ c.refused <=> u.accepts = 0 /\ u.reset # {}

Live(c, h, u) ==
    /\ u.k \in h.uses /\ Right(c, h) => Follows(c, h, u)
    /\ u.whole /\ h.uses = {u.k} => Complete(c, h, u)

\* Which conns the hosts' connections are in.
Parted ==
    /\ \A i \in DOMAIN seen : \A k \in seen[i].uses : k <= use.k
    /\ use.first = "none" => \A i \in DOMAIN seen : use.k \notin seen[i].uses
    /\ use.first = "SYN" =>
        /\ seen # <<>>
        /\ \A i \in DOMAIN seen : use.k \in seen[i].uses => i = Len(seen)
        /\ seen[Len(seen)].closed # {} => use.accepts > 0 \/ use.reset # {}
    /\ \A i \in DOMAIN seen : use.k \in seen[i].opens => use.first = "SYN"
    /\ UsesToldApart

Marked == marks.locked # {} => \E i \in DOMAIN seen : seen[i].bytes["server"] # {}

IInv ==
    /\ Types /\ InOrder(use) /\ Parted /\ Marked
    /\ \A i \in DOMAIN conns : Told(conns[i], seen[i])
    /\ conns # <<>> => Live(conns[Len(conns)], seen[Len(seen)], use)

-----------------------------------------------------------------------------
\* Sequence numbers: those of a connection's bytes compare as their places do, wherever they wrap.

LEMMA Window ==
    /\ Mod \in Nat \ {0} /\ N \in Nat /\ 2 * (N + 1) < Mod /\ 2 * (Mod \div 2) = Mod
    /\ CopyGap \in Nat \ {0} /\ StartSeqs \subseteq Seqs
BY ConnsAssumption, ModAssumption

LEMMA ModOfSmall == ASSUME NEW M \in Nat \ {0}, NEW x \in 0 .. M - 1 PROVE x % M = x
OBVIOUS

LEMMA ModOfLarge == ASSUME NEW M \in Nat \ {0}, NEW x \in M .. 2 * M - 1 PROVE x % M = x - M
OBVIOUS

LEMMA ModOfNegative == ASSUME NEW M \in Nat \ {0}, NEW x \in -M .. -1 PROVE x % M = x + M
OBVIOUS

LEMMA PlusIs ==
    ASSUME NEW i \in Seqs, NEW p \in 0 .. N + 1
    PROVE  Plus(i, p) \in Seqs /\ Plus(i, p) = IF i + p < Mod THEN i + p ELSE i + p - Mod
<1>1. CASE i + p < Mod
  <2>1. i + p \in 0 .. Mod - 1 BY <1>1, Window DEF Seqs
  <2>2. (i + p) % Mod = i + p BY <2>1, Window, ModOfSmall
  <2> QED BY <1>1, <2>1, <2>2 DEF Plus, Seqs
<1>2. CASE ~(i + p < Mod)
  <2>1. i + p \in Mod .. 2 * Mod - 1 BY <1>2, Window DEF Seqs
  <2>2. Plus(i, p) = (i + p) - Mod BY <2>1, Window, ModOfLarge DEF Plus
  <2>3. (i + p) - Mod \in 0 .. Mod - 1 BY <2>1, Window DEF Seqs
  <2>4. Plus(i, p) \in Seqs BY <2>2, <2>3 DEF Seqs
  <2>5. Plus(i, p) = IF i + p < Mod THEN i + p ELSE i + p - Mod BY <1>2, <2>2, Window DEF Seqs
  <2> QED BY <2>4, <2>5
<1> QED BY <1>1, <1>2

LEMMA MinusIs ==
    ASSUME NEW i \in Seqs, NEW p \in 0 .. N + 1, NEW q \in 0 .. N + 1
    PROVE  Minus(Plus(i, p), Plus(i, q)) = IF q <= p THEN p - q ELSE p - q + Mod
<1> DEFINE x == Plus(i, p)
           y == Plus(i, q)
<1>1. x = IF i + p < Mod THEN i + p ELSE i + p - Mod BY PlusIs
<1>2. y = IF i + q < Mod THEN i + q ELSE i + q - Mod BY PlusIs
<1>3. x \in Seqs /\ y \in Seqs BY PlusIs
<1> HIDE DEF x, y
<1>4. x - y \in {p - q, p - q + Mod, p - q - Mod} BY <1>1, <1>2, Window DEF Seqs
<1>5. x - y \in -Mod + 1 .. Mod - 1 BY <1>3, Window DEF Seqs
<1>6. (x - y) % Mod = IF 0 <= x - y THEN x - y ELSE x - y + Mod
  <2>1. CASE 0 <= x - y
    <3>1. x - y \in 0 .. Mod - 1 BY <1>5, <2>1, Window
    <3> QED BY <2>1, <3>1, Window, ModOfSmall
  <2>2. CASE ~(0 <= x - y)
    <3>1. x - y \in -Mod .. -1 BY <1>5, <2>2, Window
    <3> QED BY <2>2, <3>1, Window, ModOfNegative
  <2> QED BY <2>1, <2>2
<1>7. p - q \in -(N + 1) .. N + 1 BY Window
<1>8. (x - y) % Mod = IF q <= p THEN p - q ELSE p - q + Mod BY <1>4, <1>5, <1>6, <1>7, Window
<1> QED BY <1>8 DEF Minus, x, y

LEMMA AfterIs ==
    ASSUME NEW i \in Seqs, NEW p \in 0 .. N + 1, NEW q \in 0 .. N + 1
    PROVE  After(Plus(i, p), Plus(i, q)) <=> p > q
<1>1. Minus(Plus(i, p), Plus(i, q)) = IF q <= p THEN p - q ELSE p - q + Mod BY MinusIs
<1>2. p - q \in -(N + 1) .. N + 1 BY Window
<1> QED BY <1>1, <1>2, Window DEF After

-----------------------------------------------------------------------------
\* advance.

\* The part of n bytes from the p-th on that is past the r-th.
Past(r, p, n) == IF p + n > r THEN IF n < p + n - r THEN n ELSE p + n - r ELSE 0

Further(r, end) == IF end > r THEN end ELSE r

LEMMA AdvanceTypes ==
    ASSUME NEW e \in Edge, NEW seq \in Int, NEW n \in Nat
    PROVE  NewBytes(e, seq, n) \in Nat /\ Advanced(e, seq, n) \in Edge
<1>1. Plus(seq, n) \in Int BY Window DEF Plus
<1>2. Minus(Plus(seq, n), e.end) \in Nat BY <1>1, Window DEF Minus, Edge
<1>3. NewBytes(e, seq, n) \in Nat BY <1>2 DEF NewBytes
<1>4. Advanced(e, seq, n) \in Edge BY <1>1 DEF Advanced, Edge
<1> QED BY <1>3, <1>4

\* n bytes from the p-th on, of a side that has reached the r-th.
LEMMA AdvanceIs ==
    ASSUME NEW i \in Seqs, NEW e \in Edge, NEW r \in 0 .. N, At(e, i, r),
           NEW p \in Nat, NEW n \in Nat, p + n <= N, NEW seq, seq = Plus(i, 1 + p)
    PROVE  /\ NewBytes(e, seq, n) = Past(r, p, n)
           /\ At(Advanced(e, seq, n), i, Further(r, p + n))
<1> DEFINE z == Plus(seq, n)
<1>1. z = Plus(i, 1 + p + n)
  <2>1. 1 + p \in 0 .. N + 1 /\ 1 + p + n \in 0 .. N + 1 BY Window
  <2>2. seq = IF i + (1 + p) < Mod THEN i + (1 + p) ELSE i + (1 + p) - Mod BY <2>1, PlusIs
  <2>3. Plus(i, 1 + p + n) = IF i + (1 + p + n) < Mod THEN i + (1 + p + n) ELSE i + (1 + p + n) - Mod
    BY <2>1, PlusIs
  <2>4. seq \in Seqs /\ n \in 0 .. N + 1 BY <2>1, PlusIs, Window
  <2>5. z = IF seq + n < Mod THEN seq + n ELSE seq + n - Mod BY <2>4, PlusIs
  <2> HIDE DEF z
  <2> QED BY <2>2, <2>3, <2>4, <2>5, Window DEF Seqs
<1> HIDE DEF z
<1>2. 1 + p + n \in 0 .. N + 1 /\ 1 + r \in 0 .. N + 1 /\ 0 \in 0 .. N + 1 BY Window
<1>3. Plus(i, 0) = i BY <1>2, PlusIs, Window DEF Seqs
<1>4. CASE ~e.seen
  <2>1. r = 0 BY <1>4 DEF At
  <2>2. NewBytes(e, seq, n) = n BY <1>4 DEF NewBytes
  <2>3. Advanced(e, seq, n) = [end |-> z, seen |-> TRUE] BY <1>4 DEF Advanced, z
  <2>4. Past(r, p, n) = n /\ Further(r, p + n) = p + n BY <2>1 DEF Past, Further
  <2>5. z = Plus(i, 1 + (p + n)) BY <1>1
  <2> QED BY <2>2, <2>3, <2>4, <2>5 DEF At
<1>5. CASE e.seen /\ e.end = Plus(i, 1 + r)
  <2>1. Minus(z, e.end) = IF 1 + r <= 1 + p + n THEN (1 + p + n) - (1 + r) ELSE (1 + p + n) - (1 + r) + Mod
    BY <1>1, <1>2, <1>5, MinusIs
  <2>2. After(z, e.end) <=> 1 + p + n > 1 + r BY <1>1, <1>2, <1>5, AfterIs
  <2>3. NewBytes(e, seq, n) = IF After(z, e.end) THEN IF n < Minus(z, e.end) THEN n ELSE Minus(z, e.end) ELSE 0
    BY <1>5 DEF NewBytes, z
  <2>4. NewBytes(e, seq, n) = Past(r, p, n) BY <2>1, <2>2, <2>3 DEF Past
  <2>5. CASE p + n > r
    <3>1. Advanced(e, seq, n) = [end |-> z, seen |-> TRUE] BY <2>2, <2>5 DEF Advanced, z
    <3>2. z = Plus(i, 1 + (p + n)) BY <1>1
    <3> QED BY <2>4, <2>5, <3>1, <3>2 DEF At, Further
  <2>6. CASE ~(p + n > r)
    <3>1. Advanced(e, seq, n) = e BY <1>5, <2>2, <2>6 DEF Advanced, z
    <3> QED BY <1>5, <2>4, <2>6, <3>1 DEF At, Further
  <2> QED BY <2>5, <2>6
<1>6. CASE e.seen /\ r = 0 /\ e.end = i
  <2>1. Minus(z, e.end) = 1 + p + n BY <1>1, <1>2, <1>3, <1>6, MinusIs
  <2>2. After(z, e.end) BY <1>1, <1>2, <1>3, <1>6, AfterIs
  <2>3. NewBytes(e, seq, n) = n BY <1>6, <2>1, <2>2 DEF NewBytes, z
  <2>4. Advanced(e, seq, n) = [end |-> z, seen |-> TRUE] BY <2>2 DEF Advanced, z
  <2>5. Past(r, p, n) = n /\ Further(r, p + n) = p + n BY <1>6 DEF Past, Further
  <2>6. z = Plus(i, 1 + (p + n)) BY <1>1
  <2> QED BY <2>3, <2>4, <2>5, <2>6 DEF At
<1> QED BY <1>4, <1>5, <1>6 DEF At

\* A SYN has no bytes, and comes before the first.
LEMMA AdvanceSyn ==
    ASSUME NEW i \in Seqs, NEW e \in Edge, NEW r \in 0 .. N, At(e, i, r)
    PROVE  NewBytes(e, i, 0) = 0 /\ At(Advanced(e, i, 0), i, r)
<1>1. 1 + r \in 0 .. N + 1 /\ 0 \in 0 .. N + 1 BY Window
<1>2. Plus(i, 0) = i BY <1>1, PlusIs, Window DEF Seqs
<1>3. ~After(i, Plus(i, 1 + r)) /\ ~After(i, i)
  <2>1. ~(0 > 1 + r) /\ ~(0 > 0) BY <1>1
  <2> QED BY <1>1, <1>2, <2>1, AfterIs
<1>4. CASE ~e.seen
  <2>1. Advanced(e, i, 0) = [end |-> i, seen |-> TRUE] BY <1>2, <1>4 DEF Advanced
  <2> QED BY <1>4, <2>1 DEF At, NewBytes
<1>5. CASE e.seen
  <2>1. ~After(Plus(i, 0), e.end) BY <1>2, <1>3, <1>5 DEF At
  <2> QED BY <1>5, <2>1 DEF NewBytes, Advanced
<1> QED BY <1>4, <1>5

-----------------------------------------------------------------------------
\* What tally makes of a conn.

\* A packet on its way between the two.
Segment == [src : Endpoint, dst : Endpoint, flags : SUBSET Flags, n : 0 .. N, from : 0 .. N, seq : Int, ack : Int]

LEMMA HeaderIs == ASSUME NEW s \in Segment PROVE HeaderOf(s) \in Header /\ HeaderOf(s).src = s.src /\ HeaderOf(s).flags = s.flags
BY Window DEF Segment, Header, HeaderOf

LEMMA NewConnIs ==
    ASSUME NEW s \in Segment, NEW c, c = NewConn(s)
    PROVE  /\ c \in AConn /\ c.client = ClientBy(s) /\ c.server = IF c.client = s.src THEN s.dst ELSE s.src
           /\ c.syn = 0 /\ c.synack = 0 /\ ~c.fin /\ ~c.rst /\ ~c.acked /\ ~c.refused
           /\ c.sent = 0 /\ c.received = 0 /\ c.sentEdge = Unseen /\ c.recvEdge = Unseen /\ c.age = CopyGap
<1>1. NoHeader \in Header /\ Unseen \in Edge /\ CopyGap \in 0 .. CopyGap
  BY Window DEF NoHeader, Header, Endpoint, Flags, Unseen, Edge
<1>2. ClientBy(s) \in Endpoint /\ s.src \in Endpoint /\ s.dst \in Endpoint BY DEF Segment, ClientBy
<1> QED BY <1>1, <1>2 DEF NewConn, AConn

LEMMA AgedIs ==
    ASSUME NEW c \in AConn, NEW dt \in Nat, NEW d, d = Aged(c, dt)
    PROVE  /\ d \in AConn /\ \E a \in 0 .. CopyGap : d = [c EXCEPT !.age = a]
           /\ d.age = IF c.age + dt < CopyGap THEN c.age + dt ELSE CopyGap
<1>1. PICK a \in 0 .. CopyGap : d = [c EXCEPT !.age = a] /\ a = IF c.age + dt < CopyGap THEN c.age + dt ELSE CopyGap
  BY Window DEF AConn, Aged
<1> QED BY <1>1 DEF AConn

LEMMA TalliedIs ==
    ASSUME NEW c \in AConn, NEW s \in Segment, NEW t, t = Tallied(c, s)
    PROVE  /\ t \in AConn /\ t.client = c.client /\ t.server = c.server
           /\ t.last = HeaderOf(s)
           /\ t.syn = IF IsSyn(s) /\ s.src = c.client THEN c.syn + 1 ELSE c.syn
           /\ t.synack = IF "SYN" \in s.flags /\ s.src # c.client THEN c.synack + 1 ELSE c.synack
           /\ t.acked <=> c.acked \/ Acks(c, s)
           /\ t.fin <=> c.fin \/ "FIN" \in s.flags
           /\ t.rst <=> c.rst \/ "RST" \in s.flags
           /\ t.refused <=> c.refused \/ ("RST" \in s.flags /\ s.src # c.client /\ c.synack = 0)
           /\ IF s.src = c.client
              THEN /\ t.sent = c.sent + NewBytes(c.sentEdge, s.seq, s.n) /\ t.received = c.received
                   /\ t.sentEdge = Advanced(c.sentEdge, s.seq, s.n) /\ t.recvEdge = c.recvEdge
              ELSE /\ t.received = c.received + NewBytes(c.recvEdge, s.seq, s.n) /\ t.sent = c.sent
                   /\ t.recvEdge = Advanced(c.recvEdge, s.seq, s.n) /\ t.sentEdge = c.sentEdge
<1>1. /\ NewBytes(c.sentEdge, s.seq, s.n) \in Nat /\ Advanced(c.sentEdge, s.seq, s.n) \in Edge
      /\ NewBytes(c.recvEdge, s.seq, s.n) \in Nat /\ Advanced(c.recvEdge, s.seq, s.n) \in Edge
  <2>1. c.sentEdge \in Edge /\ c.recvEdge \in Edge /\ s.seq \in Int /\ s.n \in Nat BY Window DEF AConn, Segment
  <2> QED BY <2>1, AdvanceTypes
<1>2. HeaderOf(s) \in Header /\ 0 \in 0 .. CopyGap BY HeaderIs, Window
<1> DEFINE syn     == IF IsSyn(s) /\ s.src = c.client THEN c.syn + 1 ELSE c.syn
           synack  == IF "SYN" \in s.flags /\ ~(s.src = c.client) THEN c.synack + 1 ELSE c.synack
           acked   == c.acked \/ Acks(c, s)
           fin     == c.fin \/ "FIN" \in s.flags
           rst     == c.rst \/ "RST" \in s.flags
           refused == c.refused \/ ("RST" \in s.flags /\ ~(s.src = c.client) /\ c.synack = 0)
           header  == HeaderOf(s)
           b == [c EXCEPT !.last = header, !.age = 0, !.syn = syn, !.synack = synack, !.acked = acked,
                          !.fin = fin, !.rst = rst, !.refused = refused]
<1>3. syn \in Nat /\ synack \in Nat /\ acked \in BOOLEAN /\ fin \in BOOLEAN /\ rst \in BOOLEAN /\ refused \in BOOLEAN
  <2>1. c.syn \in Nat /\ c.synack \in Nat /\ c.acked \in BOOLEAN /\ c.fin \in BOOLEAN /\ c.rst \in BOOLEAN
        /\ c.refused \in BOOLEAN
    BY DEF AConn
  <2> QED BY <2>1 DEF Acks
<1>4. t = IF s.src = c.client
          THEN [b EXCEPT !.sent = @ + NewBytes(c.sentEdge, s.seq, s.n), !.sentEdge = Advanced(@, s.seq, s.n)]
          ELSE [b EXCEPT !.received = @ + NewBytes(c.recvEdge, s.seq, s.n), !.recvEdge = Advanced(@, s.seq, s.n)]
  BY DEF Tallied, AConn
<1> HIDE DEF syn, synack, acked, fin, rst, refused, header
<1>5. header \in Header BY <1>2 DEF header
<1>9. b \in AConn BY <1>2, <1>3, <1>5 DEF AConn
<1>10. /\ b.client = c.client /\ b.server = c.server /\ b.last = header
       /\ b.syn = syn /\ b.synack = synack /\ b.acked = acked /\ b.fin = fin /\ b.rst = rst /\ b.refused = refused
  BY DEF AConn
<1>11. /\ b.sent = c.sent /\ b.received = c.received /\ b.sentEdge = c.sentEdge /\ b.recvEdge = c.recvEdge
  BY DEF AConn
<1>6. /\ b \in AConn /\ b.client = c.client /\ b.server = c.server /\ b.last = header
      /\ b.syn = syn /\ b.synack = synack /\ b.acked = acked /\ b.fin = fin /\ b.rst = rst /\ b.refused = refused
      /\ b.sent = c.sent /\ b.received = c.received /\ b.sentEdge = c.sentEdge /\ b.recvEdge = c.recvEdge
  BY <1>9, <1>10, <1>11
<1> HIDE DEF b
<1>7. /\ t \in AConn /\ t.client = b.client /\ t.server = b.server /\ t.last = b.last /\ t.syn = b.syn
      /\ t.synack = b.synack /\ t.acked = b.acked /\ t.fin = b.fin /\ t.rst = b.rst /\ t.refused = b.refused
      /\ IF s.src = c.client
         THEN /\ t.sent = c.sent + NewBytes(c.sentEdge, s.seq, s.n) /\ t.received = c.received
              /\ t.sentEdge = Advanced(c.sentEdge, s.seq, s.n) /\ t.recvEdge = c.recvEdge
         ELSE /\ t.received = c.received + NewBytes(c.recvEdge, s.seq, s.n) /\ t.sent = c.sent
              /\ t.recvEdge = Advanced(c.recvEdge, s.seq, s.n) /\ t.sentEdge = c.sentEdge
  <2>1. CASE s.src = c.client
    <3> DEFINE n == c.sent + NewBytes(c.sentEdge, s.seq, s.n)
               e == Advanced(c.sentEdge, s.seq, s.n)
    <3>1. t = [b EXCEPT !.sent = n, !.sentEdge = e] BY <1>4, <1>6, <2>1 DEF AConn
    <3>2. n \in Nat /\ e \in Edge BY <1>1 DEF AConn
    <3> HIDE DEF n, e
    <3>3. /\ t \in AConn /\ t.client = b.client /\ t.server = b.server /\ t.last = b.last /\ t.syn = b.syn
          /\ t.synack = b.synack /\ t.acked = b.acked /\ t.fin = b.fin /\ t.rst = b.rst /\ t.refused = b.refused
          /\ t.sent = n /\ t.received = b.received /\ t.sentEdge = e /\ t.recvEdge = b.recvEdge
      BY <1>6, <3>1, <3>2 DEF AConn
    <3> QED BY <1>6, <2>1, <3>3 DEF n, e
  <2>2. CASE s.src # c.client
    <3> DEFINE n == c.received + NewBytes(c.recvEdge, s.seq, s.n)
               e == Advanced(c.recvEdge, s.seq, s.n)
    <3>1. t = [b EXCEPT !.received = n, !.recvEdge = e] BY <1>4, <1>6, <2>2 DEF AConn
    <3>2. n \in Nat /\ e \in Edge BY <1>1 DEF AConn
    <3> HIDE DEF n, e
    <3>3. /\ t \in AConn /\ t.client = b.client /\ t.server = b.server /\ t.last = b.last /\ t.syn = b.syn
          /\ t.synack = b.synack /\ t.acked = b.acked /\ t.fin = b.fin /\ t.rst = b.rst /\ t.refused = b.refused
          /\ t.received = n /\ t.sent = b.sent /\ t.recvEdge = e /\ t.sentEdge = b.sentEdge
      BY <1>6, <3>1, <3>2 DEF AConn
    <3> QED BY <1>6, <2>2, <3>3 DEF n, e
  <2> QED BY <2>1, <2>2
<1>8. /\ t.syn = syn /\ t.synack = synack /\ t.acked = acked /\ t.fin = fin /\ t.rst = rst /\ t.refused = refused
      /\ t.client = c.client /\ t.server = c.server /\ t.last = HeaderOf(s)
  BY <1>7, <1>6 DEF header
<1> QED BY <1>7, <1>8 DEF syn, synack, acked, fin, rst, refused

\* A pair is one whichever end is named first.
LEMMA PairSame ==
    ASSUME NEW x \in Endpoint, NEW y \in Endpoint
    PROVE  PairOf(x, y) = PairOf(y, x)
<1>1. CASE x = y BY <1>1
<1>2. CASE x # y
  <2>1. x.addr # y.addr \/ x.port # y.port BY <1>2 DEF Endpoint
  <2>2. {x.addr, x.port, y.addr, y.port} \subseteq Nat BY DEF Endpoint
  <2>3. Above(x, y) <=> ~Above(y, x) BY <2>1, <2>2 DEF Above
  <2> QED BY <2>3 DEF PairOf
<1> QED BY <1>1, <1>2

-----------------------------------------------------------------------------
\* What is captured.

\* Those of n bytes from the p-th on that come after the r-th and are not in bytes.
Behind(bytes, r, p, n) == {b \in p .. p + n - 1 : b < r} \ bytes

\* What was captured becomes w.
Grown(h, u, side, s, w) ==
    /\ w \in AHistory /\ w.uses = h.uses \cup {u.k}
    /\ w.opens = IF u.first = "none" /\ IsSyn(s) THEN h.opens \cup {u.k} ELSE h.opens
    /\ w.closed = IF s.flags \cap {"FIN", "RST"} # {} THEN h.closed \cup {u.k} ELSE h.closed
    /\ w.synacked = IF IsSynAck(s) THEN h.synacked \cup {u.k} ELSE h.synacked
    /\ w.syns = IF IsSyn(s) THEN h.syns + 1 ELSE h.syns
    /\ w.late[side] = h.late[side] \cup Behind(h.bytes[side], h.reached[side], s.from, s.n)
    /\ w.reached[side] = Further(h.reached[side], s.from + s.n)
    /\ w.bytes[side] = h.bytes[side] \cup (s.from .. s.from + s.n - 1)
    /\ \A x \in Sides \ {side} : w.late[x] = h.late[x] /\ w.reached[x] = h.reached[x] /\ w.bytes[x] = h.bytes[x]

LEMMA WitnessedIs ==
    ASSUME NEW h \in AHistory, NEW u \in AUse, NEW side \in Sides, NEW s \in Segment, s.from + s.n <= N,
           NEW w, w = Witnessed(h, u, side, s)
    PROVE  Grown(h, u, side, s, w)
<1> DEFINE carried == s.from .. (s.from + s.n - 1)
           end == s.from + s.n
           late == [h.late EXCEPT ![side] = @ \cup ({b \in carried : b < h.reached[side]} \ h.bytes[side])]
           reached == [h.reached EXCEPT ![side] = IF end > @ THEN end ELSE @]
           bytes == [h.bytes EXCEPT ![side] = @ \cup carried]
           uses == h.uses \cup {u.k}
           opens == IF u.first = "none" /\ IsSyn(s) THEN h.opens \cup {u.k} ELSE h.opens
           closed == IF s.flags \cap {"FIN", "RST"} # {} THEN h.closed \cup {u.k} ELSE h.closed
           synacked == IF IsSynAck(s) THEN h.synacked \cup {u.k} ELSE h.synacked
           syns == IF IsSyn(s) THEN h.syns + 1 ELSE h.syns
<1>1. w = [h EXCEPT !.uses = uses, !.opens = opens, !.closed = closed, !.synacked = synacked, !.syns = syns,
                    !.late = late, !.reached = reached, !.bytes = bytes]
  BY DEF Witnessed, AHistory
<1>2. carried \subseteq Nat /\ carried \subseteq 0 .. N /\ end \in 0 .. N /\ u.k \in Nat BY Window DEF Segment, AUse
<1>3. /\ late \in [Sides -> SUBSET Nat] /\ reached \in [Sides -> 0 .. N] /\ bytes \in [Sides -> SUBSET (0 .. N)]
      /\ late[side] = h.late[side] \cup Behind(h.bytes[side], h.reached[side], s.from, s.n)
      /\ reached[side] = Further(h.reached[side], end)
      /\ bytes[side] = h.bytes[side] \cup carried
      /\ \A x \in Sides \ {side} : late[x] = h.late[x] /\ reached[x] = h.reached[x] /\ bytes[x] = h.bytes[x]
  BY <1>2 DEF AHistory, Further, Behind
<1>4. /\ uses \in SUBSET Nat /\ opens \in SUBSET Nat /\ closed \in SUBSET Nat /\ synacked \in SUBSET Nat
      /\ syns \in Nat
  BY <1>2 DEF AHistory
<1> HIDE DEF late, reached, bytes, uses, opens, closed, synacked, syns
<1>5. /\ w \in AHistory /\ w.uses = uses /\ w.opens = opens /\ w.closed = closed /\ w.synacked = synacked
      /\ w.syns = syns /\ w.late = late /\ w.reached = reached /\ w.bytes = bytes
  BY <1>1, <1>3, <1>4 DEF AHistory
<1> QED BY <1>3, <1>5 DEF Grown, uses, opens, closed, synacked, syns

LEMMA FreshIs ==
    /\ Fresh \in AHistory /\ Fresh.uses = {} /\ Fresh.opens = {} /\ Fresh.closed = {} /\ Fresh.synacked = {}
    /\ Fresh.syns = 0 /\ \A x \in Sides : Fresh.reached[x] = 0 /\ Fresh.bytes[x] = {} /\ Fresh.late[x] = {}
BY Window DEF Fresh, AHistory

\* n bytes from the p-th on make all of bytes, and behind of those of them that are late.
Grows(bytes, late, r, p, n, all, behind) ==
    /\ r \in 0 .. N /\ bytes \subseteq 0 .. r - 1 /\ late \subseteq bytes /\ p \in Nat /\ n \in Nat
    /\ all = bytes \cup (p .. p + n - 1)
    /\ behind = late \cup Behind(bytes, r, p, n)

Counts(bytes, late, r, p, n, all, behind) ==
    /\ Cardinality(all \ behind) = Cardinality(bytes \ late) + Past(r, p, n)
    /\ all \subseteq 0 .. Further(r, p + n) - 1 /\ behind \subseteq all
    /\ (bytes \ late) \subseteq (all \ behind)

\* What is new of the bytes, and what is late, is what advance takes them for.
LEMMA NewsGrow ==
    ASSUME NEW bytes, NEW late, NEW r, NEW p, NEW n, NEW all, NEW behind, Grows(bytes, late, r, p, n, all, behind)
    PROVE  Counts(bytes, late, r, p, n, all, behind)
<1>1. r \in Nat /\ r \in 0 .. N /\ bytes \subseteq 0 .. r - 1 /\ late \subseteq bytes /\ p \in Nat /\ n \in Nat
      /\ all = bytes \cup (p .. p + n - 1) /\ behind = late \cup Behind(bytes, r, p, n)
  BY Window DEF Grows
<1>10. behind = late \cup ({b \in p .. p + n - 1 : b < r} \ bytes) BY <1>1 DEF Behind
<1> DEFINE m == IF p > r THEN p ELSE r
           new == m .. p + n - 1
<1>2. m \in Nat /\ m >= r /\ m >= p /\ p + n - 1 \in Int BY <1>1
<1>3. new = {b \in p .. p + n - 1 : ~(b < r)} BY <1>1
<1>4. all \ behind = (bytes \ late) \cup new
  <2>1. \A b \in new : b \notin bytes BY <1>1, <1>2
  <2> HIDE DEF new
  <2> QED BY <1>1, <1>3, <1>10, <2>1
<1>5. (bytes \ late) \cap new = {} BY <1>1, <1>2
<1>6. IsFiniteSet(new) /\ Cardinality(new) = Past(r, p, n)
  <2>1. IsFiniteSet(new) /\ Cardinality(new) = IF m > p + n - 1 THEN 0 ELSE (p + n - 1) - m + 1
    <3>1. PICK q : q = p + n - 1 OBVIOUS
    <3>2. q \in Int /\ m \in Int /\ new = m .. q BY <1>1, <1>2, <3>1
    <3> HIDE DEF m, new
    <3>3. IsFiniteSet(m .. q) /\ Cardinality(m .. q) = IF m > q THEN 0 ELSE q - m + 1 BY <3>2, FS_Interval
    <3> QED BY <3>1, <3>2, <3>3
  <2> HIDE DEF new
  <2> QED BY <1>1, <2>1 DEF Past
<1>7. IsFiniteSet(bytes \ late)
  <2>1. IsFiniteSet(0 .. r - 1) BY <1>1, FS_Interval
  <2> QED BY <1>1, <2>1, FS_Subset
<1>8. Cardinality((bytes \ late) \cup new) = Cardinality(bytes \ late) + Cardinality(new)
  <2> HIDE DEF new
  <2>1. Cardinality((bytes \ late) \cap new) = 0 BY <1>5, FS_EmptySet
  <2>2. Cardinality(bytes \ late) \in Nat /\ Cardinality(new) \in Nat BY <1>6, <1>7, FS_CardinalityType
  <2>3. Cardinality((bytes \ late) \cup new)
          = Cardinality(bytes \ late) + Cardinality(new) - Cardinality((bytes \ late) \cap new)
    BY <1>6, <1>7, FS_Union
  <2> QED BY <2>1, <2>2, <2>3
<1>9. all \subseteq 0 .. Further(r, p + n) - 1 BY <1>1 DEF Further
<1> HIDE DEF new
<1> QED BY <1>1, <1>4, <1>6, <1>8, <1>9, <1>10 DEF Counts

-----------------------------------------------------------------------------
\* The hosts.

\* What a host does, by a packet with flags and n bytes that side sends: use becomes u.
Does(u, side, flags, n) ==
    \/ /\ flags = {"SYN"} /\ side = "client" /\ use.accepts = 0
       /\ u.syns = use.syns + 1 /\ u.accepts = use.accepts /\ u.acked = use.acked /\ u.fin = use.fin
       /\ u.reset = use.reset
    \/ /\ flags = {"SYN", "ACK"} /\ side = "server" /\ use.syns > 0 /\ ~use.acked
       /\ u.syns = use.syns /\ u.accepts = use.accepts + 1 /\ u.acked = use.acked /\ u.fin = use.fin
       /\ u.reset = use.reset
    \/ /\ flags = {"ACK"} /\ n = 0 /\ side = "client" /\ use.accepts > 0
       /\ u.syns = use.syns /\ u.accepts = use.accepts /\ u.acked /\ u.fin = use.fin /\ u.reset = use.reset
    \/ /\ flags = {"ACK"} /\ n > 0 /\ use.acked /\ side \notin use.fin
       /\ u.syns = use.syns /\ u.accepts = use.accepts /\ u.acked = use.acked /\ u.fin = use.fin
       /\ u.reset = use.reset
    \/ /\ flags = {"FIN", "ACK"} /\ n = 0 /\ use.acked
       /\ u.syns = use.syns /\ u.accepts = use.accepts /\ u.acked = use.acked /\ u.fin = use.fin \cup {side}
       /\ u.reset = use.reset
    \/ /\ flags = {"RST", "ACK"} /\ n = 0 /\ use.syns > 0 /\ (side = "client" => use.accepts > 0)
       /\ u.syns = use.syns /\ u.accepts = use.accepts /\ u.acked = use.acked /\ u.fin = use.fin
       /\ u.reset = {side}

\* And which bytes of its side the packet has.
Moves(u, side, flags, from, n) ==
    /\ u \in AUse /\ u.k = use.k /\ u.iss = use.iss /\ u.whole = use.whole /\ u.first = use.first
    /\ from \in 0 .. N /\ n \in 0 .. N /\ from + n <= N /\ from <= use.sent[side]
    /\ u.sent[side] = Further(use.sent[side], from + n)
    /\ \A x \in Sides \ {side} : u.sent[x] = use.sent[x]
    /\ "SYN" \in flags => from = 0 /\ n = 0
    /\ use.reset = {}
    /\ Does(u, side, flags, n)

Said(u, side, s) ==
    /\ side \in Sides /\ s \in Segment
    /\ s.src = ends[side] /\ s.dst = ends[Other(side)]
    /\ s.seq = IF "SYN" \in s.flags THEN use.iss[side] ELSE Plus(use.iss[side], 1 + s.from)
    /\ Moves(u, side, s.flags, s.from, s.n)

LEMMA MovesSaid ==
    ASSUME Types, NEW u, NEW side \in Sides, NEW flags \in SUBSET Flags, NEW from, NEW n,
           Moves(u, side, flags, from, n), Send(u, side, Packet(u, side, flags, from, n))
    PROVE  \E s : Said(u, side, s) /\ Send(u, side, s)
<1>1. PICK s : s = Packet(u, side, flags, from, n) OBVIOUS
<1>2. u \in AUse /\ u.iss = use.iss /\ from \in 0 .. N /\ n \in 0 .. N BY DEF Moves
<1>3. ends[side] \in Endpoint /\ ends[Other(side)] \in Endpoint BY DEF Types, Sides, Other
<1>4. Other(side) \in Sides BY DEF Other, Sides
<1>5. u.iss[side] \in Int /\ u.iss[Other(side)] \in Int /\ u.sent[Other(side)] \in Int
  BY <1>2, <1>4, Window DEF AUse, Seqs
<1>6. Plus(u.iss[side], 1 + from) \in Int BY <1>2, <1>5, Window DEF Plus
<1>7. Plus(u.iss[Other(side)], 1 + u.sent[Other(side)] + IF Other(side) \in u.fin THEN 1 ELSE 0) \in Int
  BY <1>5, Window DEF Plus
<1>8. /\ s \in Segment /\ s.src = ends[side] /\ s.dst = ends[Other(side)] /\ s.flags = flags
      /\ s.n = n /\ s.from = from
      /\ s.seq = IF "SYN" \in flags THEN u.iss[side] ELSE Plus(u.iss[side], 1 + from)
  BY <1>1, <1>2, <1>3, <1>5, <1>6, <1>7 DEF Packet, Segment
<1>9. Said(u, side, s) BY <1>2, <1>8 DEF Said
<1> QED BY <1>1, <1>9

\* Whatever the client and the server do is said by a packet.
LEMMA HostsSay ==
    ASSUME Types, Connect \/ Accept \/ Answer \/ \E side \in Sides : Data(side) \/ Close(side) \/ Reset(side)
    PROVE  \E u, side, s : Said(u, side, s) /\ Send(u, side, s)
<1>1. /\ "client" \in Sides /\ "server" \in Sides /\ {"SYN"} \in SUBSET Flags /\ {"SYN", "ACK"} \in SUBSET Flags
      /\ {"ACK"} \in SUBSET Flags /\ {"FIN", "ACK"} \in SUBSET Flags /\ {"RST", "ACK"} \in SUBSET Flags
      /\ "SYN" \notin {"ACK"} /\ "SYN" \notin {"FIN", "ACK"} /\ "SYN" \notin {"RST", "ACK"}
  BY DEF Sides, Flags
<1>2. use \in AUse BY DEF Types
<1>3. \A x \in Sides : /\ use.sent[x] \in 0 .. N /\ 0 <= use.sent[x] /\ 0 \in 0 .. N /\ 0 + 0 <= N
                       /\ use.sent[x] + 0 <= N
                       /\ Further(use.sent[x], 0 + 0) = use.sent[x]
                       /\ Further(use.sent[x], use.sent[x] + 0) = use.sent[x]
  BY <1>2, Window DEF AUse, Further
<1>4. CASE Connect
  <2>1. PICK u : u = [use EXCEPT !.syns = @ + 1] /\ Send(u, "client", Packet(u, "client", {"SYN"}, 0, 0))
    BY <1>4 DEF Connect
  <2>2. /\ u \in AUse /\ u.k = use.k /\ u.iss = use.iss /\ u.whole = use.whole /\ u.first = use.first
        /\ u.sent = use.sent /\ u.syns = use.syns + 1 /\ u.accepts = use.accepts /\ u.acked = use.acked
        /\ u.fin = use.fin /\ u.reset = use.reset
    BY <1>2, <2>1 DEF AUse
  <2>3. Does(u, "client", {"SYN"}, 0) BY <1>4, <2>2 DEF Does, Connect
  <2>4. Moves(u, "client", {"SYN"}, 0, 0) BY <1>1, <1>3, <1>4, <2>2, <2>3 DEF Moves, Connect
  <2> QED BY <1>1, <2>1, <2>4, MovesSaid
<1>5. CASE Accept
  <2>1. PICK u : u = [use EXCEPT !.accepts = @ + 1] /\ Send(u, "server", Packet(u, "server", {"SYN", "ACK"}, 0, 0))
    BY <1>5 DEF Accept
  <2>2. /\ u \in AUse /\ u.k = use.k /\ u.iss = use.iss /\ u.whole = use.whole /\ u.first = use.first
        /\ u.sent = use.sent /\ u.syns = use.syns /\ u.accepts = use.accepts + 1 /\ u.acked = use.acked
        /\ u.fin = use.fin /\ u.reset = use.reset
    BY <1>2, <2>1 DEF AUse
  <2>3. Does(u, "server", {"SYN", "ACK"}, 0) BY <1>5, <2>2 DEF Does, Accept
  <2>4. Moves(u, "server", {"SYN", "ACK"}, 0, 0) BY <1>1, <1>3, <1>5, <2>2, <2>3 DEF Moves, Accept
  <2> QED BY <1>1, <2>1, <2>4, MovesSaid
<1>6. CASE Answer
  <2>1. PICK u : /\ u = [use EXCEPT !.acked = TRUE]
                 /\ Send(u, "client", Packet(u, "client", {"ACK"}, use.sent["client"], 0))
    BY <1>6 DEF Answer
  <2>2. /\ u \in AUse /\ u.k = use.k /\ u.iss = use.iss /\ u.whole = use.whole /\ u.first = use.first
        /\ u.sent = use.sent /\ u.syns = use.syns /\ u.accepts = use.accepts /\ u.acked
        /\ u.fin = use.fin /\ u.reset = use.reset
    BY <1>2, <2>1 DEF AUse
  <2>3. Does(u, "client", {"ACK"}, 0) BY <1>6, <2>2 DEF Does, Answer
  <2>4. Moves(u, "client", {"ACK"}, use.sent["client"], 0) BY <1>1, <1>3, <1>6, <2>2, <2>3 DEF Moves, Answer
  <2> QED BY <1>1, <2>1, <2>4, MovesSaid
<1>7. ASSUME NEW side \in Sides, Data(side) PROVE \E u, s : Said(u, side, s) /\ Send(u, side, s)
  <2>1. PICK from \in 0 .. use.sent[side] : \E n \in 1 .. N : \E u :
              /\ from + n <= N /\ u = [use EXCEPT !.sent[side] = IF from + n > @ THEN from + n ELSE @]
              /\ Send(u, side, Packet(u, side, {"ACK"}, from, n))
    BY <1>7 DEF Data
  <2>2. PICK n \in 1 .. N : \E u :
              /\ from + n <= N /\ u = [use EXCEPT !.sent[side] = IF from + n > @ THEN from + n ELSE @]
              /\ Send(u, side, Packet(u, side, {"ACK"}, from, n))
    BY <2>1
  <2>3. PICK u : /\ from + n <= N /\ u = [use EXCEPT !.sent[side] = IF from + n > @ THEN from + n ELSE @]
                 /\ Send(u, side, Packet(u, side, {"ACK"}, from, n))
    BY <2>2
  <2>4. from \in 0 .. N /\ n \in 0 .. N /\ from + n \in 0 .. N /\ from <= use.sent[side] BY <1>3, <2>3, Window
  <2>5. /\ u \in AUse /\ u.k = use.k /\ u.iss = use.iss /\ u.whole = use.whole /\ u.first = use.first
        /\ u.syns = use.syns /\ u.accepts = use.accepts /\ u.acked = use.acked
        /\ u.fin = use.fin /\ u.reset = use.reset
    BY <1>2, <2>3, <2>4 DEF AUse
  <2>6. u.sent[side] = Further(use.sent[side], from + n) /\ \A x \in Sides \ {side} : u.sent[x] = use.sent[x]
    BY <1>2, <2>3 DEF AUse, Further
  <2>7. Does(u, side, {"ACK"}, n) BY <1>7, <2>5 DEF Does, Data, Established
  <2>8. Moves(u, side, {"ACK"}, from, n) BY <1>1, <1>7, <2>3, <2>4, <2>5, <2>6, <2>7 DEF Moves, Data, Established
  <2> QED BY <1>1, <2>3, <2>8, MovesSaid
<1>8. ASSUME NEW side \in Sides, Close(side) PROVE \E u, s : Said(u, side, s) /\ Send(u, side, s)
  <2>1. PICK u : /\ u = [use EXCEPT !.fin = @ \cup {side}]
                 /\ Send(u, side, Packet(u, side, {"FIN", "ACK"}, use.sent[side], 0))
    BY <1>8 DEF Close
  <2>2. /\ u \in AUse /\ u.k = use.k /\ u.iss = use.iss /\ u.whole = use.whole /\ u.first = use.first
        /\ u.sent = use.sent /\ u.syns = use.syns /\ u.accepts = use.accepts /\ u.acked = use.acked
        /\ u.fin = use.fin \cup {side} /\ u.reset = use.reset
    BY <1>2, <2>1 DEF AUse
  <2>3. Does(u, side, {"FIN", "ACK"}, 0) BY <1>8, <2>2 DEF Does, Close, Established
  <2>4. Moves(u, side, {"FIN", "ACK"}, use.sent[side], 0)
    BY <1>1, <1>3, <1>8, <2>2, <2>3 DEF Moves, Close, Established
  <2> QED BY <1>1, <2>1, <2>4, MovesSaid
<1>9. ASSUME NEW side \in Sides, Reset(side) PROVE \E u, s : Said(u, side, s) /\ Send(u, side, s)
  <2>1. PICK u : /\ u = [use EXCEPT !.reset = {side}]
                 /\ Send(u, side, Packet(u, side, {"RST", "ACK"}, use.sent[side], 0))
    BY <1>9 DEF Reset
  <2>2. /\ u \in AUse /\ u.k = use.k /\ u.iss = use.iss /\ u.whole = use.whole /\ u.first = use.first
        /\ u.sent = use.sent /\ u.syns = use.syns /\ u.accepts = use.accepts /\ u.acked = use.acked
        /\ u.fin = use.fin /\ u.reset = {side}
    BY <1>2, <2>1 DEF AUse
  <2>3. Does(u, side, {"RST", "ACK"}, 0) BY <1>9, <2>2 DEF Does, Reset
  <2>4. Moves(u, side, {"RST", "ACK"}, use.sent[side], 0) BY <1>1, <1>3, <1>9, <2>2, <2>3 DEF Moves, Reset
  <2> QED BY <1>1, <2>1, <2>4, MovesSaid
<1> QED BY <1>4, <1>5, <1>6, <1>7, <1>8, <1>9

-----------------------------------------------------------------------------
\* What the ledger does with a packet.

\* The conn that s is put in, as it stands before s, with what was captured of it: the last, or a new one.
Takes(c, h, i, s) ==
    \/ /\ i = Len(conns) + 1 /\ c = NewConn(s) /\ h = Fresh
       /\ conns # <<>> => IsSyn(s) /\ (conns[Len(conns)].fin \/ conns[Len(conns)].rst)
    \/ /\ i = Len(conns) /\ conns # <<>> /\ h = seen[i]
       /\ \E a \in 0 .. CopyGap : c = [conns[i] EXCEPT !.age = a]
       /\ ~(IsSyn(s) /\ (conns[i].fin \/ conns[i].rst))

\* The conn becomes t and what was captured of it w.
Puts(t, w, i) ==
    /\ conns' \in Seq(AConn) /\ seen' \in Seq(AHistory) /\ Len(conns') = i /\ Len(seen') = i
    /\ conns'[i] = t /\ seen'[i] = w
    /\ \A j \in 1 .. i - 1 : conns'[j] = conns[j] /\ seen'[j] = seen[j]
    /\ open' = [p \in {Pair} |-> i]

LEMMA OnePair == ASSUME NEW p, NEW i PROVE [q \in {p} |-> i] # <<>> /\ [q \in {p} |-> i][p] = i
<1>1. p \in DOMAIN [q \in {p} |-> i] OBVIOUS
<1>2. DOMAIN <<>> = {} OBVIOUS
<1> QED BY <1>1, <1>2

\* The last conn is the present one.
LEMMA PresentIs ==
    ASSUME Types
    PROVE  /\ open = <<>> <=> conns = <<>>
           /\ conns # <<>> => /\ Len(conns) \in DOMAIN conns /\ Len(seen) = Len(conns) /\ DOMAIN open = {Pair}
                              /\ open[Pair] = Len(conns) /\ Present = Len(conns)
                              /\ conns[Len(conns)] \in AConn /\ seen[Len(conns)] \in AHistory
           /\ conns = <<>> => Len(conns) = 0 /\ DOMAIN open = {} /\ seen = <<>>
<1>1. conns \in Seq(AConn) /\ seen \in Seq(AHistory) /\ Len(conns) = Len(seen) BY DEF Types
<1>2. CASE conns = <<>>
  <2>1. open = <<>> /\ Len(conns) = 0 BY <1>2 DEF Types, Placed
  <2>2. DOMAIN open = {} BY <2>1
  <2>3. seen = <<>> BY <1>1, <2>1, EmptySeq
  <2> QED BY <1>2, <2>1, <2>2, <2>3
<1>3. CASE conns # <<>>
  <2>1. open = [p \in {Pair} |-> Len(conns)] BY <1>3 DEF Types, Placed
  <2>2. open # <<>> /\ open[Pair] = Len(conns) /\ DOMAIN open = {Pair} BY <2>1, OnePair
  <2>3. Len(conns) \in DOMAIN conns BY <1>1, <1>3
  <2>4. conns[Len(conns)] \in AConn /\ seen[Len(conns)] \in AHistory BY <1>1, <2>3
  <2>5. Present = Len(conns) BY <2>2 DEF Present, Pair
  <2> QED BY <1>1, <1>3, <2>2, <2>3, <2>4, <2>5
<1> QED BY <1>2, <1>3

\* A packet between the two, of a length of time after the conn's last.
LEMMA ReadIs ==
    ASSUME Types, NEW s, NEW dt \in Nat, PairOf(s.src, s.dst) = Pair, Read(s, dt)
    PROVE  \E c, i, t :
             /\ Takes(c, IF i = Len(conns) + 1 THEN Fresh ELSE seen[i], i, s)
             /\ i = Len(conns) => conns # <<>> /\ c = Aged(conns[i], dt)
             /\ t = IF Copied(c, s) THEN c ELSE Tallied(c, s)
             /\ conns' = IF i = Len(conns) + 1 THEN Append(conns, t) ELSE [conns EXCEPT ![i] = t]
             /\ open' = [p \in {Pair} |-> i]
             /\ i \in {Len(conns), Len(conns) + 1}
<1>1. Len(conns) \in Nat BY DEF Types
<1>2. CASE Begins(Pair, s)
  <2> DEFINE c == NewConn(s)
             i == Len(conns) + 1
             t == IF Copied(c, s) THEN c ELSE Tallied(c, s)
  <2>1. conns' = (IF i > Len(conns) THEN Append(conns, t) ELSE [conns EXCEPT ![i] = t])
    BY <1>2 DEF Read
  <2>2. open' = [p \in DOMAIN open \cup {Pair} |-> IF p = Pair THEN i ELSE open[p]] BY <1>2 DEF Read
  <2>3. DOMAIN open \cup {Pair} = {Pair} BY PresentIs
  <2>4. open' = [p \in {Pair} |-> i] BY <2>2, <2>3
  <2>5. conns' = Append(conns, t) BY <1>1, <2>1
  <2>6. conns # <<>> => IsSyn(s) /\ (conns[Len(conns)].fin \/ conns[Len(conns)].rst)
    BY <1>2, PresentIs DEF Begins
  <2>7. Takes(c, Fresh, i, s) BY <2>6 DEF Takes
  <2>8. i # Len(conns) BY <1>1
  <2> QED BY <2>4, <2>5, <2>7, <2>8
<1>3. CASE ~Begins(Pair, s)
  <2>1. conns # <<>> BY <1>3, PresentIs DEF Begins
  <2> DEFINE i == Len(conns)
             c == Aged(conns[i], dt)
             t == IF Copied(c, s) THEN c ELSE Tallied(c, s)
  <2>2. open[Pair] = i /\ DOMAIN open = {Pair} BY <2>1, PresentIs
  <2>3. conns' = (IF i > Len(conns) THEN Append(conns, t) ELSE [conns EXCEPT ![i] = t])
    BY <1>3, <2>2 DEF Read
  <2>4. open' = [p \in DOMAIN open \cup {Pair} |-> IF p = Pair THEN i ELSE open[p]] BY <1>3, <2>2 DEF Read
  <2>5. open' = [p \in {Pair} |-> i] BY <2>2, <2>4
  <2>6. conns' = [conns EXCEPT ![i] = t] BY <1>1, <2>3
  <2>7. ~(IsSyn(s) /\ (conns[i].fin \/ conns[i].rst)) BY <1>3, <2>2 DEF Begins
  <2> HIDE DEF c
  <2>11. conns[i] \in AConn /\ c = Aged(conns[i], dt) BY <2>1, PresentIs DEF c
  <2>8. \E a \in 0 .. CopyGap : c = [conns[i] EXCEPT !.age = a] 
    <3>1. PICK f \in AConn : f = conns[i] BY <2>11
    <3>3. c = Aged(f, dt) /\ dt \in Nat BY <2>11, <3>1
    <3>2. \E a \in 0 .. CopyGap : c = [f EXCEPT !.age = a] BY <3>3, AgedIs, Zenon
    <3> QED BY <3>1, <3>2
  <2>9. Takes(c, seen[i], i, s) BY <2>1, <2>7, <2>8 DEF Takes
  <2>10. i # Len(conns) + 1 BY <1>1
  <2> QED BY <2>1, <2>5, <2>6, <2>9, <2>10, <2>11
<1> QED BY <1>2, <1>3

\* What is captured of a packet that a host sends.
Hears(u, s) ==
    use' = [u EXCEPT !.first = IF @ # "none" THEN @ ELSE IF IsSyn(s) THEN "SYN" ELSE "other", !.packets = @ + 1]

\* What was captured of a conn and the conn have their types.
LEMMA TakesTypes ==
    ASSUME Types, NEW s \in Segment, NEW c, NEW h, NEW i, Takes(c, h, i, s)
    PROVE  /\ c \in AConn /\ h \in AHistory /\ i \in Nat \ {0} /\ i - 1 \in {Len(conns), Len(conns) - 1}
           /\ i = Len(conns) + 1 \/ i = Len(conns)
<1>1. Len(conns) \in Nat /\ (conns # <<>> => Len(conns) # 0) BY PresentIs DEF Types
<1>2. CASE i = Len(conns) + 1 /\ c = NewConn(s) /\ h = Fresh
  BY <1>1, <1>2, NewConnIs, FreshIs
<1>3. CASE i = Len(conns) /\ conns # <<>> /\ h = seen[i] /\ \E a \in 0 .. CopyGap : c = [conns[i] EXCEPT !.age = a]
  <2>1. PICK a \in 0 .. CopyGap : c = [conns[i] EXCEPT !.age = a] BY <1>3
  <2>2. conns[i] \in AConn /\ h \in AHistory BY <1>3, PresentIs
  <2>3. c \in AConn BY <2>1, <2>2 DEF AConn
  <2> QED BY <1>1, <1>3, <2>2, <2>3
<1> QED BY <1>2, <1>3 DEF Takes

LEMMA HeardIs ==
    ASSUME Types, NEW u, NEW side, NEW s, Said(u, side, s), Send(u, side, s)
    PROVE  \/ /\ use' = [u EXCEPT !.whole = FALSE, !.packets = @ + 1]
              /\ UNCHANGED <<ends, open, conns, marks, seen>>
           \/ /\ UNCHANGED <<ends, marks>> /\ Hears(u, s)
              /\ \E c, h, i : Takes(c, h, i, s) /\ Puts(Tallied(c, s), Witnessed(h, u, side, s), i)
<1>1. /\ side \in Sides /\ s \in Segment /\ s.src = ends[side] /\ s.dst = ends[Other(side)] /\ u \in AUse
      /\ s.from + s.n <= N
  BY DEF Said, Moves
<1>2. PairOf(s.src, s.dst) = Pair BY <1>1, PairSame DEF Types, Pair, Sides, Other
<1>3. SUFFICES ASSUME NEW dt \in 0 .. CopyGap, UNCHANGED <<ends, marks>>, Hears(u, s), Read(s, dt),
                      open # <<>> /\ conns[Present].last = HeaderOf(s) => conns[Present].age + dt >= CopyGap,
                      seen' = IF Len(conns') > Len(seen)
                              THEN Append(seen, Witnessed(Fresh, u, side, s))
                              ELSE [seen EXCEPT ![Present'] = Witnessed(@, u, side, s)]
               PROVE  \E c, h, i : Takes(c, h, i, s) /\ Puts(Tallied(c, s), Witnessed(h, u, side, s), i)
  BY DEF Send, Hears
<1>4. dt \in Nat BY Window
<1>5. PICK c, i, t :
             /\ Takes(c, IF i = Len(conns) + 1 THEN Fresh ELSE seen[i], i, s)
             /\ i = Len(conns) => conns # <<>> /\ c = Aged(conns[i], dt)
             /\ t = IF Copied(c, s) THEN c ELSE Tallied(c, s)
             /\ conns' = IF i = Len(conns) + 1 THEN Append(conns, t) ELSE [conns EXCEPT ![i] = t]
             /\ open' = [p \in {Pair} |-> i]
             /\ i \in {Len(conns), Len(conns) + 1}
  BY <1>2, <1>3, <1>4, ReadIs
<1> DEFINE h == IF i = Len(conns) + 1 THEN Fresh ELSE seen[i]
           w == Witnessed(h, u, side, s)
<1>6. Takes(c, h, i, s) BY <1>5
<1>7. c \in AConn /\ h \in AHistory /\ i \in Nat \ {0} BY <1>1, <1>6, TakesTypes
<1>8. Len(conns) \in Nat /\ Len(seen) = Len(conns) /\ conns \in Seq(AConn) /\ seen \in Seq(AHistory) BY DEF Types
<1>9. ~Copied(c, s)
  <2>1. CASE i = Len(conns)
    <3>1. conns # <<>> /\ open # <<>> /\ Present = i /\ conns[i] \in AConn BY <1>5, <2>1, PresentIs
    <3>2. c = Aged(conns[i], dt) /\ c.age = (IF conns[i].age + dt < CopyGap THEN conns[i].age + dt ELSE CopyGap)
      BY <1>4, <1>5, <2>1, <3>1, AgedIs
    <3>3. c.last = conns[i].last BY <1>4, <3>1, <3>2, AgedIs DEF AConn
    <3>4. conns[i].last = HeaderOf(s) => conns[i].age + dt >= CopyGap BY <1>3, <3>1
    <3>5. conns[i].age + dt \in Int BY <1>4, <3>1, Window DEF AConn
    <3> QED BY <3>2, <3>3, <3>4, <3>5, Window DEF Copied
  <2>2. CASE i = Len(conns) + 1
    <3>1. c = NewConn(s) BY <1>6, <1>8, <2>2 DEF Takes
    <3>2. c.age = CopyGap BY <1>1, <3>1, NewConnIs
    <3> QED BY <3>2, Window DEF Copied
  <2> QED BY <1>5, <2>1, <2>2
<1>10. t = Tallied(c, s) /\ t \in AConn BY <1>1, <1>5, <1>7, <1>9, TalliedIs
<1>11. w \in AHistory BY <1>1, <1>7, WitnessedIs DEF Grown
<1>12. Present' = i
  <2>1. Present' = open'[PairOf(ends'.client, ends'.server)] BY DEF Present
  <2>2. ends' = ends BY <1>3
  <2>3. Present' = open'[Pair] BY <2>1, <2>2 DEF Pair
  <2> QED BY <1>5, <2>3
<1>13. CASE i = Len(conns) + 1
  <2>1. conns' = Append(conns, t) /\ Len(conns') = i BY <1>5, <1>8, <1>13
  <2>2. seen' = Append(seen, w) BY <1>3, <1>8, <1>13, <2>1
  <2>3. /\ conns' \in Seq(AConn) /\ conns'[i] = t /\ \A j \in 1 .. i - 1 : conns'[j] = conns[j]
    BY <1>8, <1>10, <1>13, <2>1
  <2>4. /\ seen' \in Seq(AHistory) /\ Len(seen') = i /\ seen'[i] = w /\ \A j \in 1 .. i - 1 : seen'[j] = seen[j]
    BY <1>8, <1>11, <1>13, <2>2
  <2>5. Puts(t, w, i) BY <1>5, <2>1, <2>3, <2>4 DEF Puts
  <2> QED BY <1>6, <1>10, <2>5
<1>14. CASE i = Len(conns)
  <2>1. i # Len(conns) + 1 /\ i \in DOMAIN conns /\ i \in DOMAIN seen BY <1>7, <1>8, <1>14
  <2>2. conns' = [conns EXCEPT ![i] = t] /\ Len(conns') = i BY <1>5, <1>8, <1>14, <2>1
  <2>3. seen' = [seen EXCEPT ![i] = Witnessed(@, u, side, s)] BY <1>3, <1>8, <1>12, <1>14, <2>2
  <2>4. h = seen[i] BY <2>1
  <2> HIDE DEF h
  <2>5. seen' = [seen EXCEPT ![i] = w] BY <2>1, <2>3, <2>4
  <2> HIDE DEF w
  <2>6. /\ conns' \in Seq(AConn) /\ conns'[i] = t /\ \A j \in 1 .. i - 1 : conns'[j] = conns[j]
    BY <1>8, <1>10, <1>14, <2>1, <2>2
  <2>7. /\ seen' \in Seq(AHistory) /\ Len(seen') = i /\ seen'[i] = w /\ \A j \in 1 .. i - 1 : seen'[j] = seen[j]
    BY <1>8, <1>11, <1>14, <2>1, <2>5
  <2>8. Puts(t, w, i) BY <1>5, <2>2, <2>6, <2>7 DEF Puts
  <2> QED BY <1>6, <1>10, <2>8 DEF w
<1> QED BY <1>5, <1>13, <1>14

-----------------------------------------------------------------------------
\* A packet, and the conn it is put in.

LEMMA FlagsAre ==
    ASSUME NEW s
    PROVE  /\ s.flags = {"SYN"} => /\ IsSyn(s) /\ ~IsSynAck(s) /\ "SYN" \in s.flags /\ "ACK" \notin s.flags
                                   /\ "FIN" \notin s.flags /\ "RST" \notin s.flags
                                   /\ s.flags \cap {"FIN", "RST"} = {}
           /\ s.flags = {"SYN", "ACK"} => /\ ~IsSyn(s) /\ IsSynAck(s) /\ "SYN" \in s.flags /\ "ACK" \in s.flags
                                          /\ "FIN" \notin s.flags /\ "RST" \notin s.flags
                                          /\ s.flags \cap {"FIN", "RST"} = {}
           /\ s.flags = {"ACK"} => /\ ~IsSyn(s) /\ ~IsSynAck(s) /\ "SYN" \notin s.flags /\ "ACK" \in s.flags
                                   /\ "FIN" \notin s.flags /\ "RST" \notin s.flags
                                   /\ s.flags \cap {"FIN", "RST"} = {}
           /\ s.flags = {"FIN", "ACK"} => /\ ~IsSyn(s) /\ ~IsSynAck(s) /\ "SYN" \notin s.flags /\ "ACK" \in s.flags
                                          /\ "FIN" \in s.flags /\ "RST" \notin s.flags
                                          /\ s.flags \cap {"FIN", "RST"} # {}
           /\ s.flags = {"RST", "ACK"} => /\ ~IsSyn(s) /\ ~IsSynAck(s) /\ "SYN" \notin s.flags /\ "ACK" \in s.flags
                                          /\ "FIN" \notin s.flags /\ "RST" \in s.flags
                                          /\ s.flags \cap {"FIN", "RST"} # {}
BY DEF IsSyn, IsSynAck

\* Who sends what, and when.
LEMMA SaidWhen ==
    ASSUME NEW u, NEW side, NEW s, Said(u, side, s)
    PROVE  /\ IsSyn(s) => side = "client" /\ use.accepts = 0 /\ s.flags \cap {"FIN", "RST"} = {}
           /\ "SYN" \in s.flags => s.from = 0 /\ s.n = 0
           /\ "SYN" \in s.flags /\ side = "client" => IsSyn(s)
           /\ IsSynAck(s) => side = "server" /\ "SYN" \in s.flags
           /\ "SYN" \in s.flags /\ side = "server" => ~use.acked
           /\ s.n > 0 => /\ "ACK" \in s.flags /\ "SYN" \notin s.flags /\ use.acked /\ side \notin use.fin
                         /\ s.flags \cap {"FIN", "RST"} = {}
           /\ side = "server" /\ s.n = 0 /\ s.from # 0 => "server" \in u.fin \/ u.reset # {}
           /\ use.syns = 0 => IsSyn(s) \/ use.accepts > 0 \/ use.acked
           /\ use.reset = {} /\ use.fin \subseteq u.fin
           /\ s.flags \cap {"FIN", "RST"} # {} => use.acked \/ u.reset # {}
<1>1. /\ side \in Sides /\ Does(u, side, s.flags, s.n) /\ use.reset = {} /\ s.n \in Nat /\ s.from \in Nat
      /\ ("SYN" \in s.flags => s.from = 0 /\ s.n = 0)
  BY Window DEF Said, Moves
<1>2. "client" # "server" /\ (side = "client" \/ side = "server") BY <1>1 DEF Sides
<1>3. CASE s.flags = {"SYN"}
  <2>1. /\ IsSyn(s) /\ ~IsSynAck(s) /\ "SYN" \in s.flags /\ "ACK" \notin s.flags
        /\ s.flags \cap {"FIN", "RST"} = {}
    BY <1>3, FlagsAre
  <2>2. side = "client" /\ use.accepts = 0 /\ u.fin = use.fin BY <1>1, <2>1 DEF Does
  <2> QED BY <1>1, <1>2, <2>1, <2>2
<1>4. CASE s.flags = {"SYN", "ACK"}
  <2>1. /\ ~IsSyn(s) /\ IsSynAck(s) /\ "SYN" \in s.flags /\ "ACK" \in s.flags /\ "FIN" \notin s.flags
        /\ "RST" \notin s.flags /\ s.flags \cap {"FIN", "RST"} = {}
    BY <1>4, FlagsAre
  <2>2. side = "server" /\ use.syns > 0 /\ ~use.acked /\ u.fin = use.fin BY <1>1, <2>1 DEF Does
  <2>3. ~(use.syns = 0) BY <2>2
  <2> QED BY <1>1, <1>2, <2>1, <2>2, <2>3
<1>5. CASE s.flags = {"ACK"}
  <2>1. /\ ~IsSyn(s) /\ ~IsSynAck(s) /\ "SYN" \notin s.flags /\ "ACK" \in s.flags
        /\ "FIN" \notin s.flags /\ "RST" \notin s.flags /\ s.flags \cap {"FIN", "RST"} = {}
    BY <1>5, FlagsAre
  <2>2. \/ s.n = 0 /\ side = "client" /\ use.accepts > 0 /\ u.fin = use.fin
        \/ s.n > 0 /\ use.acked /\ side \notin use.fin /\ u.fin = use.fin
    BY <1>1, <2>1 DEF Does
  <2> QED BY <1>1, <1>2, <2>1, <2>2
<1>6. CASE s.flags = {"FIN", "ACK"}
  <2>1. /\ ~IsSyn(s) /\ ~IsSynAck(s) /\ "SYN" \notin s.flags /\ "ACK" \in s.flags /\ "FIN" \in s.flags
        /\ "RST" \notin s.flags /\ s.flags \cap {"FIN", "RST"} # {}
    BY <1>6, FlagsAre
  <2>2. s.n = 0 /\ use.acked /\ u.fin = use.fin \cup {side} BY <1>1, <2>1 DEF Does
  <2> QED BY <1>1, <1>2, <2>1, <2>2
<1>7. CASE s.flags = {"RST", "ACK"}
  <2>1. /\ ~IsSyn(s) /\ ~IsSynAck(s) /\ "SYN" \notin s.flags /\ "ACK" \in s.flags /\ "FIN" \notin s.flags
        /\ "RST" \in s.flags /\ s.flags \cap {"FIN", "RST"} # {}
    BY <1>7, FlagsAre
  <2>2. s.n = 0 /\ use.syns > 0 /\ u.fin = use.fin /\ u.reset = {side} BY <1>1, <2>1 DEF Does
  <2>3. ~(use.syns = 0) /\ u.reset # {} BY <2>2
  <2> QED BY <1>1, <1>2, <2>1, <2>2, <2>3
<1> QED BY <1>1, <1>3, <1>4, <1>5, <1>6, <1>7 DEF Does

\* A conn, and what was captured of it, before s is put in it.
Before(c, h, s) ==
    /\ c \in AConn /\ h \in AHistory
    /\ {c.client, c.server} = {ends.client, ends.server}
    /\ h.opens \subseteq h.uses /\ h.closed \subseteq h.uses
    /\ (c.fin \/ c.rst) <=> h.closed # {}
    /\ IsSyn(s) => ~c.fin /\ ~c.rst
    /\ Right(c, h) => Counted(c, h)
    /\ Right(c, h) /\ h.uses \subseteq {use.k} => Follows(c, h, use)
    /\ use.whole /\ h.uses \subseteq {use.k} => Complete(c, h, use)

LEMMA AgeIsNothing ==
    ASSUME NEW d \in AConn, NEW a, NEW c, c = [d EXCEPT !.age = a], NEW h, NEW u
    PROVE  /\ c.client = d.client /\ c.server = d.server /\ c.fin = d.fin /\ c.rst = d.rst /\ c.last = d.last
           /\ Right(c, h) <=> Right(d, h)
           /\ Counted(c, h) <=> Counted(d, h)
           /\ Follows(c, h, u) <=> Follows(d, h, u)
           /\ Complete(c, h, u) <=> Complete(d, h, u)
<1>1. /\ c.client = d.client /\ c.server = d.server /\ c.fin = d.fin /\ c.rst = d.rst /\ c.last = d.last
      /\ c.syn = d.syn /\ c.synack = d.synack /\ c.acked = d.acked /\ c.refused = d.refused
      /\ c.sent = d.sent /\ c.received = d.received /\ c.sentEdge = d.sentEdge /\ c.recvEdge = d.recvEdge
  BY DEF AConn
<1>2. \A x : TallyOf(c, x) = TallyOf(d, x) /\ EdgeOf(c, x) = EdgeOf(d, x) BY <1>1 DEF TallyOf, EdgeOf
<1>3. Right(c, h) <=> Right(d, h) BY <1>1 DEF Right
<1>4. Counted(c, h) <=> Counted(d, h) BY <1>1, <1>2 DEF Counted
<1>5. Follows(c, h, u) <=> Follows(d, h, u) BY <1>2 DEF Follows
<1>6. Complete(c, h, u) <=> Complete(d, h, u) BY <1>1 DEF Complete
<1> QED BY <1>1, <1>3, <1>4, <1>5, <1>6

\* A connection whose SYN was captured stays in one conn.
LEMMA NoneBegun ==
    ASSUME IInv, NEW u, NEW side, NEW s, Said(u, side, s), NEW c, NEW h, NEW i, Takes(c, h, i, s),
           use.first = "SYN"
    PROVE  i = Len(conns) /\ conns # <<>> /\ h = seen[i]
<1>1. Types /\ Parted BY DEF IInv
<1>2. Len(conns) = Len(seen) BY <1>1 DEF Types
<1>3. seen # <<>> /\ (seen[Len(seen)].closed # {} => use.accepts > 0 \/ use.reset # {}) BY <1>1 DEF Parted
<1>4. conns # <<>> BY <1>1, <1>3, PresentIs
<1>5. Len(conns) \in DOMAIN conns BY <1>1, <1>4, PresentIs
<1>6. Told(conns[Len(conns)], seen[Len(seen)]) BY <1>2, <1>5 DEF IInv
<1>7. ASSUME IsSyn(s), conns[Len(conns)].fin \/ conns[Len(conns)].rst PROVE FALSE
  <2>1. use.accepts > 0 \/ use.reset # {} BY <1>3, <1>6, <1>7 DEF Told
  <2>2. use.accepts = 0 /\ use.reset = {} BY <1>7, SaidWhen
  <2> QED BY <2>1, <2>2
<1> QED BY <1>4, <1>7 DEF Takes

LEMMA BeforeIs ==
    ASSUME IInv, NEW u, NEW side, NEW s, Said(u, side, s), NEW c, NEW h, NEW i, Takes(c, h, i, s)
    PROVE  Before(c, h, s)
<1>1. /\ side \in Sides /\ s \in Segment /\ s.src = ends[side] /\ s.dst = ends[Other(side)] BY DEF Said
<1>2. Types /\ InOrder(use) /\ Parted BY DEF IInv
<1>3. use \in AUse /\ Len(conns) = Len(seen) BY <1>2 DEF Types
<1>4. CASE i = Len(conns) /\ conns # <<>> /\ h = seen[i] /\ (\E a \in 0 .. CopyGap : c = [conns[i] EXCEPT !.age = a])
           /\ ~(IsSyn(s) /\ (conns[i].fin \/ conns[i].rst))
  <2>1. PICK a \in 0 .. CopyGap : c = [conns[i] EXCEPT !.age = a] BY <1>4
  <2>2. PICK d : d = conns[i] OBVIOUS
  <2>3. d \in AConn /\ h \in AHistory /\ i \in DOMAIN conns BY <1>2, <1>4, <2>2, PresentIs
  <2>4. Told(d, h) /\ Live(d, h, use) BY <1>3, <1>4, <2>2, <2>3 DEF IInv
  <2>5. c = [d EXCEPT !.age = a] BY <2>1, <2>2
  <2>6. c \in AConn BY <2>3, <2>5 DEF AConn
  <2>7. h.uses # {} BY <2>4 DEF Told
  <2>8. Right(d, h) /\ h.uses \subseteq {use.k} => Follows(d, h, use) BY <2>4, <2>7 DEF Live
  <2>9. use.whole /\ h.uses \subseteq {use.k} => Complete(d, h, use) BY <2>4, <2>7 DEF Live
  <2>10. /\ {d.client, d.server} = {ends.client, ends.server} /\ h.opens \subseteq h.uses /\ h.closed \subseteq h.uses
         /\ ((d.fin \/ d.rst) <=> h.closed # {}) /\ (Right(d, h) => Counted(d, h)) /\ (IsSyn(s) => ~d.fin /\ ~d.rst)
    BY <1>4, <2>2, <2>4 DEF Told
  <2>11. /\ c.client = d.client /\ c.server = d.server /\ c.fin = d.fin /\ c.rst = d.rst
         /\ Right(c, h) <=> Right(d, h)
         /\ Counted(c, h) <=> Counted(d, h)
         /\ Follows(c, h, use) <=> Follows(d, h, use)
         /\ Complete(c, h, use) <=> Complete(d, h, use)
    BY <2>3, <2>5, AgeIsNothing
  <2> QED BY <2>3, <2>6, <2>8, <2>9, <2>10, <2>11 DEF Before
<1>5. CASE i = Len(conns) + 1 /\ c = NewConn(s) /\ h = Fresh
           /\ (conns # <<>> => IsSyn(s) /\ (conns[Len(conns)].fin \/ conns[Len(conns)].rst))
  <2>1. /\ c \in AConn /\ c.client = ClientBy(s) /\ c.server = (IF c.client = s.src THEN s.dst ELSE s.src)
        /\ c.syn = 0 /\ c.synack = 0 /\ ~c.fin /\ ~c.rst /\ ~c.acked /\ ~c.refused
        /\ c.sent = 0 /\ c.received = 0 /\ c.sentEdge = Unseen /\ c.recvEdge = Unseen
    BY <1>1, <1>5, NewConnIs
  <2>2. /\ h \in AHistory /\ h.uses = {} /\ h.opens = {} /\ h.closed = {} /\ h.synacked = {}
        /\ h.syns = 0 /\ \A x \in Sides : h.reached[x] = 0 /\ h.bytes[x] = {} /\ h.late[x] = {}
    BY <1>5, FreshIs
  <2>3. {c.client, c.server} = {ends.client, ends.server}
    BY <1>1, <2>1 DEF ClientBy, Sides, Other
  <2>4. "client" \in Sides /\ "server" \in Sides /\ Cardinality({}) = 0 BY FS_EmptySet DEF Sides
  <2>5. Counted(c, h)
    <3>1. \A x \in Sides : TallyOf(c, x) = Cardinality(News(h, x)) BY <2>1, <2>2, <2>4 DEF TallyOf, News
    <3> QED BY <2>1, <2>2, <2>4, <3>1 DEF Counted
  <2>6. \A x \in Sides : use.sent[x] \in Nat BY <1>3, Window DEF AUse
  <2>7. Follows(c, h, use)
    <3>1. ~Unseen.seen BY DEF Unseen
    <3>2. \A x \in Sides : At(EdgeOf(c, x), use.iss[x], h.reached[x])
      BY <2>1, <2>2, <3>1 DEF EdgeOf, At
    <3> QED BY <2>2, <2>4, <2>6, <3>2 DEF Follows
  <2>8. ASSUME use.whole PROVE Complete(c, h, use)
    <3>1. use.first # "SYN"
      <4>1. Len(conns) \in Nat BY <1>2 DEF Types
      <4> QED BY <1>5, <4>1, NoneBegun
    <3>2. use.first = "none" /\ use.syns = 0 BY <1>2, <1>3, <2>8, <3>1 DEF InOrder, AUse, Firsts
    <3>3. ~(use.accepts > 0) /\ ~use.acked BY <1>2, <1>3, <3>2 DEF InOrder, AUse
    <3>4. /\ use.accepts = 0 /\ use.fin = {} /\ use.reset = {} /\ \A x \in Sides : use.sent[x] = 0
      BY <1>2, <1>3, <2>6, <3>2, <3>3 DEF InOrder, AUse
    <3>5. IsSyn(s) /\ side = "client" BY <3>2, <3>3, SaidWhen
    <3>6. c.client = ends.client
      <4>1. ~IsSynAck(s) BY <3>5 DEF IsSyn, IsSynAck
      <4>2. ClientBy(s) = s.src BY <3>5, <4>1 DEF ClientBy
      <4> QED BY <1>1, <2>1, <3>5, <4>2
    <3>7. \A x \in Sides : h.bytes[x] = 0 .. use.sent[x] - 1 /\ h.late[x] = {} /\ h.reached[x] = use.sent[x]
      <4>1. 0 .. 0 - 1 = {} OBVIOUS
      <4> QED BY <2>2, <3>4, <4>1
    <3> QED BY <2>1, <2>2, <3>2, <3>3, <3>4, <3>6, <3>7 DEF Complete
  <2> QED BY <2>1, <2>2, <2>3, <2>5, <2>7, <2>8 DEF Before
<1> QED BY <1>4, <1>5 DEF Takes

-----------------------------------------------------------------------------
\* What becomes of the conn.

\* A packet moves its side's edge as it moves what was captured of its side.
LEMMA EdgeMoves ==
    ASSUME NEW u, NEW side, NEW s, Said(u, side, s), NEW e \in Edge, NEW r \in 0 .. N,
           At(e, use.iss[side], r), use.iss[side] \in Seqs
    PROVE  /\ NewBytes(e, s.seq, s.n) = Past(r, s.from, s.n)
           /\ At(Advanced(e, s.seq, s.n), use.iss[side], Further(r, s.from + s.n))
<1>1. s.from \in Nat /\ s.n \in Nat /\ s.from + s.n <= N BY Window DEF Said, Moves
<1>2. CASE "SYN" \in s.flags
  <2>1. s.from = 0 /\ s.n = 0 /\ s.seq = use.iss[side] BY <1>2, SaidWhen DEF Said
  <2>2. NewBytes(e, s.seq, s.n) = 0 /\ At(Advanced(e, s.seq, s.n), use.iss[side], r) BY <2>1, AdvanceSyn
  <2>3. Past(r, s.from, s.n) = 0 /\ Further(r, s.from + s.n) = r BY <2>1, Window DEF Past, Further
  <2> QED BY <2>2, <2>3
<1>3. CASE "SYN" \notin s.flags
  <2>1. s.seq = Plus(use.iss[side], 1 + s.from) BY <1>3 DEF Said
  <2> QED BY <1>1, <2>1, AdvanceIs
<1> QED BY <1>2, <1>3

\* Only the client's packets come from the client.
LEMMA FromClient ==
    ASSUME Types, NEW u, NEW side, NEW s, Said(u, side, s)
    PROVE  s.src = ends.client <=> side = "client"
BY DEF Types, Said, Sides

\* What tally adds to a conn of one connection is what was captured.
LEMMA CountsOn ==
    ASSUME Types, InOrder(use), NEW u, NEW side, NEW s, Said(u, side, s), NEW c, NEW h, Before(c, h, s),
           Right(c, h), h.uses \subseteq {use.k},
           NEW t, t = Tallied(c, s), NEW w, w = Witnessed(h, u, side, s)
    PROVE  Counted(t, w) /\ Follows(t, w, u)
<1>1. /\ side \in Sides /\ s \in Segment /\ u \in AUse /\ u.iss = use.iss
      /\ s.from \in Nat /\ s.n \in Nat /\ s.from + s.n <= N /\ s.from <= use.sent[side]
      /\ u.sent[side] = Further(use.sent[side], s.from + s.n)
      /\ \A x \in Sides \ {side} : u.sent[x] = use.sent[x]
  BY Window DEF Said, Moves
<1>2. /\ c \in AConn /\ h \in AHistory /\ c.client = ends.client /\ Counted(c, h) /\ Follows(c, h, use)
  BY DEF Before, Right
<1>3. /\ use \in AUse /\ \A x \in Sides : use.iss[x] \in Seqs /\ use.sent[x] \in 0 .. N /\ use.sent[x] \in Nat
                                          /\ h.reached[x] \in 0 .. N /\ h.reached[x] \in Nat
  BY <1>2, Window DEF Types, AUse, AHistory
<1>4. s.src = c.client <=> side = "client" BY <1>2, FromClient
<1>5. "client" # "server" /\ (side = "client" \/ side = "server") /\ Sides = {"client", "server"} BY <1>1 DEF Sides
<1>6. /\ t.syn = (IF IsSyn(s) /\ s.src = c.client THEN c.syn + 1 ELSE c.syn)
      /\ t.synack = (IF "SYN" \in s.flags /\ s.src # c.client THEN c.synack + 1 ELSE c.synack)
      /\ t.acked <=> c.acked \/ Acks(c, s)
      /\ IF s.src = c.client
         THEN /\ t.sent = c.sent + NewBytes(c.sentEdge, s.seq, s.n) /\ t.received = c.received
              /\ t.sentEdge = Advanced(c.sentEdge, s.seq, s.n) /\ t.recvEdge = c.recvEdge
         ELSE /\ t.received = c.received + NewBytes(c.recvEdge, s.seq, s.n) /\ t.sent = c.sent
              /\ t.recvEdge = Advanced(c.recvEdge, s.seq, s.n) /\ t.sentEdge = c.sentEdge
  BY <1>1, <1>2, TalliedIs
<1>7. /\ w.synacked = (IF IsSynAck(s) THEN h.synacked \cup {u.k} ELSE h.synacked)
      /\ w.syns = (IF IsSyn(s) THEN h.syns + 1 ELSE h.syns)
      /\ w.late[side] = h.late[side] \cup Behind(h.bytes[side], h.reached[side], s.from, s.n)
      /\ w.reached[side] = Further(h.reached[side], s.from + s.n)
      /\ w.bytes[side] = h.bytes[side] \cup (s.from .. s.from + s.n - 1)
      /\ \A x \in Sides \ {side} : /\ w.late[x] = h.late[x] /\ w.reached[x] = h.reached[x]
                                   /\ w.bytes[x] = h.bytes[x]
  <2>1. Grown(h, u, side, s, w) BY <1>1, <1>2, WitnessedIs
  <2> QED BY <2>1 DEF Grown
<1>8. /\ TallyOf(t, side) = TallyOf(c, side) + NewBytes(EdgeOf(c, side), s.seq, s.n)
      /\ EdgeOf(t, side) = Advanced(EdgeOf(c, side), s.seq, s.n)
      /\ \A x \in Sides \ {side} : TallyOf(t, x) = TallyOf(c, x) /\ EdgeOf(t, x) = EdgeOf(c, x)
  <2>1. CASE side = "client" BY <1>4, <1>5, <1>6, <2>1 DEF TallyOf, EdgeOf
  <2>2. CASE side = "server" BY <1>4, <1>5, <1>6, <2>2 DEF TallyOf, EdgeOf
  <2> QED BY <1>5, <2>1, <2>2
<1>9. EdgeOf(c, side) \in Edge BY <1>2 DEF AConn, EdgeOf
<1>10. \A x \in Sides : /\ At(EdgeOf(c, x), use.iss[x], h.reached[x]) /\ h.reached[x] <= use.sent[x]
                        /\ h.bytes[x] \subseteq 0 .. h.reached[x] - 1 /\ h.late[x] \subseteq h.bytes[x]
  BY <1>2 DEF Follows
<1>11. /\ NewBytes(EdgeOf(c, side), s.seq, s.n) = Past(h.reached[side], s.from, s.n)
       /\ At(EdgeOf(t, side), use.iss[side], w.reached[side])
  BY <1>1, <1>3, <1>7, <1>8, <1>9, <1>10, EdgeMoves
<1>12. /\ Cardinality(w.bytes[side] \ w.late[side])
            = Cardinality(h.bytes[side] \ h.late[side]) + Past(h.reached[side], s.from, s.n)
       /\ w.bytes[side] \subseteq 0 .. Further(h.reached[side], s.from + s.n) - 1 /\ w.late[side] \subseteq w.bytes[side]
       /\ (h.bytes[side] \ h.late[side]) \subseteq (w.bytes[side] \ w.late[side])
  <2>1. PICK bytes, late, r, p, n : /\ bytes = h.bytes[side] /\ late = h.late[side] /\ r = h.reached[side]
                                    /\ p = s.from /\ n = s.n
    OBVIOUS
  <2>2. PICK all, behind : /\ all = bytes \cup (p .. p + n - 1)
                           /\ behind = late \cup Behind(bytes, r, p, n)
    OBVIOUS
  <2>3. Grows(bytes, late, r, p, n, all, behind) BY <1>1, <1>3, <1>10, <2>1, <2>2 DEF Grows
  <2>4. Counts(bytes, late, r, p, n, all, behind) BY <2>3, NewsGrow
  <2>5. w.bytes[side] = all /\ w.late[side] = behind BY <1>7, <2>1, <2>2
  <2> QED BY <2>1, <2>4, <2>5 DEF Counts
<1>13. \A x \in Sides : TallyOf(t, x) = Cardinality(News(w, x))
  <2>1. \A x \in Sides : TallyOf(c, x) = Cardinality(News(h, x)) BY <1>2 DEF Counted
  <2>2. TallyOf(t, side) = Cardinality(News(w, side)) BY <1>1, <1>8, <1>11, <1>12, <2>1 DEF News
  <2>3. ASSUME NEW x \in Sides, x # side PROVE TallyOf(t, x) = Cardinality(News(w, x))
    BY <1>7, <1>8, <2>1, <2>3 DEF News
  <2> QED BY <2>2, <2>3
<1>14. t.syn = w.syns
  <2>1. c.syn = h.syns BY <1>2 DEF Counted
  <2>2. IsSyn(s) => s.src = c.client BY <1>4, SaidWhen
  <2> QED BY <1>6, <1>7, <2>1, <2>2
<1>15. w.synacked # {} => t.synack > 0
  <2>1. c.synack \in Nat /\ (h.synacked # {} => c.synack > 0) BY <1>2 DEF Counted, AConn
  <2>2. IsSynAck(s) => "SYN" \in s.flags /\ s.src # c.client BY <1>4, <1>5, SaidWhen
  <2> QED BY <1>6, <1>7, <2>1, <2>2
<1>16. t.synack > 0 /\ w.bytes["client"] # {} => t.acked
  <2> SUFFICES ASSUME t.synack > 0, w.bytes["client"] # {} PROVE t.acked OBVIOUS
  <2>1. c.synack \in Nat /\ (c.synack > 0 /\ h.bytes["client"] # {} => c.acked) BY <1>2 DEF Counted, AConn
  <2>2. CASE side = "client"
    <3>1. c.synack > 0 BY <1>4, <1>6, <2>2
    <3>2. CASE h.bytes["client"] # {} BY <1>6, <2>1, <3>1, <3>2
    <3>3. CASE h.bytes["client"] = {}
      <4>1. s.from .. s.from + s.n - 1 # {} BY <1>7, <2>2, <3>3
      <4>2. s.n > 0 BY <1>1, <4>1
      <4>3. "ACK" \in s.flags BY <4>2, SaidWhen
      <4> QED BY <1>4, <1>6, <2>2, <3>1, <4>3 DEF Acks
    <3> QED BY <3>2, <3>3
  <2>3. CASE side = "server"
    <3>1. h.bytes["client"] # {} BY <1>5, <1>7, <2>3
    <3>2. CASE c.synack > 0 BY <1>6, <2>1, <3>1, <3>2
    <3>3. CASE ~(c.synack > 0)
      <4>1. "SYN" \in s.flags BY <1>6, <3>3
      <4>2. ~use.acked BY <2>3, <4>1, SaidWhen
      <4>3. use.sent["client"] > 0 => use.acked BY <1>5 DEF InOrder
      <4>4. h.reached["client"] # 0
        <5>1. 0 .. 0 - 1 = {} OBVIOUS
        <5> QED BY <1>5, <1>10, <3>1, <5>1
      <4>5. h.reached["client"] <= use.sent["client"] BY <1>5, <1>10
      <4> QED BY <1>3, <1>5, <4>2, <4>3, <4>4, <4>5
    <3> QED BY <3>2, <3>3
  <2> QED BY <1>5, <2>2, <2>3
<1>17. w.bytes["server"] # {} => News(w, "server") # {}
  <2>1. h.bytes["server"] # {} => News(h, "server") # {} BY <1>2 DEF Counted
  <2>2. News(h, "server") \subseteq News(w, "server") BY <1>5, <1>7, <1>12 DEF News
  <2>3. CASE h.bytes["server"] # {} BY <2>1, <2>2, <2>3
  <2>4. CASE h.bytes["server"] = {} /\ w.bytes["server"] # {}
    <3>1. side = "server" BY <1>5, <1>7, <2>4
    <3>2. s.from .. s.from + s.n - 1 # {} BY <1>7, <2>4, <3>1
    <3>3. s.n > 0 BY <1>1, <3>2
    <3>4. "server" \notin use.fin /\ use.reset = {} BY <3>1, <3>3, SaidWhen
    <3>5. h.reached["server"] = 0 BY <1>2, <2>4, <3>4 DEF Follows
    <3>6. h.late["server"] = {} BY <1>5, <1>10, <2>4
    <3>7. Behind({}, 0, s.from, s.n) = {} BY <1>1 DEF Behind
    <3>8. w.late["server"] = {} BY <1>7, <2>4, <3>1, <3>5, <3>6, <3>7
    <3> QED BY <2>4, <3>8 DEF News
  <2> QED BY <2>3, <2>4
<1>18. Counted(t, w) BY <1>13, <1>14, <1>15, <1>16, <1>17 DEF Counted
<1>19. ASSUME NEW x \in Sides
       PROVE  /\ At(EdgeOf(t, x), u.iss[x], w.reached[x]) /\ w.reached[x] <= u.sent[x]
              /\ w.bytes[x] \subseteq 0 .. w.reached[x] - 1 /\ w.late[x] \subseteq w.bytes[x]
  <2>1. CASE x = side
    <3>1. Further(h.reached[side], s.from + s.n) <= Further(use.sent[side], s.from + s.n)
      BY <1>1, <1>3, <1>10 DEF Further
    <3> QED BY <1>1, <1>7, <1>11, <1>12, <2>1, <3>1
  <2>2. CASE x # side BY <1>1, <1>7, <1>8, <1>10, <2>2
  <2> QED BY <2>1, <2>2
<1>20. w.bytes["server"] = {} /\ w.reached["server"] # 0 => "server" \in u.fin \/ u.reset # {}
  <2> SUFFICES ASSUME w.bytes["server"] = {}, w.reached["server"] # 0 PROVE "server" \in u.fin \/ u.reset # {} OBVIOUS
  <2>1. h.bytes["server"] = {} BY <1>5, <1>7
  <2>2. CASE h.reached["server"] # 0
    <3>1. "server" \in use.fin \/ use.reset # {} BY <1>2, <2>1, <2>2 DEF Follows
    <3> QED BY <3>1, SaidWhen
  <2>3. CASE h.reached["server"] = 0
    <3>1. side = "server" BY <1>5, <1>7, <2>3
    <3>2. s.from .. s.from + s.n - 1 = {} BY <1>7, <3>1
    <3>3. s.n = 0
      <4> SUFFICES ASSUME s.n # 0 PROVE FALSE OBVIOUS
      <4>1. s.from \in s.from .. s.from + s.n - 1 BY <1>1
      <4> QED BY <3>2, <4>1
    <3>4. s.from # 0 BY <1>1, <1>7, <2>3, <3>1, <3>3 DEF Further
    <3> QED BY <3>1, <3>3, <3>4, SaidWhen
  <2> QED BY <2>2, <2>3
<1> QED BY <1>18, <1>19, <1>20 DEF Follows

\* All that was captured stays all, when s is captured.
LEMMA CompletesOn ==
    ASSUME Types, InOrder(use), NEW u, NEW side, NEW s, Said(u, side, s), NEW c, NEW h, Before(c, h, s),
           Complete(c, h, use), NEW t, t = Tallied(c, s), NEW w, w = Witnessed(h, u, side, s)
    PROVE  Complete(t, w, u)
<1>1. /\ side \in Sides /\ s \in Segment /\ u \in AUse /\ use \in AUse
      /\ s.from \in Nat /\ s.n \in Nat /\ s.from + s.n <= N /\ s.from <= use.sent[side]
      /\ u.sent[side] = Further(use.sent[side], s.from + s.n)
      /\ \A x \in Sides \ {side} : u.sent[x] = use.sent[x]
      /\ Does(u, side, s.flags, s.n) /\ use.reset = {}
  BY Window DEF Said, Moves, Types
<1>2. /\ c \in AConn /\ h \in AHistory /\ c.client = ends.client BY DEF Before, Complete
<1>3. /\ \A x \in Sides : h.bytes[x] = 0 .. use.sent[x] - 1 /\ h.late[x] = {} /\ h.reached[x] = use.sent[x]
      /\ c.syn = use.syns /\ c.synack = use.accepts /\ (c.fin <=> use.fin # {}) /\ (c.rst <=> use.reset # {})
      /\ (use.reset = {} => (c.acked <=> use.acked))
      /\ (c.refused <=> use.accepts = 0 /\ use.reset # {})
  BY DEF Complete
<1>4. s.src = c.client <=> side = "client" BY <1>2, FromClient
<1>5. "client" # "server" /\ (side = "client" \/ side = "server") BY <1>1 DEF Sides
<1>6. /\ t.client = c.client
      /\ t.syn = (IF IsSyn(s) /\ s.src = c.client THEN c.syn + 1 ELSE c.syn)
      /\ t.synack = (IF "SYN" \in s.flags /\ s.src # c.client THEN c.synack + 1 ELSE c.synack)
      /\ t.acked <=> c.acked \/ Acks(c, s)
      /\ t.fin <=> c.fin \/ "FIN" \in s.flags
      /\ t.rst <=> c.rst \/ "RST" \in s.flags
      /\ t.refused <=> c.refused \/ ("RST" \in s.flags /\ s.src # c.client /\ c.synack = 0)
  BY <1>1, <1>2, TalliedIs
<1>7. Grown(h, u, side, s, w) BY <1>1, <1>2, WitnessedIs
<1>8. Acks(c, s) <=> side = "client" /\ "ACK" \in s.flags /\ use.accepts > 0 BY <1>3, <1>4 DEF Acks
<1>9. use.sent[side] \in Nat BY <1>1, Window DEF AUse
<1>10. ASSUME NEW x \in Sides
       PROVE  w.bytes[x] = 0 .. u.sent[x] - 1 /\ w.late[x] = {} /\ w.reached[x] = u.sent[x]
  <2>1. CASE x = side
    <3>1. PICK r : r = use.sent[side] OBVIOUS
    <3>2. r \in Nat /\ s.from <= r BY <1>1, <1>9, <3>1
    <3>3. /\ w.bytes[side] = (0 .. r - 1) \cup (s.from .. s.from + s.n - 1)
          /\ w.late[side] = {} \cup Behind(0 .. r - 1, r, s.from, s.n)
          /\ w.reached[side] = Further(r, s.from + s.n)
      BY <1>1, <1>3, <1>7, <3>1 DEF Grown
    <3>4. (0 .. r - 1) \cup (s.from .. s.from + s.n - 1) = 0 .. Further(r, s.from + s.n) - 1
      BY <1>1, <3>2 DEF Further
    <3>5. Behind(0 .. r - 1, r, s.from, s.n) = {} BY <1>1, <3>2 DEF Behind
    <3> QED BY <1>1, <2>1, <3>1, <3>3, <3>4, <3>5
  <2>2. CASE x # side BY <1>1, <1>3, <1>7, <2>2 DEF Grown
  <2> QED BY <2>1, <2>2
<1>11. /\ t.syn = u.syns /\ t.synack = u.accepts
       /\ t.fin <=> u.fin # {}
       /\ t.rst <=> u.reset # {}
       /\ u.reset = {} => (t.acked <=> u.acked)
       /\ t.refused <=> u.accepts = 0 /\ u.reset # {}
  <2>1. CASE s.flags = {"SYN"}
    <3>1. IsSyn(s) /\ "SYN" \in s.flags /\ "ACK" \notin s.flags /\ "FIN" \notin s.flags /\ "RST" \notin s.flags
      BY <2>1, FlagsAre
    <3>2. /\ side = "client" /\ u.syns = use.syns + 1 /\ u.accepts = use.accepts /\ u.acked = use.acked
          /\ u.fin = use.fin /\ u.reset = use.reset
      BY <1>1, <3>1 DEF Does
    <3> QED BY <1>1, <1>3, <1>4, <1>6, <1>8, <3>1, <3>2
  <2>2. CASE s.flags = {"SYN", "ACK"}
    <3>1. /\ ~IsSyn(s) /\ "SYN" \in s.flags /\ "ACK" \in s.flags /\ "FIN" \notin s.flags /\ "RST" \notin s.flags
      BY <2>2, FlagsAre
    <3>2. /\ side = "server" /\ u.syns = use.syns /\ u.accepts = use.accepts + 1 /\ u.acked = use.acked
          /\ u.fin = use.fin /\ u.reset = use.reset
      BY <1>1, <3>1 DEF Does
    <3> QED BY <1>1, <1>3, <1>4, <1>5, <1>6, <1>8, <3>1, <3>2
  <2>3. CASE s.flags = {"ACK"}
    <3>1. /\ ~IsSyn(s) /\ "SYN" \notin s.flags /\ "ACK" \in s.flags /\ "FIN" \notin s.flags /\ "RST" \notin s.flags
      BY <2>3, FlagsAre
    <3>2. /\ u.syns = use.syns /\ u.accepts = use.accepts /\ u.fin = use.fin /\ u.reset = use.reset
          /\ \/ side = "client" /\ use.accepts > 0 /\ u.acked
             \/ use.acked /\ u.acked = use.acked
      BY <1>1, <3>1 DEF Does
    <3>3. t.syn = u.syns /\ t.synack = u.accepts /\ (t.fin <=> u.fin # {}) /\ (t.rst <=> u.reset # {})
          /\ (t.refused <=> u.accepts = 0 /\ u.reset # {})
      BY <1>3, <1>6, <3>1, <3>2
    <3>4. t.acked <=> u.acked BY <1>1, <1>3, <1>6, <1>8, <3>1, <3>2
    <3> QED BY <3>3, <3>4
  <2>4. CASE s.flags = {"FIN", "ACK"}
    <3>1. /\ ~IsSyn(s) /\ "SYN" \notin s.flags /\ "ACK" \in s.flags /\ "FIN" \in s.flags /\ "RST" \notin s.flags
      BY <2>4, FlagsAre
    <3>2. /\ u.syns = use.syns /\ u.accepts = use.accepts /\ u.fin = use.fin \cup {side} /\ u.reset = use.reset
          /\ use.acked /\ u.acked = use.acked
      BY <1>1, <3>1 DEF Does
    <3>3. u.fin # {} BY <3>2
    <3>4. t.syn = u.syns /\ t.synack = u.accepts /\ (t.fin <=> u.fin # {}) /\ (t.rst <=> u.reset # {})
          /\ (t.refused <=> u.accepts = 0 /\ u.reset # {})
      BY <1>3, <1>6, <3>1, <3>2, <3>3
    <3>5. t.acked <=> u.acked BY <1>1, <1>3, <1>6, <3>2
    <3> QED BY <3>4, <3>5
  <2>5. CASE s.flags = {"RST", "ACK"}
    <3>1. /\ ~IsSyn(s) /\ "SYN" \notin s.flags /\ "ACK" \in s.flags /\ "FIN" \notin s.flags /\ "RST" \in s.flags
      BY <2>5, FlagsAre
    <3>2. /\ u.syns = use.syns /\ u.accepts = use.accepts /\ u.fin = use.fin /\ u.reset = {side}
          /\ (side = "client" => use.accepts > 0)
      BY <1>1, <3>1 DEF Does
    <3>3. u.reset # {} BY <3>2
    <3>4. t.syn = u.syns /\ t.synack = u.accepts /\ (t.fin <=> u.fin # {}) /\ (t.rst <=> u.reset # {})
      BY <1>3, <1>6, <3>1, <3>2, <3>3
    <3>5. use.accepts \in Nat BY <1>1 DEF AUse
    <3>6. t.refused <=> u.accepts = 0 /\ u.reset # {}
      BY <1>1, <1>3, <1>4, <1>5, <1>6, <3>1, <3>2, <3>3, <3>5
    <3> QED BY <3>3, <3>4, <3>6
  <2> QED BY <1>1, <2>1, <2>2, <2>3, <2>4, <2>5 DEF Does
<1> QED BY <1>2, <1>6, <1>10, <1>11 DEF Complete

\* What a conn and its history share for good, they share still.
LEMMA ToldOn ==
    ASSUME Types, InOrder(use), NEW u, NEW side, NEW s, Said(u, side, s), NEW c, NEW h, Before(c, h, s),
           NEW t, t = Tallied(c, s), NEW w, w = Witnessed(h, u, side, s)
    PROVE  Told(t, w) /\ Live(t, w, u)
<1>1. side \in Sides /\ s \in Segment /\ u \in AUse /\ u.k = use.k /\ u.whole = use.whole /\ s.from + s.n <= N
      /\ s.src = ends[side]
  BY DEF Said, Moves
<1>2. /\ c \in AConn /\ h \in AHistory
      /\ {c.client, c.server} = {ends.client, ends.server}
      /\ h.opens \subseteq h.uses /\ h.closed \subseteq h.uses
      /\ ((c.fin \/ c.rst) <=> h.closed # {})
      /\ IsSyn(s) => ~c.fin /\ ~c.rst
  BY DEF Before
<1>3. /\ t \in AConn /\ t.client = c.client /\ t.server = c.server
      /\ t.last = HeaderOf(s)
      /\ t.fin <=> c.fin \/ "FIN" \in s.flags
      /\ t.rst <=> c.rst \/ "RST" \in s.flags
  BY <1>1, <1>2, TalliedIs
<1>4. Grown(h, u, side, s, w) BY <1>1, <1>2, WitnessedIs
<1>5. /\ w.uses = h.uses \cup {use.k}
      /\ w.opens \subseteq h.opens \cup {use.k}
      /\ w.closed = (IF s.flags \cap {"FIN", "RST"} # {} THEN h.closed \cup {use.k} ELSE h.closed)
  BY <1>1, <1>4 DEF Grown
<1>6. t.last.src = s.src /\ t.last.flags = s.flags BY <1>1, <1>3, HeaderIs
<1>7. Right(t, w) => Right(c, h) /\ h.uses \subseteq {use.k} BY <1>3, <1>5 DEF Right
<1>8. Right(t, w) => Counted(t, w) /\ Follows(t, w, u) BY <1>7, CountsOn
<1>9. s.src \in {ends.client, ends.server} BY <1>1 DEF Sides
<1>10. (t.fin \/ t.rst) <=> w.closed # {}
  <2>1. s.flags \cap {"FIN", "RST"} # {} <=> "FIN" \in s.flags \/ "RST" \in s.flags OBVIOUS
  <2>2. h.closed \cup {use.k} # {} OBVIOUS
  <2> QED BY <1>2, <1>3, <1>5, <2>1, <2>2
<1>11. IsSyn(t.last) => ~t.fin /\ ~t.rst
  <2>1. IsSyn(t.last) <=> IsSyn(s) BY <1>6 DEF IsSyn
  <2>2. IsSyn(s) => s.flags \cap {"FIN", "RST"} = {} BY SaidWhen
  <2>3. IsSyn(s) => "FIN" \notin s.flags /\ "RST" \notin s.flags BY <2>2
  <2> QED BY <1>2, <1>3, <2>1, <2>3
<1>12. w.uses # {} /\ w.opens \subseteq w.uses /\ w.closed \subseteq w.uses BY <1>2, <1>5
<1>13. Told(t, w) BY <1>2, <1>3, <1>6, <1>8, <1>9, <1>10, <1>11, <1>12 DEF Told
<1>14. u.whole /\ w.uses = {u.k} => Complete(t, w, u)
  <2> SUFFICES ASSUME u.whole, w.uses = {u.k} PROVE Complete(t, w, u) OBVIOUS
  <2>1. use.whole /\ h.uses \subseteq {use.k} BY <1>1, <1>5
  <2>2. Complete(c, h, use) BY <2>1 DEF Before
  <2> QED BY <2>2, CompletesOn
<1> QED BY <1>8, <1>13, <1>14 DEF Live

-----------------------------------------------------------------------------
\* The hosts keep their order.

LEMMA OrderOn ==
    ASSUME Types, InOrder(use), NEW u, NEW side, NEW s, Said(u, side, s)
    PROVE  /\ u.acked => u.accepts > 0
           /\ u.accepts > 0 => u.syns > 0
           /\ \A x \in Sides : u.sent[x] > 0 => u.acked
           /\ u.fin # {} => u.acked
           /\ u.reset # {} => u.syns > 0
           /\ "client" \in u.reset => u.accepts > 0
           /\ u.syns > 0 /\ (use.accepts > 0 => u.accepts > 0)
           /\ use.whole => use.first # "other" /\ (use.first = "none" => IsSyn(s))
<1>1. /\ side \in Sides /\ u \in AUse /\ use \in AUse /\ use.reset = {}
      /\ s.from \in Nat /\ s.n \in Nat /\ s.from <= use.sent[side]
      /\ u.sent[side] = Further(use.sent[side], s.from + s.n)
      /\ \A x \in Sides \ {side} : u.sent[x] = use.sent[x]
      /\ Does(u, side, s.flags, s.n)
  BY Window DEF Said, Moves, Types
<1>2. use.syns \in Nat /\ use.accepts \in Nat /\ use.acked \in BOOLEAN /\ u.acked \in BOOLEAN /\ use.sent[side] \in Nat
  BY <1>1, Window DEF AUse
<1>3. /\ use.acked => use.accepts > 0
      /\ use.accepts > 0 => use.syns > 0
      /\ \A x \in Sides : use.sent[x] > 0 => use.acked
      /\ use.fin # {} => use.acked
      /\ use.whole => use.first # "other" /\ (use.first = "none" <=> use.syns = 0)
  BY DEF InOrder
<1>4. /\ use.acked => u.acked
      /\ u.acked => u.accepts > 0
      /\ u.fin # {} => u.acked
      /\ "client" \in u.reset => u.accepts > 0
      /\ u.syns > 0 /\ (use.accepts > 0 => u.accepts > 0)
  <2>1. CASE s.flags = {"SYN"}
    <3>1. "ACK" \notin s.flags /\ "FIN" \notin s.flags /\ "RST" \notin s.flags BY <2>1, FlagsAre
    <3>2. /\ u.syns = use.syns + 1 /\ u.accepts = use.accepts /\ u.acked = use.acked /\ u.fin = use.fin
          /\ u.reset = use.reset
      BY <1>1, <3>1 DEF Does
    <3> QED BY <1>1, <1>2, <1>3, <3>2
  <2>2. CASE s.flags = {"SYN", "ACK"}
    <3>1. "SYN" \in s.flags /\ "ACK" \in s.flags /\ "FIN" \notin s.flags /\ "RST" \notin s.flags BY <2>2, FlagsAre
    <3>2. /\ use.syns > 0 /\ u.syns = use.syns /\ u.accepts = use.accepts + 1 /\ u.acked = use.acked
          /\ u.fin = use.fin /\ u.reset = use.reset
      BY <1>1, <3>1 DEF Does
    <3> QED BY <1>1, <1>2, <1>3, <3>2
  <2>3. CASE s.flags = {"ACK"}
    <3>1. "SYN" \notin s.flags /\ "FIN" \notin s.flags /\ "RST" \notin s.flags BY <2>3, FlagsAre
    <3>2. /\ u.syns = use.syns /\ u.accepts = use.accepts /\ u.fin = use.fin /\ u.reset = use.reset
          /\ \/ use.accepts > 0 /\ u.acked
             \/ use.acked /\ u.acked = use.acked
      BY <1>1, <3>1 DEF Does
    <3> QED BY <1>1, <1>2, <1>3, <3>2
  <2>4. CASE s.flags = {"FIN", "ACK"}
    <3>1. "SYN" \notin s.flags /\ "FIN" \in s.flags /\ "RST" \notin s.flags BY <2>4, FlagsAre
    <3>2. /\ u.syns = use.syns /\ u.accepts = use.accepts /\ u.reset = use.reset
          /\ use.acked /\ u.acked = use.acked
      BY <1>1, <3>1 DEF Does
    <3> QED BY <1>1, <1>2, <1>3, <3>2
  <2>5. CASE s.flags = {"RST", "ACK"}
    <3>1. "SYN" \notin s.flags /\ "FIN" \notin s.flags /\ "RST" \in s.flags BY <2>5, FlagsAre
    <3>2. /\ u.syns = use.syns /\ u.accepts = use.accepts /\ u.fin = use.fin /\ u.reset = {side}
          /\ u.acked = use.acked /\ use.syns > 0 /\ (side = "client" => use.accepts > 0)
      BY <1>1, <3>1 DEF Does
    <3> QED BY <1>1, <1>2, <1>3, <3>2
  <2> QED BY <1>1, <2>1, <2>2, <2>3, <2>4, <2>5 DEF Does
<1>5. ASSUME NEW x \in Sides, u.sent[x] > 0 PROVE u.acked
  <2>1. CASE use.sent[x] > 0 BY <1>3, <1>4, <2>1
  <2>2. CASE ~(use.sent[x] > 0)
    <3>1. x = side BY <1>1, <1>5, <2>2
    <3>2. use.sent[side] = 0 BY <1>2, <2>2, <3>1
    <3>3. s.n > 0 BY <1>1, <1>5, <3>1, <3>2 DEF Further
    <3> QED BY <1>4, <3>3, SaidWhen
  <2> QED BY <2>1, <2>2
<1>6. use.first = "none" /\ use.whole => IsSyn(s)
  <2> SUFFICES ASSUME use.first = "none", use.whole PROVE IsSyn(s) OBVIOUS
  <2>1. use.syns = 0 /\ ~(use.accepts > 0) /\ ~use.acked BY <1>2, <1>3
  <2> QED BY <2>1, SaidWhen
<1> QED BY <1>3, <1>4, <1>5, <1>6

\* What else there is of a connection of the hosts.
Later(u, f, m) == [u EXCEPT !.first = f, !.whole = m, !.packets = @ + 1]

LEMMA UseIs ==
    ASSUME NEW u \in AUse, NEW f \in Firsts, NEW m \in BOOLEAN, NEW v,
           v = Later(u, f, m)
    PROVE  /\ v \in AUse /\ v.first = f /\ v.whole = m /\ v.k = u.k /\ v.iss = u.iss /\ v.sent = u.sent
           /\ v.syns = u.syns /\ v.accepts = u.accepts /\ v.acked = u.acked /\ v.fin = u.fin /\ v.reset = u.reset
<1> DEFINE n == u.packets + 1
<1>1. n \in Nat /\ f \in Firsts BY DEF AUse
<1>2. v = [u EXCEPT !.first = f, !.whole = m, !.packets = n] BY DEF AUse, Later
<1>3. AUse = [k : Nat, iss : [Sides -> Seqs], sent : [Sides -> 0 .. N], syns : Nat, accepts : Nat, acked : BOOLEAN,
              fin : SUBSET Sides, reset : SUBSET Sides, whole : BOOLEAN, first : Firsts, packets : Nat]
  BY DEF AUse
<1> HIDE DEF n
<1>4. /\ v.first = f /\ v.whole = m /\ v.k = u.k /\ v.iss = u.iss /\ v.sent = u.sent
      /\ v.syns = u.syns /\ v.accepts = u.accepts /\ v.acked = u.acked /\ v.fin = u.fin /\ v.reset = u.reset
  BY <1>2, <1>3
<1>5. v \in AUse BY <1>1, <1>2, <1>3
<1> QED BY <1>4, <1>5

LEMMA HearsIs ==
    ASSUME NEW u \in AUse, NEW s, Hears(u, s)
    PROVE  /\ use' \in AUse /\ use'.whole = u.whole /\ use'.k = u.k /\ use'.iss = u.iss /\ use'.sent = u.sent
           /\ use'.syns = u.syns /\ use'.accepts = u.accepts /\ use'.acked = u.acked /\ use'.fin = u.fin
           /\ use'.reset = u.reset /\ use'.first # "none"
           /\ use'.first = "SYN" <=> u.first = "SYN" \/ (u.first = "none" /\ IsSyn(s))
<1> DEFINE f == IF u.first # "none" THEN u.first ELSE IF IsSyn(s) THEN "SYN" ELSE "other"
<1>1. f \in Firsts /\ u.whole \in BOOLEAN BY DEF AUse, Firsts
<1>2. use' = Later(u, f, u.whole) BY DEF Hears, AUse, Later
<1>3. f # "none" /\ (f = "SYN" <=> u.first = "SYN" \/ (u.first = "none" /\ IsSyn(s))) OBVIOUS
<1> HIDE DEF f
<1>4. PICK v, g, m : v = use' /\ g = f /\ m = u.whole OBVIOUS
<1>5. g \in Firsts /\ m \in BOOLEAN /\ v = Later(u, g, m) BY <1>1, <1>2, <1>4
<1>6. /\ v \in AUse /\ v.first = g /\ v.whole = m /\ v.k = u.k /\ v.iss = u.iss /\ v.sent = u.sent
      /\ v.syns = u.syns /\ v.accepts = u.accepts /\ v.acked = u.acked /\ v.fin = u.fin /\ v.reset = u.reset
  BY <1>5, UseIs
<1> QED BY <1>3, <1>4, <1>6

LEMMA LostIs ==
    ASSUME NEW u \in AUse, use' = [u EXCEPT !.whole = FALSE, !.packets = @ + 1]
    PROVE  /\ use' \in AUse /\ ~use'.whole /\ use'.k = u.k /\ use'.iss = u.iss /\ use'.sent = u.sent
           /\ use'.syns = u.syns /\ use'.accepts = u.accepts /\ use'.acked = u.acked /\ use'.fin = u.fin
           /\ use'.reset = u.reset /\ use'.first = u.first
<1>1. u.first \in Firsts /\ FALSE \in BOOLEAN BY DEF AUse
<1>2. use' = Later(u, u.first, FALSE) BY DEF AUse, Later
<1>3. PICK v, f, m : v = use' /\ f = u.first /\ m = FALSE OBVIOUS
<1>4. f \in Firsts /\ m \in BOOLEAN BY <1>1, <1>3
<1>5. v = Later(u, f, m) BY <1>2, <1>3
<1>6. /\ v \in AUse /\ v.first = f /\ v.whole = m /\ v.k = u.k /\ v.iss = u.iss /\ v.sent = u.sent
      /\ v.syns = u.syns /\ v.accepts = u.accepts /\ v.acked = u.acked /\ v.fin = u.fin /\ v.reset = u.reset
  BY <1>4, <1>5, UseIs
<1> QED BY <1>3, <1>6

\* What is said of a conn, it is said as long as it is the same two.
LEMMA ToldStays ==
    ASSUME NEW j, NEW c, NEW h, Told(c, h), ends' = ends, conns'[j] = c, seen'[j] = h
    PROVE  Told(conns[j], seen[j])'
BY DEF Told, Right, Counted, TallyOf, News, IsSyn

LEMMA LiveStays ==
    ASSUME NEW j, NEW c, NEW h, NEW v, Live(c, h, v), ends' = ends, conns'[j] = c, seen'[j] = h, use' = v
    PROVE  Live(conns[j], seen[j], use)'
BY DEF Live, Right, Follows, Complete, EdgeOf, At

LEMMA LiveOf ==
    ASSUME NEW c, NEW h, NEW u, NEW v, Live(c, h, u), v.k = u.k, v.iss = u.iss, v.sent = u.sent,
           v.syns = u.syns, v.accepts = u.accepts, v.acked = u.acked, v.fin = u.fin, v.reset = u.reset,
           v.whole => u.whole
    PROVE  Live(c, h, v)
<1>1. Follows(c, h, u) => Follows(c, h, v) BY DEF Follows
<1>2. Complete(c, h, u) => Complete(c, h, v) BY DEF Complete
<1> QED BY <1>1, <1>2 DEF Live

-----------------------------------------------------------------------------
\* Which conns a connection is in.

LEMMA PartedOn ==
    ASSUME IInv, NEW u, NEW side, NEW s, Said(u, side, s), NEW c, NEW h, NEW i, Takes(c, h, i, s),
           Hears(u, s), NEW t, NEW w, Grown(h, u, side, s, w), Puts(t, w, i)
    PROVE  Parted'
<1>1. Types /\ Parted /\ Before(c, h, s) BY BeforeIs DEF IInv
<1>2. /\ s \in Segment /\ u \in AUse /\ use \in AUse /\ u.k = use.k /\ u.first = use.first /\ use.k \in Nat
  BY <1>1 DEF Said, Moves, Types, AUse
<1>3. /\ use'.k = use.k /\ use'.accepts = u.accepts /\ use'.reset = u.reset /\ use'.first # "none"
      /\ use'.first = "SYN" <=> use.first = "SYN" \/ (use.first = "none" /\ IsSyn(s))
  BY <1>2, HearsIs
<1>4. /\ i \in Nat \ {0} /\ i - 1 \in {Len(conns), Len(conns) - 1} /\ Len(seen) = Len(conns) /\ Len(conns) \in Nat
      /\ conns \in Seq(AConn) /\ seen \in Seq(AHistory)
  BY <1>1, <1>2, TakesTypes DEF Types
<1>5. /\ conns' \in Seq(AConn) /\ seen' \in Seq(AHistory) /\ Len(conns') = i /\ Len(seen') = i /\ seen'[i] = w
      /\ \A j \in 1 .. i - 1 : seen'[j] = seen[j]
  BY DEF Puts
<1>6. DOMAIN conns' = 1 .. i /\ DOMAIN seen' = 1 .. i /\ \A j \in 1 .. i - 1 : j \in DOMAIN seen BY <1>4, <1>5
<1>7. h.opens \subseteq h.uses /\ h.closed \subseteq h.uses /\ h.uses \subseteq Nat /\ (IsSyn(s) => h.closed = {})
  BY <1>1 DEF Before, AHistory
<1>8. /\ w.uses = h.uses \cup {use.k}
      /\ w.opens = IF use.first = "none" /\ IsSyn(s) THEN h.opens \cup {use.k} ELSE h.opens
      /\ w.closed = IF s.flags \cap {"FIN", "RST"} # {} THEN h.closed \cup {use.k} ELSE h.closed
  BY <1>2 DEF Grown
<1>9. (i = Len(seen) /\ h = seen[i]) \/ (h = Fresh /\ use.first # "SYN")
  <2>1. use.first = "SYN" => i = Len(conns) /\ h = seen[i] BY NoneBegun
  <2> QED BY <1>4, <2>1 DEF Takes
\* The histories as they were.
<1> DEFINE old == [j \in 1 .. i |-> IF j = i THEN h ELSE seen[j]]
<1>10. i \in 1 .. i /\ \A j \in 1 .. i : j # i => j \in 1 .. i - 1 BY <1>4
<1>11. \A j \in 1 .. i : old[j] = Fresh \/ (j \in DOMAIN seen /\ old[j] = seen[j])
  <2>1. h = Fresh \/ (i \in DOMAIN seen /\ h = seen[i]) BY <1>4, <1>9
  <2> QED BY <1>6, <1>10, <2>1
<1>12. old[i] = h /\ \A j \in 1 .. i : j # i => old[j] = seen'[j]
  <2>1. old[i] = h BY <1>10
  <2>2. ASSUME NEW j \in 1 .. i, j # i PROVE old[j] = seen'[j]
    <3>1. j \in 1 .. i - 1 BY <1>10, <2>2
    <3>2. seen'[j] = seen[j] BY <1>5, <3>1
    <3>3. old[j] = seen[j] BY <2>2
    <3> QED BY <3>2, <3>3
  <2> QED BY <2>1, <2>2
<1> HIDE DEF old
<1>26. \A j \in 1 .. i : old[j].opens \subseteq old[j].uses /\ old[j].uses \subseteq Nat
  <2>1. ASSUME NEW j \in DOMAIN seen PROVE seen[j].opens \subseteq seen[j].uses /\ seen[j].uses \subseteq Nat
    <3>1. j \in DOMAIN conns BY <1>4
    <3>2. Told(conns[j], seen[j]) BY <3>1 DEF IInv
    <3>3. seen[j] \in AHistory BY <1>4
    <3> QED BY <3>2, <3>3 DEF Told, AHistory
  <2> QED BY <1>11, <2>1, FreshIs
<1>13. Fresh.uses = {} /\ Fresh.opens = {} /\ Fresh.closed = {} BY FreshIs
<1>14. /\ \A j \in 1 .. i : \A k \in old[j].uses : k <= use.k
       /\ use.first = "none" => \A j \in 1 .. i : use.k \notin old[j].uses
       /\ \A j \in 1 .. i : use.k \in old[j].opens => use.first = "SYN"
  BY <1>1, <1>11, <1>13 DEF Parted
<1>15. use.first = "SYN" => /\ \A j \in 1 .. i : use.k \in old[j].uses => j = i
                            /\ h.closed # {} => use.accepts > 0 \/ use.reset # {}
  BY <1>1, <1>9, <1>11, <1>13 DEF Parted
<1>16. ASSUME NEW j \in 1 .. i, NEW k \in old[j].opens
       PROVE  /\ \A m \in 1 .. i : k \in old[m].uses => m = j
              /\ \A earlier \in old[j].uses \cap old[j].closed : ~(earlier < k)
  <2>1. j \in DOMAIN seen /\ old[j] = seen[j] BY <1>11, <1>13
  <2>2. DOMAIN seen = DOMAIN conns BY <1>4
  <2>3. \A m \in DOMAIN seen : k \in seen[m].uses => m = j BY <1>1, <2>1, <2>2 DEF Parted, UsesToldApart
  <2>4. \A earlier \in seen[j].uses \cap seen[j].closed : ~(earlier < k)
    BY <1>1, <2>1, <2>2 DEF Parted, UsesToldApart
  <2> QED BY <1>11, <1>13, <2>1, <2>3, <2>4
\* And as they are.
<1>17. \A j \in 1 .. i : /\ seen'[j].uses = IF j = i THEN old[j].uses \cup {use.k} ELSE old[j].uses
                         /\ j # i => seen'[j].opens = old[j].opens /\ seen'[j].closed = old[j].closed
  BY <1>5, <1>8, <1>12
<1>18. \A j \in 1 .. i : \A k \in seen'[j].uses : k <= use.k
  <2>1. ASSUME NEW j \in 1 .. i, NEW k \in seen'[j].uses PROVE k <= use.k
    <3>1. k \in old[j].uses \/ k = use.k BY <1>17
    <3> QED BY <1>2, <1>14, <3>1
  <2> QED BY <2>1
<1>19. ASSUME use'.first = "SYN", NEW j \in 1 .. i, use.k \in seen'[j].uses PROVE j = i
  BY <1>3, <1>14, <1>15, <1>17, <1>19
<1>20. ASSUME use'.first = "SYN", w.closed # {} PROVE u.accepts > 0 \/ u.reset # {}
  <2>1. CASE s.flags \cap {"FIN", "RST"} # {}
    <3>1. use.acked \/ u.reset # {} BY <2>1, SaidWhen
    <3>2. use.acked => use.accepts > 0 BY DEF IInv, InOrder
    <3>3. use.accepts > 0 => u.accepts > 0 BY <1>1, OrderOn DEF IInv
    <3> QED BY <3>1, <3>2, <3>3
  <2>2. CASE ~(s.flags \cap {"FIN", "RST"} # {})
    <3>1. h.closed # {} BY <1>8, <1>20, <2>2
    <3>2. use.first = "SYN" BY <1>3, <1>7, <1>20, <3>1
    <3>3. use.accepts > 0 \/ use.reset # {} BY <1>15, <3>1, <3>2
    <3>4. use.reset = {} BY SaidWhen
    <3>5. use.accepts > 0 => u.accepts > 0 BY <1>1, OrderOn DEF IInv
    <3> QED BY <3>3, <3>4, <3>5
  <2> QED BY <2>1, <2>2
<1>21. ASSUME NEW j \in 1 .. i, use.k \in seen'[j].opens PROVE use'.first = "SYN"
  <2>1. CASE j # i BY <1>3, <1>14, <1>17, <1>21, <2>1
  <2>2. CASE j = i BY <1>3, <1>5, <1>8, <1>12, <1>14, <1>21, <2>2
  <2> QED BY <2>1, <2>2
<1>22. ASSUME NEW j \in 1 .. i, NEW k \in seen'[j].opens
       PROVE  /\ \A m \in 1 .. i : k \in seen'[m].uses => m = j
              /\ \A earlier \in seen'[j].uses \cap seen'[j].closed : ~(earlier < k)
  <2>1. CASE k \in old[j].opens
    <3>1. k \in old[j].uses BY <1>26, <2>1
    <3>2. k <= use.k BY <1>14, <3>1
    <3>3. ASSUME NEW m \in 1 .. i, k \in seen'[m].uses PROVE m = j
      <4>1. CASE k = use.k
        <5>1. use.first = "SYN" BY <1>14, <2>1, <4>1
        <5>2. j = i BY <1>15, <3>1, <4>1, <5>1
        <5>3. m = i BY <1>3, <1>19, <3>3, <4>1, <5>1
        <5> QED BY <5>2, <5>3
      <4>2. CASE k # use.k
        <5>1. k \in old[m].uses BY <1>17, <3>3, <4>2
        <5> QED BY <1>16, <2>1, <5>1
      <4> QED BY <4>1, <4>2
    <3>4. ASSUME NEW earlier \in seen'[j].uses \cap seen'[j].closed PROVE ~(earlier < k)
      <4>1. CASE earlier = use.k
        <5>1. k \in Nat BY <1>26, <3>1
        <5> QED BY <1>2, <3>2, <4>1, <5>1
      <4>2. CASE earlier # use.k
        <5>1. earlier \in old[j].uses /\ earlier \in old[j].closed BY <1>5, <1>8, <1>12, <1>17, <3>4, <4>2
        <5> QED BY <1>16, <2>1, <5>1
      <4> QED BY <4>1, <4>2
    <3> QED BY <3>3, <3>4
  <2>2. CASE k \notin old[j].opens
    <3>1. j = i /\ k = use.k /\ use.first = "none" /\ IsSyn(s) BY <1>5, <1>8, <1>12, <1>17, <1>22, <2>2
    <3>2. use'.first = "SYN" BY <1>3, <3>1
    <3>3. w.closed = {}
      <4>1. s.flags \cap {"FIN", "RST"} = {} BY <3>1, SaidWhen
      <4> QED BY <1>7, <1>8, <3>1, <4>1
    <3> QED BY <1>5, <1>19, <3>1, <3>2, <3>3
  <2> QED BY <2>1, <2>2
<1>23. UsesToldApart'
  <2>1. UsesToldApart' = \A j \in DOMAIN conns' : \A k \in seen'[j].opens :
                            /\ \A m \in DOMAIN conns' : k \in seen'[m].uses => m = j
                            /\ \A earlier \in seen'[j].uses \cap seen'[j].closed : ~(earlier < k)
    BY DEF UsesToldApart
  <2> QED BY <1>6, <1>22, <2>1
<1>24. seen' # <<>> BY <1>4, <1>5
<1>25. use'.first = "SYN" =>
        /\ seen' # <<>>
        /\ \A j \in DOMAIN seen' : use'.k \in seen'[j].uses => j = Len(seen')
        /\ seen'[Len(seen')].closed # {} => use'.accepts > 0 \/ use'.reset # {}
  BY <1>3, <1>5, <1>6, <1>19, <1>20, <1>24
<1> QED BY <1>3, <1>6, <1>18, <1>21, <1>23, <1>25 DEF Parted

-----------------------------------------------------------------------------
\* Every step.

LEMMA PairStays == ASSUME ends' = ends PROVE Pair' = Pair
BY DEF Pair

\* A packet that is captured.
LEMMA CapturedKeeps ==
    ASSUME IInv, NEW u, NEW side, NEW s, Said(u, side, s), NEW c, NEW h, NEW i, Takes(c, h, i, s),
           Hears(u, s), UNCHANGED <<ends, marks>>,
           Puts(Tallied(c, s), Witnessed(h, u, side, s), i)
    PROVE  IInv'
<1>1. PICK t, w, v : t = Tallied(c, s) /\ w = Witnessed(h, u, side, s) /\ v = use' OBVIOUS
<1>2. Puts(t, w, i) BY <1>1
<1>3. Types /\ InOrder(use) /\ Before(c, h, s) /\ Marked BY BeforeIs DEF IInv
<1>4. /\ s \in Segment /\ u \in AUse /\ use \in AUse /\ u.whole = use.whole /\ u.first = use.first /\ side \in Sides
      /\ s.from + s.n <= N
  BY <1>3 DEF Said, Moves, Types
<1>5. /\ v \in AUse /\ v.whole = u.whole /\ v.k = u.k /\ v.iss = u.iss /\ v.sent = u.sent
      /\ v.syns = u.syns /\ v.accepts = u.accepts /\ v.acked = u.acked /\ v.fin = u.fin
      /\ v.reset = u.reset /\ v.first # "none"
      /\ v.first = "SYN" <=> u.first = "SYN" \/ (u.first = "none" /\ IsSyn(s))
  BY <1>1, <1>4, HearsIs
<1>6. /\ i \in Nat \ {0} /\ i - 1 \in {Len(conns), Len(conns) - 1} /\ Len(seen) = Len(conns) /\ Len(conns) \in Nat
      /\ conns \in Seq(AConn) /\ seen \in Seq(AHistory) /\ c \in AConn /\ h \in AHistory
  BY <1>3, <1>4, TakesTypes DEF Types
<1>7. /\ conns' \in Seq(AConn) /\ seen' \in Seq(AHistory) /\ Len(conns') = i /\ Len(seen') = i
      /\ conns'[i] = t /\ seen'[i] = w
      /\ \A j \in 1 .. i - 1 : conns'[j] = conns[j] /\ seen'[j] = seen[j]
      /\ open' = [p \in {Pair} |-> i]
  BY <1>2 DEF Puts
<1>8. DOMAIN conns' = 1 .. i /\ DOMAIN seen' = 1 .. i /\ conns' # <<>> BY <1>6, <1>7
<1>9. Told(t, w) /\ Live(t, w, u) BY <1>1, <1>3, ToldOn
<1>10. Grown(h, u, side, s, w) BY <1>1, <1>4, <1>6, WitnessedIs
<1>11. Pair' = Pair /\ ends' = ends /\ marks' = marks BY PairStays
<1>12. Types'
  <2>1. Placed' BY <1>7, <1>8, <1>11 DEF Placed
  <2> QED BY <1>1, <1>3, <1>5, <1>7, <1>11, <2>1 DEF Types
<1>13. InOrder(use)'
  <2>1. v.first \in Firsts BY <1>5 DEF AUse
  <2>2. /\ u.acked => u.accepts > 0
        /\ u.accepts > 0 => u.syns > 0
        /\ \A x \in Sides : u.sent[x] > 0 => u.acked
        /\ u.fin # {} => u.acked
        /\ u.reset # {} => u.syns > 0
        /\ "client" \in u.reset => u.accepts > 0
        /\ u.syns > 0
        /\ use.whole => use.first # "other" /\ (use.first = "none" => IsSyn(s))
    BY <1>3, OrderOn
  <2>3. v.whole => v.first # "other" /\ (v.first = "none" <=> v.syns = 0)
    BY <1>4, <1>5, <2>1, <2>2 DEF AUse, Firsts
  <2>4. InOrder(v) BY <1>5, <2>2, <2>3 DEF InOrder
  <2> QED BY <1>1, <2>4 DEF InOrder
<1>14. Parted' BY <1>2, <1>10, PartedOn
<1>15. Marked'
  <2>1. ASSUME NEW j \in DOMAIN seen, seen[j].bytes["server"] # {}
        PROVE  \E m \in DOMAIN seen' : seen'[m].bytes["server"] # {}
    <3>1. CASE j \in 1 .. i - 1 BY <1>6, <1>7, <1>8, <2>1, <3>1
    <3>2. CASE j \notin 1 .. i - 1
      <4>1. j = i /\ i = Len(conns) BY <1>6, <3>2
      <4>2. h = seen[i] BY <1>6, <4>1 DEF Takes
      <4>3. "server" \in Sides BY DEF Sides
      <4>4. w.bytes["server"] # {}
        <5>1. CASE side = "server" BY <1>10, <2>1, <4>1, <4>2, <5>1 DEF Grown
        <5>2. CASE side # "server" BY <1>10, <2>1, <4>1, <4>2, <4>3, <5>2 DEF Grown
        <5> QED BY <5>1, <5>2
      <4> QED BY <1>6, <1>7, <1>8, <4>4
    <3> QED BY <3>1, <3>2
  <2> QED BY <1>3, <1>11, <2>1 DEF Marked
<1>16. ASSUME NEW j \in DOMAIN conns' PROVE Told(conns[j], seen[j])'
  <2>1. CASE j = i BY <1>7, <1>9, <1>11, <2>1, ToldStays
  <2>2. CASE j # i
    <3>1. j \in 1 .. i - 1 /\ j \in DOMAIN conns BY <1>6, <1>8, <2>2
    <3>2. PICK d, g : d = conns[j] /\ g = seen[j] OBVIOUS
    <3>3. Told(d, g) BY <3>1, <3>2 DEF IInv
    <3>4. conns'[j] = d /\ seen'[j] = g BY <1>7, <3>1, <3>2
    <3> QED BY <1>11, <3>3, <3>4, ToldStays
  <2> QED BY <2>1, <2>2
<1>17. Live(conns[Len(conns)], seen[Len(seen)], use)'
  <2>1. Live(t, w, v) BY <1>5, <1>9, LiveOf
  <2>2. Live(conns[i], seen[i], use)' BY <1>1, <1>7, <1>11, <2>1, LiveStays
  <2> QED BY <1>7, <2>2
<1> QED BY <1>12, <1>13, <1>14, <1>15, <1>16, <1>17 DEF IInv

\* A packet that is not.
LEMMA LostKeeps ==
    ASSUME IInv, NEW u, NEW side, NEW s, Said(u, side, s),
           use' = [u EXCEPT !.whole = FALSE, !.packets = @ + 1],
           UNCHANGED <<ends, open, conns, marks, seen>>
    PROVE  IInv'
<1>1. Types /\ InOrder(use) /\ Parted /\ Marked BY DEF IInv
<1>2. PICK v : v = use' OBVIOUS
<1>3. /\ u \in AUse /\ use \in AUse /\ u.whole = use.whole /\ u.first = use.first /\ u.k = use.k /\ u.iss = use.iss
      /\ side \in Sides /\ s.from \in Nat /\ s.n \in Nat /\ s.from <= use.sent[side]
      /\ u.sent[side] = Further(use.sent[side], s.from + s.n)
      /\ \A x \in Sides \ {side} : u.sent[x] = use.sent[x]
  BY <1>1, Window DEF Said, Moves, Types
<1>4. /\ v \in AUse /\ ~v.whole /\ v.k = u.k /\ v.iss = u.iss /\ v.sent = u.sent
      /\ v.syns = u.syns /\ v.accepts = u.accepts /\ v.acked = u.acked /\ v.fin = u.fin
      /\ v.reset = u.reset /\ v.first = u.first
  BY <1>2, <1>3, LostIs
<1>5. Pair' = Pair /\ ends' = ends BY PairStays
<1>6. Types'
  <2>1. Placed' BY <1>1, <1>5 DEF Placed, Types
  <2> QED BY <1>1, <1>2, <1>4, <1>5, <2>1 DEF Types
<1>7. InOrder(use)'
  <2>1. InOrder(v) BY <1>1, <1>4, OrderOn DEF InOrder
  <2> QED BY <1>2, <2>1 DEF InOrder
<1>8. Parted'
  <2>1. UsesToldApart' BY <1>1 DEF Parted, UsesToldApart
  <2>2. use'.k = use.k /\ use'.first = use.first BY <1>2, <1>3, <1>4
  <2>3. use.accepts > 0 \/ use.reset # {} => use'.accepts > 0 \/ use'.reset # {}
    <3>1. use.reset = {} BY SaidWhen
    <3>2. use.accepts > 0 => u.accepts > 0 BY <1>1, OrderOn
    <3> QED BY <1>2, <1>4, <3>1, <3>2
  <2> QED BY <1>1, <2>1, <2>2, <2>3 DEF Parted
<1>9. Marked' BY <1>1 DEF Marked
<1>10. ASSUME NEW j \in DOMAIN conns' PROVE Told(conns[j], seen[j])'
  <2>1. PICK d, g : d = conns[j] /\ g = seen[j] OBVIOUS
  <2>2. Told(d, g) BY <2>1 DEF IInv
  <2> QED BY <1>5, <2>1, <2>2, ToldStays
<1>11. ASSUME conns # <<>> PROVE Live(conns[Len(conns)], seen[Len(seen)], use)'
  <2>1. PICK d, g, j : d = conns[j] /\ g = seen[j] /\ j = Len(conns) /\ j = Len(seen) BY <1>1 DEF Types
  <2>2. Live(d, g, use) BY <1>11, <2>1 DEF IInv
  <2>3. Live(d, g, v)
    <3>1. ASSUME Follows(d, g, use) PROVE Follows(d, g, v)
      <4>1. \A x \in Sides : use.sent[x] \in Nat /\ u.sent[x] \in Nat /\ use.sent[x] <= u.sent[x]
        <5>1. \A x \in Sides : use.sent[x] \in Nat /\ u.sent[x] \in Nat BY <1>3, Window DEF AUse
        <5>2. use.sent[side] <= u.sent[side] BY <1>3, <5>1 DEF Further
        <5> QED BY <1>3, <5>1, <5>2
      <4>2. ASSUME NEW x \in Sides PROVE g.reached[x] <= v.sent[x]
        <5>1. g \in AHistory BY <1>1, <1>11, <2>1, PresentIs
        <5>2. g.reached[x] \in Nat BY <5>1, Window DEF AHistory
        <5>3. g.reached[x] <= use.sent[x] BY <3>1 DEF Follows
        <5> QED BY <1>4, <4>1, <5>2, <5>3
      <4>3. use.reset = {} /\ use.fin \subseteq v.fin BY <1>4, SaidWhen
      <4>4. v.iss = use.iss BY <1>3, <1>4
      <4> QED BY <3>1, <4>2, <4>3, <4>4 DEF Follows
    <3> QED BY <1>3, <1>4, <2>2, <3>1 DEF Live
  <2>4. Live(conns[j], seen[j], use)' BY <1>2, <1>5, <2>1, <2>3, LiveStays
  <2> QED BY <2>1, <2>4
<1> QED BY <1>6, <1>7, <1>8, <1>9, <1>10, <1>11 DEF IInv

\* The same conns, but for the age of the last one.
LEMMA LoggedKeeps ==
    ASSUME IInv, LoggedTwice
    PROVE  IInv'
<1>1. Types /\ InOrder(use) /\ Parted /\ Marked BY DEF IInv
<1>2. UNCHANGED <<ends, use, marks, seen>> /\ open # <<>> BY DEF LoggedTwice
<1>34. PICK dt \in 0 .. CopyGap - 1 :
        LET h == conns[Present].last
            s == [src |-> h.src, dst |-> IF h.src = ends.client THEN ends.server ELSE ends.client,
                  flags |-> h.flags, seq |-> h.seq, ack |-> h.ack, n |-> h.n]
        IN conns[Present].age + dt < CopyGap /\ Read(s, dt)
  BY DEF LoggedTwice
<1>3. PICK b, s :
        /\ b = conns[Present].last
        /\ s = [src |-> b.src, dst |-> IF b.src = ends.client THEN ends.server ELSE ends.client,
                flags |-> b.flags, seq |-> b.seq, ack |-> b.ack, n |-> b.n]
        /\ conns[Present].age + dt < CopyGap /\ Read(s, dt)
  BY <1>34
<1>4. /\ conns # <<>> /\ Present = Len(conns) /\ Len(conns) \in DOMAIN conns /\ Len(seen) = Len(conns)
      /\ conns[Len(conns)] \in AConn
  BY <1>1, <1>2, PresentIs
<1>5. Told(conns[Len(conns)], seen[Len(conns)]) BY <1>4 DEF IInv
<1>6. b \in Header /\ b = conns[Len(conns)].last BY <1>3, <1>4 DEF AConn
<1>7. b.src \in {ends.client, ends.server} BY <1>5, <1>6 DEF Told
<1>8. PairOf(s.src, s.dst) = Pair
  <2>1. {s.src, s.dst} = {ends.client, ends.server} BY <1>3, <1>7
  <2>2. ends.client \in Endpoint /\ ends.server \in Endpoint BY <1>1 DEF Types
  <2>3. PairOf(ends.client, ends.server) = PairOf(ends.server, ends.client) BY <2>2, PairSame
  <2> QED BY <2>1, <2>3 DEF Pair
<1>9. dt \in Nat BY Window
<1>35. Types /\ Read(s, dt) BY <1>1, <1>3
<1>10. PICK c, i, t :
             /\ Takes(c, IF i = Len(conns) + 1 THEN Fresh ELSE seen[i], i, s)
             /\ i = Len(conns) => conns # <<>> /\ c = Aged(conns[i], dt)
             /\ t = IF Copied(c, s) THEN c ELSE Tallied(c, s)
             /\ conns' = IF i = Len(conns) + 1 THEN Append(conns, t) ELSE [conns EXCEPT ![i] = t]
             /\ open' = [p \in {Pair} |-> i]
             /\ i \in {Len(conns), Len(conns) + 1}
  BY <1>35, <1>8, <1>9, ReadIs
<1>11. Len(conns) \in Nat BY <1>1 DEF Types
<1>12. ~(IsSyn(s) /\ (conns[Len(conns)].fin \/ conns[Len(conns)].rst))
  <2>1. s.flags = b.flags BY <1>3
  <2>2. IsSyn(s) => IsSyn(conns[Len(conns)].last) BY <1>6, <2>1 DEF IsSyn
  <2> QED BY <1>5, <2>2 DEF Told
<1>13. i = Len(conns) /\ i # Len(conns) + 1 BY <1>4, <1>10, <1>11, <1>12 DEF Takes
<1>14. PICK d : d = conns[i] OBVIOUS
<1>15. d \in AConn /\ d = conns[Len(conns)] BY <1>4, <1>13, <1>14
<1>16. c = Aged(d, dt) BY <1>10, <1>13, <1>14
<1>36. d \in AConn BY <1>15
<1>17. PICK a \in 0 .. CopyGap : c = [d EXCEPT !.age = a] BY <1>9, <1>16, <1>36, AgedIs, Zenon
<1>18. c \in AConn /\ c.last = d.last BY <1>15, <1>17 DEF AConn
<1>19. c.age < CopyGap
  <2>1. d.age + dt < CopyGap BY <1>3, <1>4, <1>15
  <2>2. c.age = IF d.age + dt < CopyGap THEN d.age + dt ELSE CopyGap BY <1>9, <1>15, <1>16, AgedIs
  <2> QED BY <2>1, <2>2
<1>20. HeaderOf(s) = c.last
  <2>1. HeaderOf(s) = [src |-> b.src, flags |-> b.flags, seq |-> b.seq, ack |-> b.ack, n |-> b.n]
    BY <1>3 DEF HeaderOf
  <2>2. b = [src |-> b.src, flags |-> b.flags, seq |-> b.seq, ack |-> b.ack, n |-> b.n] BY <1>6 DEF Header
  <2> QED BY <1>6, <1>15, <1>18, <2>1, <2>2
<1>21. t = c BY <1>10, <1>19, <1>20 DEF Copied
<1>22. conns' = [conns EXCEPT ![i] = c] BY <1>10, <1>13, <1>21
<1>23. /\ conns' \in Seq(AConn) /\ Len(conns') = Len(conns) /\ conns'[i] = c /\ DOMAIN conns' = DOMAIN conns
       /\ \A j \in DOMAIN conns : j # i => conns'[j] = conns[j]
  BY <1>1, <1>4, <1>13, <1>18, <1>22 DEF Types
<1>24. Pair' = Pair /\ ends' = ends BY <1>2, PairStays
<1>25. conns' # <<>> BY <1>4, <1>11, <1>23
<1>26. Types'
  <2>1. Placed' BY <1>10, <1>13, <1>23, <1>24, <1>25 DEF Placed
  <2> QED BY <1>1, <1>2, <1>23, <1>24, <2>1 DEF Types
<1>27. InOrder(use)' BY <1>1, <1>2 DEF InOrder
<1>28. Parted'
  <2>1. UsesToldApart' BY <1>1, <1>2, <1>23 DEF Parted, UsesToldApart
  <2> QED BY <1>1, <1>2, <2>1 DEF Parted
<1>29. Marked' BY <1>1, <1>2 DEF Marked
<1>30. /\ c.client = d.client /\ c.server = d.server /\ c.fin = d.fin /\ c.rst = d.rst /\ c.last = d.last
       /\ \A g, u : /\ Right(c, g) <=> Right(d, g)
                    /\ Counted(c, g) <=> Counted(d, g)
                    /\ Follows(c, g, u) <=> Follows(d, g, u)
                    /\ Complete(c, g, u) <=> Complete(d, g, u)
  <2>1. ASSUME NEW g, NEW u
        PROVE  /\ c.client = d.client /\ c.server = d.server /\ c.fin = d.fin /\ c.rst = d.rst /\ c.last = d.last
               /\ Right(c, g) <=> Right(d, g)
               /\ Counted(c, g) <=> Counted(d, g)
               /\ Follows(c, g, u) <=> Follows(d, g, u)
               /\ Complete(c, g, u) <=> Complete(d, g, u)
    BY <1>36, <1>17, AgeIsNothing
  <2> QED BY <2>1
<1>31. PICK g : g = seen[i] /\ g = seen[Len(seen)] BY <1>4, <1>13
<1>32. ASSUME NEW j \in DOMAIN conns' PROVE Told(conns[j], seen[j])'
  <2>1. CASE j = i
    <3>1. Told(d, g) BY <1>5, <1>13, <1>15, <1>31
    <3>2. Told(c, g) BY <1>30, <3>1 DEF Told
    <3> QED BY <1>2, <1>23, <1>24, <1>31, <2>1, <3>2, ToldStays
  <2>2. CASE j # i
    <3>1. PICK e, f : e = conns[j] /\ f = seen[j] OBVIOUS
    <3>2. Told(e, f) BY <1>23, <3>1 DEF IInv
    <3>3. conns'[j] = e /\ seen'[j] = f BY <1>2, <1>23, <2>2, <3>1
    <3> QED BY <1>24, <3>2, <3>3, ToldStays
  <2> QED BY <2>1, <2>2
<1>33. Live(conns[Len(conns)], seen[Len(seen)], use)'
  <2>1. PICK v : v = use OBVIOUS
  <2>2. Live(d, g, v) BY <1>4, <1>15, <1>31, <2>1 DEF IInv
  <2>3. Live(c, g, v) BY <1>30, <2>2 DEF Live
  <2>4. Live(conns[i], seen[i], use)' BY <1>2, <1>23, <1>24, <1>31, <2>1, <2>3, LiveStays
  <2>5. Len(conns') = i /\ Len(seen') = i BY <1>2, <1>4, <1>13, <1>23
  <2> QED BY <2>4, <2>5
<1> QED BY <1>26, <1>27, <1>28, <1>29, <1>32, <1>33 DEF IInv

LEMMA MessageKeeps ==
    ASSUME IInv, Message
    PROVE  IInv'
<1>1. Types /\ InOrder(use) /\ Parted /\ Marked BY DEF IInv
<1>2. /\ ends' = ends /\ use' = use /\ open' = open /\ conns' = conns /\ seen' = seen
      /\ \/ /\ \E i \in DOMAIN seen : seen[i].bytes["server"] # {}
            /\ marks' = [marks EXCEPT !.locked = @ \cup {PairOf(ends.server, ends.client)}]
         \/ marks' = [marks EXCEPT !.worlds = @ \cup {ends.server}]
  BY DEF Message
<1>3. Pair' = Pair BY <1>2, PairStays
<1>4. PairOf(ends.server, ends.client) = Pair BY <1>1, PairSame DEF Types, Pair
<1>5. marks \in [locked : SUBSET {Pair}, worlds : SUBSET {ends.server}]
  BY <1>1 DEF Types
<1>6. /\ marks' \in [locked : SUBSET {Pair}, worlds : SUBSET {ends.server}]
      /\ marks'.locked # {} => marks.locked # {} \/ \E i \in DOMAIN seen : seen[i].bytes["server"] # {}
  BY <1>2, <1>4, <1>5
<1>7. Types'
  <2>1. Placed' BY <1>1, <1>2, <1>3 DEF Placed, Types
  <2> QED BY <1>1, <1>2, <1>3, <1>6, <2>1 DEF Types
<1>8. Parted'
  <2>1. UsesToldApart' BY <1>1, <1>2 DEF Parted, UsesToldApart
  <2> QED BY <1>1, <1>2, <2>1 DEF Parted
<1>9. Marked' BY <1>1, <1>2, <1>6 DEF Marked
<1>10. ASSUME NEW j \in DOMAIN conns' PROVE Told(conns[j], seen[j])'
  <2>1. PICK d, g : d = conns[j] /\ g = seen[j] OBVIOUS
  <2>2. Told(d, g) BY <1>2, <2>1 DEF IInv
  <2> QED BY <1>2, <2>1, <2>2, ToldStays
<1>11. ASSUME conns # <<>> PROVE Live(conns[Len(conns)], seen[Len(seen)], use)'
  <2>1. PICK d, g, j, v : d = conns[j] /\ g = seen[j] /\ j = Len(conns) /\ j = Len(seen) /\ v = use
    BY <1>1 DEF Types
  <2>2. Live(d, g, v) BY <1>11, <2>1 DEF IInv
  <2>3. Live(conns[j], seen[j], use)' BY <1>2, <2>1, <2>2, LiveStays
  <2> QED BY <1>2, <2>1, <2>3
<1>12. InOrder(use)' BY <1>1, <1>2 DEF InOrder
<1> QED BY <1>2, <1>7, <1>8, <1>9, <1>10, <1>11, <1>12 DEF IInv

\* A connection of which nothing was sent yet.
LEMMA UnusedIs ==
    ASSUME NEW k \in Nat, NEW c \in StartSeqs, NEW v \in StartSeqs,
           NEW u, u = Unused(k, [x \in Sides |-> IF x = "client" THEN c ELSE v])
    PROVE  u \in AUse /\ u.k = k /\ u.whole /\ u.first = "none" /\ InOrder(u)
<1> DEFINE iss == [x \in Sides |-> IF x = "client" THEN c ELSE v]
           sent == [x \in Sides |-> 0]
<1>1. iss \in [Sides -> Seqs] /\ sent \in [Sides -> 0 .. N] /\ (\A x \in Sides : sent[x] = 0) BY Window
<1>2. u = [k |-> k, iss |-> iss, sent |-> sent, syns |-> 0, accepts |-> 0, acked |-> FALSE,
           fin |-> {}, reset |-> {}, whole |-> TRUE, first |-> "none", packets |-> 0]
  BY DEF Unused
<1> HIDE DEF iss, sent
<1>3. u \in AUse
  <2> DEFINE firsts == Firsts
             none == "none"
             nobody == {}
             sides == SUBSET Sides
  <2>1. none \in firsts /\ nobody \in sides /\ 0 \in Nat /\ TRUE \in BOOLEAN /\ FALSE \in BOOLEAN BY DEF Firsts
  <2>2. AUse = [k : Nat, iss : [Sides -> Seqs], sent : [Sides -> 0 .. N], syns : Nat, accepts : Nat, acked : BOOLEAN,
                fin : sides, reset : sides, whole : BOOLEAN, first : firsts, packets : Nat]
    BY DEF AUse
  <2>3. u = [k |-> k, iss |-> iss, sent |-> sent, syns |-> 0, accepts |-> 0, acked |-> FALSE,
             fin |-> nobody, reset |-> nobody, whole |-> TRUE, first |-> none, packets |-> 0]
    BY <1>2
  <2> HIDE DEF firsts, none, nobody, sides
  <2>4. /\ u.k = k /\ u.iss = iss /\ u.sent = sent /\ u.syns = 0 /\ u.accepts = 0 /\ u.acked = FALSE
        /\ u.fin = nobody /\ u.reset = nobody /\ u.whole = TRUE /\ u.first = none /\ u.packets = 0
    BY <2>3
  <2>5. /\ u.k \in Nat /\ u.iss \in [Sides -> Seqs] /\ u.sent \in [Sides -> 0 .. N] /\ u.syns \in Nat
        /\ u.accepts \in Nat /\ u.acked \in BOOLEAN /\ u.fin \in sides /\ u.reset \in sides
        /\ u.whole \in BOOLEAN /\ u.first \in firsts /\ u.packets \in Nat
    BY <1>1, <2>1, <2>4
  <2>6. u = [k |-> u.k, iss |-> u.iss, sent |-> u.sent, syns |-> u.syns, accepts |-> u.accepts, acked |-> u.acked,
             fin |-> u.fin, reset |-> u.reset, whole |-> u.whole, first |-> u.first, packets |-> u.packets]
    BY <2>3
  <2> QED BY <2>2, <2>5, <2>6
<1>4. InOrder(u) BY <1>1, <1>2 DEF InOrder
<1> QED BY <1>2, <1>3, <1>4

LEMMA ReuseKeeps ==
    ASSUME IInv, Reuse
    PROVE  IInv'
<1>1. Types /\ InOrder(use) /\ Parted /\ Marked BY DEF IInv
<1>2. ends' = ends /\ marks' = marks /\ open' = open /\ conns' = conns /\ seen' = seen BY DEF Reuse
<1>3. use.k \in Nat BY <1>1 DEF Types, AUse
<1>4. PICK c \in StartSeqs, v \in StartSeqs :
        use' = Unused(use.k + 1, [x \in Sides |-> IF x = "client" THEN c ELSE v])
  BY DEF Reuse
<1>5. PICK u, k : u = use' /\ k = use.k + 1 OBVIOUS
<1>6. k \in Nat /\ u = Unused(k, [x \in Sides |-> IF x = "client" THEN c ELSE v]) BY <1>3, <1>4, <1>5
<1>7. u \in AUse /\ u.k = k /\ u.whole /\ u.first = "none" /\ InOrder(u) BY <1>6, UnusedIs
<1>8. Pair' = Pair BY <1>2, PairStays
<1>9. \A i \in DOMAIN seen : \A m \in seen[i].uses : m <= use.k /\ m \in Nat
  <2>1. ASSUME NEW i \in DOMAIN seen PROVE seen[i].uses \subseteq Nat
    <3>1. seen[i] \in AHistory BY <1>1 DEF Types
    <3> QED BY <3>1 DEF AHistory
  <2> QED BY <1>1, <2>1 DEF Parted
<1>10. \A i \in DOMAIN seen : \A m \in seen[i].uses : m <= k /\ m # k BY <1>3, <1>5, <1>9
<1>11. Types'
  <2>1. Placed' BY <1>1, <1>2, <1>8 DEF Placed, Types
  <2> QED BY <1>1, <1>2, <1>5, <1>7, <1>8, <2>1 DEF Types
<1>12. InOrder(use)' BY <1>5, <1>7 DEF InOrder
<1>13. Parted'
  <2>1. UsesToldApart' BY <1>1, <1>2 DEF Parted, UsesToldApart
  <2>2. ASSUME NEW i \in DOMAIN seen PROVE seen[i].opens \subseteq seen[i].uses
    <3>1. i \in DOMAIN conns BY <1>1 DEF Types
    <3>2. Told(conns[i], seen[i]) BY <3>1 DEF IInv
    <3> QED BY <3>2 DEF Told
  <2>3. use'.k = k /\ use'.first = "none" BY <1>5, <1>7
  <2> QED BY <1>2, <1>10, <2>1, <2>2, <2>3 DEF Parted
<1>14. Marked' BY <1>1, <1>2 DEF Marked
<1>15. ASSUME NEW j \in DOMAIN conns' PROVE Told(conns[j], seen[j])'
  <2>1. PICK d, g : d = conns[j] /\ g = seen[j] OBVIOUS
  <2>2. Told(d, g) BY <1>2, <2>1 DEF IInv
  <2> QED BY <1>2, <2>1, <2>2, ToldStays
<1>16. ASSUME conns # <<>> PROVE Live(conns[Len(conns)], seen[Len(seen)], use)'
  <2>1. PICK d, g, j : d = conns[j] /\ g = seen[j] /\ j = Len(conns) /\ j = Len(seen) BY <1>1 DEF Types
  <2>2. j \in DOMAIN seen BY <1>1, <1>16, <2>1, PresentIs DEF Types
  <2>3. k \notin g.uses BY <1>10, <2>1, <2>2
  <2>4. Live(d, g, u) BY <1>7, <2>3 DEF Live
  <2>5. Live(conns[j], seen[j], use)' BY <1>2, <1>5, <2>1, <2>4, LiveStays
  <2> QED BY <1>2, <2>1, <2>5
<1> QED BY <1>2, <1>11, <1>12, <1>13, <1>14, <1>15, <1>16 DEF IInv

LEMMA InitIInv == Init => IInv
<1> SUFFICES ASSUME Init PROVE IInv OBVIOUS
<1>1. /\ open = <<>> /\ conns = <<>> /\ seen = <<>> /\ marks = [locked |-> {}, worlds |-> {}]
      /\ \E e \in Ends : ends = [client |-> e[1], server |-> e[2]]
      /\ \E c \in StartSeqs, v \in StartSeqs :
           use = Unused(1, [x \in Sides |-> IF x = "client" THEN c ELSE v])
  BY DEF Init
<1>2. PICK e \in Ends : ends = [client |-> e[1], server |-> e[2]] BY <1>1
<1>3. ends \in [client : Endpoint, server : Endpoint] /\ ends.client # ends.server
  BY <1>2, ConnsAssumption DEF Endpoint
<1>4. PICK c \in StartSeqs, v \in StartSeqs : use = Unused(1, [x \in Sides |-> IF x = "client" THEN c ELSE v])
  BY <1>1
<1>5. use \in AUse /\ use.first = "none" /\ InOrder(use) BY <1>4, UnusedIs
<1>6. DOMAIN conns = {} /\ DOMAIN seen = {} /\ conns \in Seq(AConn) /\ seen \in Seq(AHistory) BY <1>1, EmptySeq
<1>7. Types BY <1>1, <1>3, <1>5, <1>6 DEF Types, Placed
<1>8. Parted BY <1>5, <1>6 DEF Parted, UsesToldApart
<1>9. Marked BY <1>1 DEF Marked
<1> QED BY <1>1, <1>5, <1>6, <1>7, <1>8, <1>9 DEF IInv

LEMMA StutterKeeps ==
    ASSUME IInv, UNCHANGED vars
    PROVE  IInv'
<1>1. ends' = ends /\ use' = use /\ open' = open /\ conns' = conns /\ marks' = marks /\ seen' = seen BY DEF vars
<1>2. Types' BY <1>1 DEF IInv, Types, Placed, Pair
<1>3. Parted' BY <1>1 DEF IInv, Parted, UsesToldApart
<1>4. Marked' BY <1>1 DEF IInv, Marked
<1>5. InOrder(use)' BY <1>1 DEF IInv, InOrder
<1>6. ASSUME NEW j \in DOMAIN conns' PROVE Told(conns[j], seen[j])'
  <2>1. PICK d, g : d = conns[j] /\ g = seen[j] OBVIOUS
  <2>2. Told(d, g) BY <1>1, <2>1 DEF IInv
  <2> QED BY <1>1, <2>1, <2>2, ToldStays
<1>7. ASSUME conns # <<>> PROVE Live(conns[Len(conns)], seen[Len(seen)], use)'
  <2>1. PICK d, g, j, v : d = conns[j] /\ g = seen[j] /\ j = Len(conns) /\ j = Len(seen) /\ v = use
    BY DEF IInv, Types
  <2>2. Live(d, g, v) BY <1>7, <2>1 DEF IInv
  <2>3. Live(conns[j], seen[j], use)' BY <1>1, <2>1, <2>2, LiveStays
  <2> QED BY <1>1, <2>1, <2>3
<1> QED BY <1>1, <1>2, <1>3, <1>4, <1>5, <1>6, <1>7 DEF IInv

LEMMA NextIInv == IInv /\ [Next]_vars => IInv'
<1> SUFFICES ASSUME IInv, [Next]_vars PROVE IInv' OBVIOUS
<1>1. CASE Connect \/ Accept \/ Answer \/ \E side \in Sides : Data(side) \/ Close(side) \/ Reset(side)
  <2>1. Types BY DEF IInv
  <2>2. PICK u, side, s : Said(u, side, s) /\ Send(u, side, s) BY <1>1, <2>1, HostsSay
  <2>3. CASE use' = [u EXCEPT !.whole = FALSE, !.packets = @ + 1] /\ UNCHANGED <<ends, open, conns, marks, seen>>
    BY <2>2, <2>3, LostKeeps
  <2>4. CASE UNCHANGED <<ends, marks>> /\ Hears(u, s)
             /\ \E c, h, i : Takes(c, h, i, s) /\ Puts(Tallied(c, s), Witnessed(h, u, side, s), i)
    BY <2>2, <2>4, CapturedKeeps
  <2> QED BY <2>1, <2>2, <2>3, <2>4, HeardIs
<1>2. CASE LoggedTwice BY <1>2, LoggedKeeps
<1>3. CASE Message BY <1>3, MessageKeeps
<1>4. CASE Reuse BY <1>4, ReuseKeeps
<1>5. CASE UNCHANGED vars BY <1>5, StutterKeeps
<1> QED BY <1>1, <1>2, <1>3, <1>4, <1>5 DEF Next

LEMMA Invariant == Spec => []IInv
BY InitIInv, NextIInv, PTL DEF Spec

-----------------------------------------------------------------------------
\* What is said of the connections.

\* All of a conn that Clear names is of one connection.
LEMMA ClearIs ==
    ASSUME IInv, NEW i \in DOMAIN conns, Clear(i)
    PROVE  Right(conns[i], seen[i]) /\ Counted(conns[i], seen[i])
<1>1. Types /\ Parted /\ Told(conns[i], seen[i]) BY DEF IInv
<1>2. seen[i] \in AHistory /\ i \in DOMAIN seen /\ use.k \in Nat BY <1>1 DEF Types, AUse
<1>3. seen[i].uses \in SUBSET Nat BY <1>2 DEF AHistory
<1>4. \A k \in seen[i].uses : k <= use.k BY <1>1, <1>2 DEF Parted
<1>5. PICK uses, m : uses = seen[i].uses /\ m = use.k OBVIOUS
<1>6. uses \in SUBSET Nat /\ m \in Nat /\ \A k \in uses : k <= m BY <1>2, <1>3, <1>4, <1>5
<1>7. IsFiniteSet(uses) BY <1>6, FS_BoundedSetOfNaturals
<1>8. Cardinality(uses) = 1 BY <1>5 DEF Clear
<1>9. \E x : uses = {x} BY <1>7, <1>8, FS_Singleton
<1>10. Right(conns[i], seen[i]) BY <1>5, <1>9 DEF Right, Clear
<1> QED BY <1>1, <1>10 DEF Told

\* What was captured of a conn is finite.
LEMMA NewsFinite ==
    ASSUME NEW h \in AHistory, NEW x \in Sides
    PROVE  IsFiniteSet(News(h, x))
<1>1. News(h, x) \subseteq 0 .. N BY DEF AHistory, News
<1>2. IsFiniteSet(0 .. N) BY Window, FS_Interval
<1> QED BY <1>1, <1>2, FS_Subset

LEMMA IInvTypeOK == IInv => TypeOK
<1> SUFFICES ASSUME IInv PROVE TypeOK OBVIOUS
<1>1. Types BY DEF IInv
<1>2. \A k \in DOMAIN open : open[k] \in DOMAIN conns
  <2>1. CASE conns = <<>> BY <1>1, <2>1, PresentIs
  <2>2. CASE conns # <<>> BY <1>1, <2>2, PresentIs
  <2> QED BY <2>1, <2>2
<1>3. ASSUME NEW i \in DOMAIN conns
      PROVE  /\ {conns[i].client, conns[i].server} = {ends.client, ends.server}
             /\ {conns[i].syn, conns[i].synack, conns[i].sent, conns[i].received} \subseteq Nat
             /\ conns[i].age \in 0 .. CopyGap
  <2>1. conns[i] \in AConn BY <1>1 DEF Types
  <2>2. Told(conns[i], seen[i]) BY DEF IInv
  <2> QED BY <2>1, <2>2 DEF AConn, Told
<1> QED BY <1>1, <1>2, <1>3 DEF TypeOK, Types

LEMMA IInvCounts == IInv => BytesCountedOnce /\ CopiesNotCounted
<1> SUFFICES ASSUME IInv, NEW i \in DOMAIN conns, Clear(i)
             PROVE  /\ conns[i].sent = Cardinality(seen[i].bytes["client"] \ seen[i].late["client"])
                    /\ conns[i].received = Cardinality(seen[i].bytes["server"] \ seen[i].late["server"])
                    /\ conns[i].syn = seen[i].syns
  BY DEF BytesCountedOnce, CopiesNotCounted
<1>1. Counted(conns[i], seen[i]) BY ClearIs
<1>2. "client" \in Sides /\ "server" \in Sides /\ "server" # "client" BY DEF Sides
<1> QED BY <1>1, <1>2 DEF Counted, TallyOf, News

LEMMA IInvTalked == IInv => TalkedNeverFails
<1> SUFFICES ASSUME IInv, NEW i \in DOMAIN conns, Clear(i),
                    seen[i].bytes["client"] # {}, seen[i].bytes["server"] # {},
                    seen[i].syns > 0 => seen[i].synacked # {}, Failed(conns[i])
             PROVE  conns[i].rst
  BY DEF TalkedNeverFails
<1>1. PICK c, h : c = conns[i] /\ h = seen[i] OBVIOUS
<1>2. c \in AConn /\ h \in AHistory BY <1>1 DEF IInv, Types
<1>3. Counted(c, h) BY <1>1, ClearIs
<1>4. "client" \in Sides /\ "server" \in Sides /\ "server" # "client" BY DEF Sides
<1>5. c.received = Cardinality(News(h, "server")) /\ News(h, "server") # {}
  BY <1>1, <1>3, <1>4 DEF Counted, TallyOf
<1>6. c.received # 0 BY <1>2, <1>4, <1>5, NewsFinite, FS_EmptySet
<1>7. c.syn > 0 => c.synack > 0 BY <1>1, <1>3 DEF Counted
<1>8. c.synack > 0 => c.acked BY <1>1, <1>3 DEF Counted
<1>9. c.syn \in Nat /\ c.synack \in Nat BY <1>2 DEF AConn
<1>10. Status(c) \in {"no answer", "refused", "half open", "silent", "reset"} BY <1>1 DEF Failed
<1>11. Status(c) # "silent" /\ Status(c) # "no answer" /\ Status(c) # "refused" /\ Status(c) # "half open"
  BY <1>6, <1>7, <1>8, <1>9 DEF Status
<1>12. Status(c) = "reset" BY <1>10, <1>11
<1>13. c.rst BY <1>12 DEF Status
<1> QED BY <1>1, <1>13

LEMMA IInvFate == IInv => StatusIsTheFate
<1> SUFFICES ASSUME IInv, open # <<>>, use.whole, seen[Present].uses = {use.k}
             PROVE  Status(conns[Present]) = Fate(use)
  BY DEF StatusIsTheFate
<1>1. Types /\ InOrder(use) /\ Parted BY DEF IInv
<1>2. PICK c, h, i, u : i = Present /\ c = conns[i] /\ h = seen[i] /\ u = use OBVIOUS
<1>3. /\ conns # <<>> /\ i = Len(conns) /\ i = Len(seen) /\ i \in DOMAIN conns /\ i \in DOMAIN seen
      /\ c \in AConn /\ h \in AHistory
  BY <1>1, <1>2, PresentIs DEF Types
<1>4. Told(c, h) /\ Live(c, h, u) BY <1>2, <1>3 DEF IInv
<1>5. h.uses = {u.k} /\ u.whole BY <1>2
<1>6. Complete(c, h, u) BY <1>4, <1>5 DEF Live
<1>7. Right(c, h) BY <1>5, <1>6 DEF Complete, Right
<1>8. Counted(c, h) BY <1>4, <1>7 DEF Told
<1>9. "client" \in Sides /\ "server" \in Sides /\ "server" # "client" BY DEF Sides
<1>10. u \in AUse /\ u.accepts \in Nat /\ u.syns \in Nat /\ \A x \in Sides : u.sent[x] \in Nat
  BY <1>1, <1>2, Window DEF Types, AUse
<1>11. ASSUME NEW x \in Sides PROVE TallyOf(c, x) = u.sent[x]
  <2>1. News(h, x) = 0 .. u.sent[x] - 1 BY <1>6 DEF Complete, News
  <2>2. TallyOf(c, x) = Cardinality(News(h, x)) BY <1>8 DEF Counted
  <2>3. PICK n : n = u.sent[x] OBVIOUS
  <2>4. n \in Nat BY <1>10, <2>3
  <2>5. Cardinality(0 .. n - 1) = IF 0 > n - 1 THEN 0 ELSE n - 1 - 0 + 1 BY <2>4, FS_Interval
  <2>6. Cardinality(0 .. n - 1) = n BY <2>4, <2>5
  <2> QED BY <2>1, <2>2, <2>3, <2>6
<1>12. c.sent = u.sent["client"] /\ c.received = u.sent["server"] BY <1>9, <1>11 DEF TallyOf
<1>13. u.syns > 0
  <2>1. use.first # "none" BY <1>1, <1>2, <1>3, <1>5 DEF Parted
  <2> QED BY <1>1, <1>2, <1>5, <1>10, <2>1 DEF InOrder
<1>14. /\ c.syn = u.syns /\ c.synack = u.accepts /\ (c.fin <=> u.fin # {}) /\ (c.rst <=> u.reset # {})
       /\ (u.reset = {} => (c.acked <=> u.acked))
       /\ (c.refused <=> u.accepts = 0 /\ u.reset # {})
  BY <1>6 DEF Complete
<1>15. CASE u.accepts = 0
  <2>1. ~u.acked /\ u.fin = {} /\ "client" \notin u.reset BY <1>1, <1>2, <1>15 DEF InOrder
  <2>2. u.reset # {} <=> "server" \in u.reset BY <1>10, <2>1 DEF AUse, Sides
  <2>3. Status(c) = IF u.reset # {} THEN "refused" ELSE "no answer" 
    <3>1. c.syn > 0 /\ c.synack = 0 /\ ~c.fin /\ ~(c.synack > 0) BY <1>13, <1>14, <1>15, <2>1
    <3>2. c.refused <=> u.reset # {} BY <1>14, <1>15
    <3>3. Status(c) = IF c.refused THEN "refused" ELSE "no answer" BY <3>1 DEF Status
    <3> QED BY <3>2, <3>3
  <2>4. Fate(u) = IF "server" \in u.reset THEN "refused" ELSE "no answer" BY <1>15 DEF Fate
  <2> QED BY <1>2, <2>2, <2>3, <2>4
<1>16. CASE u.accepts # 0
  <2>1. u.accepts > 0 BY <1>10, <1>16
  <2>2. Status(c) = IF u.sent["client"] > 0 /\ u.sent["server"] = 0 THEN "silent"
                    ELSE IF u.fin # {} THEN "closed"
                    ELSE IF u.reset # {} THEN "reset"
                    ELSE IF u.acked THEN "open" ELSE "half open"
    BY <1>12, <1>14, <1>16, <2>1 DEF Status
  <2>3. Fate(u) = IF u.sent["client"] > 0 /\ u.sent["server"] = 0 THEN "silent"
                  ELSE IF u.fin # {} THEN "closed"
                  ELSE IF u.reset # {} THEN "reset"
                  ELSE IF u.acked THEN "open" ELSE "half open"
    BY <1>16 DEF Fate
  <2> QED BY <1>2, <2>2, <2>3
<1> QED BY <1>15, <1>16

LEMMA IInvGame == IInv => GameIsListed
<1> SUFFICES ASSUME IInv PROVE GameIsListed OBVIOUS
<1>1. Types /\ Marked BY DEF IInv
<1>2. /\ ends.client \in Endpoint /\ ends.server \in Endpoint /\ ends.client # ends.server
      /\ marks.locked \subseteq {Pair} /\ marks.worlds \subseteq {ends.server} /\ DOMAIN seen = DOMAIN conns
  BY <1>1 DEF Types
<1>3. \A i \in DOMAIN conns : {conns[i].client, conns[i].server} = {ends.client, ends.server} BY DEF IInv, Told
<1>4. ASSUME marks.locked # {} PROVE \E i \in DOMAIN conns : Game(conns[i]) /\ seen[i].bytes["server"] # {}
  <2>1. Pair \in marks.locked BY <1>2, <1>4
  <2>2. PICK i \in DOMAIN conns : seen[i].bytes["server"] # {} BY <1>1, <1>2, <1>4 DEF Marked
  <2>3. PairOf(ends.client, ends.server) = PairOf(ends.server, ends.client) BY <1>2, PairSame
  <2>4. \/ conns[i].client = ends.client /\ conns[i].server = ends.server
        \/ conns[i].client = ends.server /\ conns[i].server = ends.client
    BY <1>2, <1>3
  <2>5. PairOf(conns[i].client, conns[i].server) = Pair BY <2>3, <2>4 DEF Pair
  <2> QED BY <2>1, <2>2, <2>5 DEF Game
<1>5. ASSUME marks.worlds # {}, NEW i \in DOMAIN conns, Clear(i) PROVE Game(conns[i])
  <2>1. ends.server \in marks.worlds BY <1>2, <1>5
  <2>2. conns[i].client = ends.client BY <1>5 DEF Clear
  <2>3. conns[i].server = ends.server BY <1>2, <1>3, <2>2
  <2> QED BY <2>1, <2>3 DEF Game
<1> QED BY <1>4, <1>5 DEF GameIsListed

\* What a conn has for sent and received is the bytes captured, each once, whatever was sent again,
\* cut anew or logged twice and wherever the numbers wrap; its SYNs likewise; and no connection
\* that carried bytes of both sides has failed but by a reset (advance, tally, status).
THEOREM CountsAreTheHosts == Spec => []BytesAreTheHosts
<1>1. IInv => BytesAreTheHosts BY IInvTypeOK, IInvCounts, IInvTalked DEF BytesAreTheHosts
<1> QED BY <1>1, Invariant, PTL

\* Connections that use the same ports one after another are told apart, one captured whole has
\* the status of what became of it, and the game's is listed as the game's (tally, connections).
THEOREM ConnectionsAreTold == Spec => []FatesAreTold
<1>1. IInv => UsesToldApart BY DEF IInv, Parted
<1>2. IInv => FatesAreTold BY <1>1, IInvFate, IInvGame DEF FatesAreTold
<1> QED BY <1>2, Invariant, PTL

-----------------------------------------------------------------------------
\* The trace: what its state holds.

Kinds == {"Hit", "Cast", "CastEnd", "Spawn", "Player", "Kill", "Death", "Move", "none"}
MetaNames == {"process_name", "thread_name", "thread_sort_index"}
OpTracks == Kinds \X BOOLEAN

AnEvent == [ph : {"i", "X", "M"}, what : Kinds \cup MetaNames, pid : {"opcode", "entity"},
            tid : Nat \cup OpTracks, of : Nat, ts : Int, dur : Int]

\* No two of s are the same.
Distinct(s) == \A i, j \in DOMAIN s : s[i] = s[j] => i = j

TraceTypes ==
    /\ added \in Seq([m : AMessage, time : Nat])
    /\ out \in Seq(AnEvent)
    /\ ops \subseteq OpTracks /\ IsFiniteSet(ops)
    /\ entities \in Seq(Nat) /\ Distinct(entities)
    /\ named \subseteq Range(entities)
    /\ ended \in BOOLEAN
    /\ IsFiniteSet(DOMAIN casts)

\* The instant that the n-th message is, a Cast.
TheInstant(n) == Instant("Cast", "entity", added[n].m.actor, n, added[n].time - added[1].time)

\* The messages of the same actor and skill after it, and the first of them.
Following(n) ==
    {j \in DOMAIN added : /\ j > n /\ added[j].m.kind \in {"Cast", "CastEnd"}
                          /\ Key(added[j].m) = Key(added[n].m)}
FirstOf(n, d) == d \in Following(n) /\ \A j \in Following(n) : d <= j

\* What it is written as when the d-th decides it.
WrittenAs(n, d) ==
    IF IsCast(d) THEN TheInstant(n) ELSE Slice(TheInstant(n), added[d].time - added[1].time)

\* It is written once, as e.
OnlyEvent(n, e) == \E i \in DOMAIN out : EventsOf(n) = {i} /\ out[i] = e

\* What is kept is of Casts with nothing after them.
KeptAre ==
    \A k \in DOMAIN casts : \E n \in DOMAIN added :
        IsCast(n) /\ Key(added[n].m) = k /\ Following(n) = {} /\ casts[k] = TheInstant(n)

\* The n-th message, a Cast, has nothing after it, and is written with the end of the trace.
WaitsFor(n) ==
    /\ Following(n) = {} /\ Key(added[n].m) \in DOMAIN casts /\ casts[Key(added[n].m)] = TheInstant(n)
    /\ IF ended THEN OnlyEvent(n, TheInstant(n)) ELSE EventsOf(n) = {}
\* Or it was written for the first that came after it.
IsDecided(n) == \E d \in Nat : FirstOf(n, d) /\ OnlyEvent(n, WrittenAs(n, d))

Fates == \A n \in DOMAIN added : IsCast(n) => WaitsFor(n) \/ IsDecided(n)

\* What is written is of a message, and on a track that is open.
OnTracks ==
    /\ \A i \in DOMAIN out : out[i].pid = "entity" /\ out[i].what = "Cast" => out[i].of \in DOMAIN added
    /\ \A i \in DOMAIN out : out[i].ph # "M" =>
        IF out[i].pid = "opcode" THEN out[i].tid \in ops ELSE out[i].tid \in Range(entities)
    /\ ~ended => \A i \in DOMAIN out : out[i].ph # "M" /\ out[i].what \in Kinds
    /\ \A k \in DOMAIN casts : casts[k].tid \in Range(entities)

TraceIInv == TraceTypes /\ KeptAre /\ Fates /\ OnTracks /\ TracksAreNamed

-----------------------------------------------------------------------------
\* Sequences: what is appended, what is listed of a set, and the tracks opened.

LEMMA ElementIs == ASSUME NEW S, NEW s \in Seq(S), NEW i \in DOMAIN s PROVE s[i] \in S
OBVIOUS

LEMMA IsSequence == ASSUME NEW S, NEW n \in Nat, NEW s \in [1 .. n -> S] PROVE s \in Seq(S) /\ Len(s) = n
OBVIOUS

Joined(u, s, t) ==
    /\ Len(u) = Len(s) + Len(t)
    /\ \A i \in 1 .. Len(s) : u[i] = s[i]
    /\ \A i \in 1 .. Len(t) : u[Len(s) + i] = t[i]

LEMMA Joins == ASSUME NEW S, NEW s \in Seq(S), NEW t \in Seq(S) PROVE s \o t \in Seq(S) /\ Joined(s \o t, s, t)
BY DEF Joined

LEMMA ListsAre ==
    ASSUME NEW S, IsFiniteSet(S), NEW s \in SetToSeqs(S)
    PROVE  /\ s \in Seq(S) /\ Len(s) = Cardinality(S) /\ Distinct(s)
           /\ \A x \in S : \E i \in 1 .. Len(s) : s[i] = x
<1> DEFINE D == 1 .. Cardinality(S)
<1>1. Cardinality(S) \in Nat BY FS_CardinalityType
<1>2. s \in [D -> S] /\ \A i, j \in D : i # j => s[i] # s[j] BY DEF SetToSeqs
<1>3. s \in Injection(D, S) BY <1>2 DEF Injection, IsInjective
<1>4. Cardinality(D) = Cardinality(S) BY <1>1, FS_Interval
<1>5. s \in Surjection(D, S) BY <1>3, <1>4, FS_Injection
<1>6. \A x \in S : \E i \in D : s[i] = x BY <1>5 DEF Surjection
<1>7. s \in Seq(S) /\ Len(s) = Cardinality(S) BY <1>1, <1>2
<1> QED BY <1>2, <1>6, <1>7 DEF Distinct

LEMMA SomeList == ASSUME NEW S, IsFiniteSet(S) PROVE SetToSeq(S) \in SetToSeqs(S)
<1> DEFINE D == 1 .. Cardinality(S)
<1>1. PICK f \in [D -> S] : IsInjective(f)
  BY FS_CardinalityType DEF ExistsBijection, Bijection, Injection
<1>2. SetToSeq(S) \in [D -> S] /\ IsInjective(SetToSeq(S)) BY <1>1 DEF SetToSeq
<1> QED BY <1>2 DEF IsInjective, SetToSeqs

\* A track more is opened once.
LEMMA OpenIs ==
    ASSUME NEW t \in Seq(Nat), Distinct(t), NEW id \in Nat
    PROVE  /\ Open(t, id) \in Seq(Nat) /\ Distinct(Open(t, id))
           /\ Range(Open(t, id)) = Range(t) \cup {id}
<1>1. CASE id \in Range(t) BY <1>1 DEF Open
<1>2. CASE id \notin Range(t)
  <2>1. Open(t, id) = Append(t, id) BY <1>2 DEF Open
  <2>2. DOMAIN Append(t, id) = 1 .. Len(t) + 1 /\ DOMAIN t = 1 .. Len(t) OBVIOUS
  <2>3. \A i \in 1 .. Len(t) : Append(t, id)[i] = t[i] OBVIOUS
  <2>4. Append(t, id)[Len(t) + 1] = id OBVIOUS
  <2>5. \A i \in 1 .. Len(t) : t[i] # id BY <1>2, <2>2 DEF Range
  <2>6. Distinct(Append(t, id)) BY <2>2, <2>3, <2>4, <2>5 DEF Distinct
  <2>7. Range(Append(t, id)) = Range(t) \cup {id} BY <2>2, <2>3, <2>4 DEF Range
  <2> QED BY <2>1, <2>6, <2>7
<1> QED BY <1>1, <1>2

LEMMA OpenedIs ==
    ASSUME NEW tracks \in Seq(Nat), Distinct(tracks), NEW ids \in Seq(Nat)
    PROVE  /\ Opened(tracks, ids) \in Seq(Nat) /\ Distinct(Opened(tracks, ids))
           /\ Range(Opened(tracks, ids)) = Range(tracks) \cup Range(ids)
<1> DEFINE V == {t \in Seq(Nat) : Distinct(t)}
           n == Len(ids)
           step == [i \in Nat |-> [t \in V |-> IF i \in 1 .. n THEN Open(t, ids[i]) ELSE t]]
           up == CHOOSE upto : upto = [i \in 0 .. n |-> IF i = 0 THEN tracks ELSE Open(upto[i - 1], ids[i])]
<1>1. n \in Nat /\ DOMAIN ids = 1 .. n /\ \A i \in 1 .. n : ids[i] \in Nat OBVIOUS
<1>2. \A t \in V, i \in 1 .. n : Open(t, ids[i]) \in V /\ Range(Open(t, ids[i])) = Range(t) \cup {ids[i]}
  BY <1>1, OpenIs
<1>3. tracks \in V OBVIOUS
<1>4. step \in [Nat -> [V -> V]]
  <2> HIDE DEF V
  <2> QED BY <1>2
<1> HIDE DEF V
<1> DEFINE f == Recursion(V, tracks, step)
<1>5. f \in [Nat -> V] /\ f[0] = tracks /\ \A i \in Nat \ {0} : f[i] = step[i][f[i - 1]]
  <2> HIDE DEF step
  <2>1. StepsAre(V, tracks, step, f) BY <1>3, <1>4, RecursionSteps
  <2> HIDE DEF f
  <2> QED BY <2>1 DEF StepsAre
<1> HIDE DEF f
<1>6. ASSUME NEW i \in 1 .. n PROVE f[i] = Open(f[i - 1], ids[i])
  <2>1. i \in Nat \ {0} /\ i - 1 \in Nat /\ f[i - 1] \in V BY <1>5
  <2> QED BY <1>5, <2>1
<1> DEFINE g == [i \in 0 .. n |-> f[i]]
<1>7. ASSUME NEW i \in 0 .. n PROVE g[i] = IF i = 0 THEN tracks ELSE Open(g[i - 1], ids[i])
  <2>1. CASE i = 0 BY <1>5, <2>1
  <2>2. CASE i # 0
    <3>1. i \in 1 .. n /\ i - 1 \in 0 .. n BY <1>1, <2>2
    <3> QED BY <1>6, <2>2, <3>1
  <2> QED BY <2>1, <2>2
<1>8. g = [i \in 0 .. n |-> IF i = 0 THEN tracks ELSE Open(g[i - 1], ids[i])] BY <1>7
<1>9. up = [i \in 0 .. n |-> IF i = 0 THEN tracks ELSE Open(up[i - 1], ids[i])]
  <2> HIDE DEF g
  <2> QED BY <1>8
<1>10. Opened(tracks, ids) = up[n] BY DEF Opened
<1> HIDE DEF up
<1> DEFINE Upto(i) == up[i] \in V /\ Range(up[i]) = Range(tracks) \cup {ids[j] : j \in 1 .. i}
           In == {i \in Nat : i <= n => Upto(i)}
<1>11. 0 \in In
  <2>1. up[0] = tracks BY <1>1, <1>9
  <2> QED BY <1>3, <2>1
<1>12. ASSUME NEW i \in Nat, i \in In PROVE i + 1 \in In
  <2>1. SUFFICES ASSUME i + 1 <= n PROVE Upto(i + 1) OBVIOUS
  <2>2. i + 1 \in 1 .. n /\ i + 1 \in 0 .. n /\ i + 1 # 0 /\ (i + 1) - 1 = i /\ i <= n BY <1>1, <2>1
  <2>3. up[i + 1] = Open(up[i], ids[i + 1]) BY <1>9, <2>2
  <2>4. up[i] \in V /\ Range(up[i]) = Range(tracks) \cup {ids[j] : j \in 1 .. i} BY <1>12, <2>2
  <2>5. up[i + 1] \in V /\ Range(up[i + 1]) = Range(up[i]) \cup {ids[i + 1]} BY <1>2, <2>2, <2>3, <2>4
  <2>6. {ids[j] : j \in 1 .. i + 1} = {ids[j] : j \in 1 .. i} \cup {ids[i + 1]}
    <3>1. 1 .. i + 1 = (1 .. i) \cup {i + 1} OBVIOUS
    <3> QED BY <3>1
  <2> QED BY <2>4, <2>5, <2>6
<1>13. Upto(n)
  <2>1. n \in In
    <3> HIDE DEF In
    <3> QED BY <1>1, <1>11, <1>12, EveryNatural
  <2> QED BY <1>1, <2>1
<1> QED BY <1>1, <1>10, <1>13 DEF V, Range

-----------------------------------------------------------------------------
\* What add writes of a message.

\* A Cast that is kept is an instant.
LEMMA KeptIs ==
    ASSUME TraceIInv, NEW k \in DOMAIN casts
    PROVE  /\ casts[k] \in AnEvent /\ casts[k].ph = "i" /\ casts[k].pid = "entity" /\ casts[k].what = "Cast"
           /\ casts[k].of \in DOMAIN added /\ casts[k].tid \in Range(entities)
<1>1. PICK n \in DOMAIN added : casts[k] = TheInstant(n) BY DEF TraceIInv, KeptAre
<1>2. added \in Seq([m : AMessage, time : Nat]) BY DEF TraceIInv, TraceTypes
<1>3. n \in Nat /\ added[n].m.actor \in Nat /\ added[n].time \in Nat /\ added[1].time \in Nat
  <2>1. DOMAIN added = 1 .. Len(added) /\ Len(added) \in Nat /\ 1 \in DOMAIN added BY <1>2
  <2>2. \A i \in DOMAIN added : added[i] \in [m : AMessage, time : Nat] BY <1>2, <2>1, ElementOfSeq
  <2> QED BY <2>1, <2>2 DEF AMessage
<1>4. casts[k].tid \in Range(entities) BY DEF TraceIInv, OnTracks
<1> QED BY <1>1, <1>2, <1>3, <1>4 DEF TheInstant, Instant, AnEvent, Kinds

Emitted(m, n, ts) == <<Instant(m.kind, "opcode", OpTrack(m), n, ts)>> \o Written(m, n, ts)

\* The Cast that m ends or is again.
EndedAs(m, ts) == IF m.kind = "Cast" THEN casts[Key(m)] ELSE Slice(casts[Key(m)], ts)
Decides(m) == m.kind \in {"Cast", "CastEnd"} /\ Key(m) \in DOMAIN casts

OneWritten(e, m, ts) ==
    /\ e \in AnEvent /\ e.ph # "M" /\ e.what \in Kinds
    /\ IF e.pid = "opcode" THEN e.tid = OpTrack(m) ELSE e.tid \in Range(entities) \cup Range(Opens(m))

LEMMA OpensAre == ASSUME NEW m \in AMessage PROVE Opens(m) \in Seq(Nat) /\ On(m) \in Seq(Nat) /\ Range(On(m)) \subseteq Range(Opens(m))
<1>1. m.actor \in Nat /\ m.other \in Nat BY DEF AMessage
<1>2. \/ On(m) = <<m.actor, m.other>> /\ m.kind = "Hit"
      \/ On(m) = <<m.other>> /\ m.kind \notin {"Hit", "Cast", "CastEnd"}
      \/ On(m) = <<>>
  BY DEF On
<1>3. \/ On(m) = <<>> /\ Opens(m) = <<m.actor>>
      \/ On(m) = <<m.other>> /\ Opens(m) = <<m.other, m.actor>>
      \/ Opens(m) = On(m)
  BY DEF Opens, On
<1>4. On(m) \in Seq(Nat) /\ Opens(m) \in Seq(Nat)
  <2>1. \A x, y \in Nat : <<x>> \in Seq(Nat) /\ <<x, y>> \in Seq(Nat) /\ <<>> \in Seq(Nat) OBVIOUS
  <2>2. On(m) \in Seq(Nat) BY <1>1, <1>2, <2>1
  <2> QED BY <1>1, <1>3, <2>1, <2>2
<1>5. \A x : Range(<<>>) \subseteq Range(<<x>>) BY DEF Range
<1>6. Range(<<m.other>>) \subseteq Range(<<m.other, m.actor>>) BY DEF Range
<1> QED BY <1>3, <1>4, <1>5, <1>6

LEMMA WrittenIs ==
    ASSUME NEW m, NEW n, NEW ts
    PROVE  Written(m, n, ts) =
            IF m.kind = "Cast" THEN Recast(Key(m), n, ts)
            ELSE IF m.kind = "CastEnd"
            THEN IF Key(m) \in DOMAIN casts THEN <<Slice(casts[Key(m)], ts)>>
                 ELSE <<Instant("CastEnd", "entity", m.actor, n, ts)>>
            ELSE [i \in DOMAIN On(m) |-> Instant(m.kind, "entity", On(m)[i], n, ts)]
<1>1. CASE m.kind = "Cast" BY <1>1, Zenon DEF Written
<1>2. CASE m.kind = "CastEnd" /\ Key(m) \in DOMAIN casts BY <1>2, Zenon DEF Written
<1>3. CASE m.kind = "CastEnd" /\ Key(m) \notin DOMAIN casts BY <1>3, Zenon DEF Written
<1>4. CASE m.kind \notin {"Cast", "CastEnd"} BY <1>4, Zenon DEF Written
<1> QED BY <1>1, <1>2, <1>3, <1>4

LEMMA EmittedAre ==
    ASSUME TraceIInv, NEW m \in AMessage, NEW n \in Nat, NEW ts \in Int
    PROVE  /\ <<Instant(m.kind, "opcode", OpTrack(m), n, ts)>> \in Seq(AnEvent)
           /\ Written(m, n, ts) \in Seq(AnEvent)
           /\ Emitted(m, n, ts) \in Seq(AnEvent)
           /\ \A i \in DOMAIN Emitted(m, n, ts) : OneWritten(Emitted(m, n, ts)[i], m, ts)
           /\ Decides(m) => 2 \in DOMAIN Emitted(m, n, ts) /\ Emitted(m, n, ts)[2] = EndedAs(m, ts)
           /\ \A i \in DOMAIN Emitted(m, n, ts) :
                Emitted(m, n, ts)[i].pid = "entity" /\ Emitted(m, n, ts)[i].what = "Cast" => i = 2 /\ Decides(m)
<1> DEFINE op == Instant(m.kind, "opcode", OpTrack(m), n, ts)
           w == Written(m, n, ts)
<1>1. m.kind \in Kinds /\ m.actor \in Nat /\ m.other \in Nat /\ m.client \in BOOLEAN BY DEF AMessage, Kinds
<1>2. op \in AnEvent /\ op.pid = "opcode" /\ OneWritten(op, m, ts)
  BY <1>1 DEF Instant, AnEvent, OneWritten, OpTrack, OpTracks
<1>3. ASSUME NEW what \in Kinds, NEW id \in Nat
      PROVE  Instant(what, "entity", id, n, ts) \in AnEvent
  BY DEF Instant, AnEvent
<1>4. \/ /\ Decides(m) /\ w = <<EndedAs(m, ts)>>
      \/ /\ ~Decides(m) /\ w \in Seq(AnEvent)
         /\ \A i \in DOMAIN w : OneWritten(w[i], m, ts) /\ w[i].what # "Cast"
  <2>1. CASE m.kind = "Cast"
    <3>1. w = Recast(Key(m), n, ts) BY <2>1, WrittenIs
    <3>2. CASE Key(m) \in DOMAIN casts BY <2>1, <3>1, <3>2 DEF Recast, EndedAs, Decides
    <3>3. CASE Key(m) \notin DOMAIN casts BY <2>1, <3>1, <3>3 DEF Recast, Decides
    <3> QED BY <3>2, <3>3
  <2>2. CASE m.kind = "CastEnd"
    <3>1. CASE Key(m) \in DOMAIN casts
      <4>1. w = <<Slice(casts[Key(m)], ts)>> BY <2>2, <3>1, WrittenIs, Zenon
      <4> QED BY <2>2, <3>1, <4>1 DEF EndedAs, Decides
    <3>2. CASE Key(m) \notin DOMAIN casts
      <4>1. w = <<Instant("CastEnd", "entity", m.actor, n, ts)>> BY <2>2, <3>2, WrittenIs, Zenon
      <4>2. w[1] \in AnEvent /\ DOMAIN w = {1} BY <1>1, <1>3, <4>1 DEF Kinds
      <4>3. m.actor \in Range(Opens(m)) BY <2>2 DEF Opens, Range
      <4>4. OneWritten(w[1], m, ts) /\ w[1].what # "Cast" BY <2>2, <4>1, <4>2, <4>3 DEF OneWritten, Instant, Kinds
      <4> QED BY <3>2, <4>1, <4>2, <4>4 DEF Decides
    <3> QED BY <3>1, <3>2
  <2>3. CASE m.kind \notin {"Cast", "CastEnd"}
    <3>1. w = [i \in DOMAIN On(m) |-> Instant(m.kind, "entity", On(m)[i], n, ts)] BY <2>3, WrittenIs
    <3>2. On(m) \in Seq(Nat) /\ Range(On(m)) \subseteq Range(Opens(m)) BY OpensAre
    <3>3. m.kind = "none" => DOMAIN On(m) = {} BY DEF On
    <3>4. DOMAIN On(m) = 1 .. Len(On(m)) /\ Len(On(m)) \in Nat /\ \A i \in DOMAIN On(m) : On(m)[i] \in Nat BY <3>2
    <3>5. w \in Seq(AnEvent)
      <4>1. \A i \in 1 .. Len(On(m)) : w[i] \in AnEvent BY <1>1, <1>3, <3>1, <3>4
      <4>2. w \in [1 .. Len(On(m)) -> AnEvent] BY <3>1, <3>4, <4>1
      <4> QED BY <3>4, <4>2
    <3>6. ASSUME NEW i \in DOMAIN w PROVE OneWritten(w[i], m, ts) /\ w[i].what # "Cast"
      <4>1. w[i] = Instant(m.kind, "entity", On(m)[i], n, ts) /\ On(m)[i] \in Nat /\ i \in DOMAIN On(m)
        BY <3>1, <3>4
      <4>2. w[i] \in AnEvent BY <1>1, <1>3, <4>1
      <4>3. On(m)[i] \in Range(Opens(m)) BY <3>2, <4>1 DEF Range
      <4>4. m.kind # "none" BY <3>3, <4>1
      <4> QED BY <1>1, <2>3, <4>1, <4>2, <4>3, <4>4 DEF OneWritten, Instant
    <3> QED BY <2>3, <3>5, <3>6 DEF Decides
  <2> QED BY <2>1, <2>2, <2>3
<1>5. ASSUME Decides(m)
      PROVE  EndedAs(m, ts) \in AnEvent /\ OneWritten(EndedAs(m, ts), m, ts)
  <2>1. /\ casts[Key(m)] \in AnEvent /\ casts[Key(m)].ph = "i" /\ casts[Key(m)].pid = "entity"
        /\ casts[Key(m)].what = "Cast" /\ casts[Key(m)].tid \in Range(entities)
    BY <1>5, KeptIs DEF Decides
  <2>2. m.kind # "none" BY <1>5 DEF Decides
  <2>3. CASE m.kind = "Cast" BY <2>1, <2>2, <2>3 DEF EndedAs, OneWritten, Kinds
  <2>4. CASE m.kind # "Cast"
    <3> DEFINE c == casts[Key(m)]
    <3>1. ts - c.ts \in Int BY <2>1 DEF AnEvent
    <3>2. /\ Slice(c, ts) \in AnEvent /\ Slice(c, ts).ph = "X" /\ Slice(c, ts).pid = c.pid
          /\ Slice(c, ts).what = c.what /\ Slice(c, ts).tid = c.tid
      BY <2>1, <3>1 DEF Slice, AnEvent
    <3>3. EndedAs(m, ts) = Slice(c, ts) BY <2>4 DEF EndedAs
    <3> QED BY <2>1, <2>2, <3>2, <3>3 DEF OneWritten, Kinds
  <2> QED BY <2>3, <2>4
<1>6. w \in Seq(AnEvent) /\ \A i \in DOMAIN w : OneWritten(w[i], m, ts)
  <2>1. CASE Decides(m)
    <3>1. w = <<EndedAs(m, ts)>> BY <1>4, <2>1
    <3> HIDE DEF w
    <3> QED BY <1>5, <2>1, <3>1
  <2>2. CASE ~Decides(m) BY <1>4, <2>2
  <2> QED BY <2>1, <2>2
<1>7. \A i \in DOMAIN w : w[i].what = "Cast" => i = 1 /\ Decides(m) BY <1>4
<1>8. Decides(m) => 1 \in DOMAIN w /\ w[1] = EndedAs(m, ts) BY <1>4
<1> DEFINE e == <<op>> \o w
<1>9. /\ e \in Seq(AnEvent) /\ e[1] = op /\ DOMAIN e = 1 .. 1 + Len(w)
      /\ \A i \in DOMAIN w : e[i + 1] = w[i] /\ i + 1 \in DOMAIN e
      /\ \A i \in DOMAIN e : i = 1 \/ i - 1 \in DOMAIN w
  BY <1>2, <1>6
<1>10. Emitted(m, n, ts) = e BY DEF Emitted
<1> HIDE DEF e, w, op
<1>11. \A i \in DOMAIN e : i = 1 \/ (i - 1 \in DOMAIN w /\ e[i] = w[i - 1])
  <2>1. \A i \in DOMAIN e : (i - 1) + 1 = i BY <1>9
  <2> QED BY <1>9, <2>1
<1>12. \A i \in DOMAIN e : OneWritten(e[i], m, ts) BY <1>2, <1>6, <1>9, <1>11
<1>13. Decides(m) => 2 \in DOMAIN e /\ e[2] = EndedAs(m, ts) BY <1>8, <1>9
<1>14. ASSUME NEW i \in DOMAIN e, e[i].pid = "entity", e[i].what = "Cast" PROVE i = 2 /\ Decides(m)
  <2>1. i # 1 BY <1>2, <1>9, <1>14
  <2>2. i - 1 \in DOMAIN w /\ e[i] = w[i - 1] BY <1>11, <2>1
  <2>3. i - 1 = 1 /\ Decides(m) BY <1>7, <1>14, <2>2
  <2> QED BY <1>9, <2>3
<1>15. <<op>> \in Seq(AnEvent) /\ w \in Seq(AnEvent) BY <1>2, <1>6
<1> QED BY <1>9, <1>10, <1>12, <1>13, <1>14, <1>15 DEF op, w

-----------------------------------------------------------------------------
\* A message.

Turn == Len(added) + 1
Since(time) == IF added = <<>> THEN 0 ELSE time - added[1].time

\* What add does, of a message that comes at time.
LEMMA AddDoes ==
    ASSUME TraceIInv, NEW m \in Messages, NEW time \in Times, Add(m, time)
    PROVE  /\ m \in AMessage /\ time \in Nat /\ Turn \in Nat /\ Since(time) \in Int
           /\ ~ended /\ ~ended'
           /\ added' \in Seq([m : AMessage, time : Nat])
           /\ DOMAIN added = 1 .. Len(added) /\ Len(added) \in Nat /\ DOMAIN added' = DOMAIN added \cup {Turn}
           /\ added'[Turn] = [m |-> m, time |-> time] /\ \A n \in DOMAIN added : added'[n] = added[n]
           /\ Since(time) = time - added'[1].time /\ (added # <<>> => added'[1] = added[1])
           /\ casts' = Kept(m, Turn, Since(time))
           /\ ops' = ops \cup {OpTrack(m)} /\ OpTrack(m) \in OpTracks
           /\ entities' \in Seq(Nat) /\ Distinct(entities')
           /\ Range(entities') = Range(entities) \cup Range(Opens(m))
           /\ named' = named \cup Names(m) /\ Names(m) \subseteq Range(Opens(m))
<1>1. m \in AMessage /\ time \in Nat BY TraceAssumption
<1>2. added \in Seq([m : AMessage, time : Nat]) /\ entities \in Seq(Nat) /\ Distinct(entities)
  BY DEF TraceIInv, TraceTypes
<1>3. Len(added) \in Nat /\ DOMAIN added = 1 .. Len(added) /\ Turn \in Nat BY <1>2 DEF Turn
<1>4. added' = Append(added, [m |-> m, time |-> time]) BY DEF Add
<1>5. [m |-> m, time |-> time] \in [m : AMessage, time : Nat] BY <1>1
<1>6. added' \in Seq([m : AMessage, time : Nat]) BY <1>2, <1>4, <1>5
<1>7. /\ DOMAIN added' = DOMAIN added \cup {Turn} /\ added'[Turn] = [m |-> m, time |-> time]
      /\ \A n \in DOMAIN added : added'[n] = added[n]
  BY <1>2, <1>3, <1>4 DEF Turn
<1>8. added = <<>> => Turn = 1 BY DEF Turn
<1>9. added # <<>> => 1 \in DOMAIN added BY <1>2, <1>3
<1>10. Since(time) = time - added'[1].time /\ (added # <<>> => added'[1] = added[1])
  BY <1>1, <1>7, <1>8, <1>9 DEF Since
<1>11. added'[1].time \in Nat
  <2>1. 1 \in DOMAIN added' BY <1>3, <1>7, <1>8, <1>9
  <2>2. added'[1] \in [m : AMessage, time : Nat] BY <1>6, <2>1, ElementIs, Zenon
  <2> QED BY <2>2
<1>12. Since(time) \in Int BY <1>1, <1>10, <1>11
<1>13. OpTrack(m) \in OpTracks BY <1>1 DEF OpTrack, OpTracks, AMessage, Kinds
<1>14. Opens(m) \in Seq(Nat) BY <1>1, OpensAre
<1>15. m.kind = "none" => Range(Opens(m)) = {} BY DEF Opens, On, Range
<1>16. entities' = IF m.kind = "none" THEN entities ELSE Opened(entities, Opens(m)) BY DEF Add
<1>17. entities' \in Seq(Nat) /\ Distinct(entities') /\ Range(entities') = Range(entities) \cup Range(Opens(m))
  BY <1>2, <1>14, <1>15, <1>16, OpenedIs
<1>18. Names(m) \subseteq Range(Opens(m))
  <2>1. CASE m.kind \in {"Spawn", "Player"}
    <3>1. Opens(m) = On(m) BY <2>1 DEF Opens
    <3>2. On(m) = <<m.other>> BY <2>1 DEF On
    <3>3. Names(m) = {m.other} BY <2>1 DEF Names
    <3> QED BY <3>1, <3>2, <3>3 DEF Range
  <2>2. CASE m.kind = "Kill" /\ m.actor # 0
    <3>1. Opens(m) = <<m.other, m.actor>> BY <2>2 DEF Opens
    <3>2. Names(m) = {m.actor} BY <2>2 DEF Names
    <3>3. 2 \in DOMAIN Opens(m) /\ Opens(m)[2] = m.actor BY <3>1
    <3> QED BY <3>2, <3>3 DEF Range
  <2>3. CASE ~(m.kind \in {"Spawn", "Player"}) /\ ~(m.kind = "Kill" /\ m.actor # 0)
    BY <2>3 DEF Names
  <2> QED BY <2>1, <2>2, <2>3
<1>19. /\ casts' = Kept(m, Turn, Since(time)) /\ ops' = ops \cup {OpTrack(m)} /\ named' = named \cup Names(m)
       /\ ~ended /\ ~ended'
  BY DEF Add, Turn, Since
<1> QED BY <1>1, <1>3, <1>6, <1>7, <1>10, <1>12, <1>13, <1>17, <1>18, <1>19

\* What it writes: on the opcode's track, the entities', and what became of the Cast that was kept.
LEMMA AddWrites ==
    ASSUME TraceIInv, NEW m \in Messages, NEW time \in Times, Add(m, time)
    PROVE  /\ out' \in Seq(AnEvent)
           /\ DOMAIN out = 1 .. Len(out) /\ Len(out) \in Nat
           /\ \A i \in DOMAIN out : i \in DOMAIN out' /\ out'[i] = out[i]
           /\ \A i \in DOMAIN out' \ DOMAIN out :
                /\ OneWritten(out'[i], m, Since(time))
                /\ out'[i].pid = "entity" /\ out'[i].what = "Cast" =>
                    i = Len(out) + 2 /\ Decides(m) /\ out'[i] = EndedAs(m, Since(time))
           /\ Decides(m) =>
                /\ Len(out) + 2 \in DOMAIN out' \ DOMAIN out
                /\ out'[Len(out) + 2] = EndedAs(m, Since(time))
<1> DEFINE e == Emitted(m, Turn, Since(time))
           op == <<Instant(m.kind, "opcode", OpTrack(m), Turn, Since(time))>>
           w == Written(m, Turn, Since(time))
<1>1. m \in AMessage /\ Turn \in Nat /\ Since(time) \in Int BY AddDoes
<1>2. /\ e \in Seq(AnEvent) /\ \A i \in DOMAIN e : OneWritten(e[i], m, Since(time))
      /\ Decides(m) => 2 \in DOMAIN e /\ e[2] = EndedAs(m, Since(time))
      /\ \A i \in DOMAIN e : e[i].pid = "entity" /\ e[i].what = "Cast" => i = 2 /\ Decides(m)
  BY <1>1, EmittedAre
<1>3. out \in Seq(AnEvent) BY DEF TraceIInv, TraceTypes
<1>4. out' = out \o op \o w BY DEF Add, Turn, Since
<1>5. e = op \o w BY DEF Emitted
<1>6. out' = out \o e
  <2>1. op \in Seq(AnEvent) /\ w \in Seq(AnEvent) BY <1>1, EmittedAre
  <2> HIDE DEF op, w, e
  <2> QED BY <1>3, <1>4, <1>5, <2>1, ConcatAssociative
<1> HIDE DEF e, op, w
<1>7. /\ out' \in Seq(AnEvent) /\ DOMAIN out = 1 .. Len(out) /\ Len(out) \in Nat
      /\ DOMAIN out' = 1 .. Len(out) + Len(e) /\ DOMAIN e = 1 .. Len(e) /\ Len(e) \in Nat
  BY <1>2, <1>3, <1>6
<1>8. \A i \in DOMAIN out : i \in DOMAIN out' /\ out'[i] = out[i] BY <1>2, <1>3, <1>6, <1>7
<1>9. \A i \in DOMAIN e : Len(out) + i \in DOMAIN out' \ DOMAIN out /\ out'[Len(out) + i] = e[i]
  BY <1>2, <1>3, <1>6, <1>7
<1>10. \A i \in DOMAIN out' \ DOMAIN out : i - Len(out) \in DOMAIN e /\ out'[i] = e[i - Len(out)]
  BY <1>2, <1>3, <1>6, <1>7
<1>11. ASSUME NEW i \in DOMAIN out' \ DOMAIN out
       PROVE  /\ OneWritten(out'[i], m, Since(time))
              /\ out'[i].pid = "entity" /\ out'[i].what = "Cast" =>
                    i = Len(out) + 2 /\ Decides(m) /\ out'[i] = EndedAs(m, Since(time))
  <2>1. i - Len(out) \in DOMAIN e /\ out'[i] = e[i - Len(out)] BY <1>10
  <2>2. OneWritten(e[i - Len(out)], m, Since(time)) BY <1>2, <2>1
  <2>3. i - Len(out) = 2 => i = Len(out) + 2 BY <1>7
  <2> QED BY <1>2, <2>1, <2>2, <2>3
<1> QED BY <1>2, <1>7, <1>8, <1>9, <1>11

LEMMA AddTypes == ASSUME TraceIInv, NEW m \in Messages, NEW time \in Times, Add(m, time) PROVE TraceTypes'
<1>1. /\ added' \in Seq([m : AMessage, time : Nat]) /\ entities' \in Seq(Nat) /\ Distinct(entities')
      /\ ops' = ops \cup {OpTrack(m)} /\ OpTrack(m) \in OpTracks
      /\ named' = named \cup Names(m) /\ Names(m) \subseteq Range(Opens(m))
      /\ Range(entities') = Range(entities) \cup Range(Opens(m))
      /\ casts' = Kept(m, Turn, Since(time)) /\ ~ended'
  BY AddDoes
<1>2. out' \in Seq(AnEvent) BY AddWrites
<1>3. /\ ops \subseteq OpTracks /\ IsFiniteSet(ops) /\ named \subseteq Range(entities) /\ IsFiniteSet(DOMAIN casts)
  BY DEF TraceIInv, TraceTypes
<1>4. ops' \subseteq OpTracks /\ IsFiniteSet(ops') BY <1>1, <1>3, FS_AddElement
<1>5. named' \subseteq Range(entities') BY <1>1, <1>3
<1>6. IsFiniteSet(DOMAIN casts')
  <2>1. CASE m.kind = "Cast"
    <3>1. DOMAIN casts' = DOMAIN casts \cup {Key(m)} BY <1>1, <2>1 DEF Kept, With
    <3> QED BY <1>3, <3>1, FS_AddElement
  <2>2. CASE m.kind = "CastEnd"
    <3>1. DOMAIN casts' = DOMAIN casts \ {Key(m)} BY <1>1, <2>2 DEF Kept, Without
    <3> QED BY <1>3, <3>1, FS_RemoveElement
  <2>3. CASE m.kind \notin {"Cast", "CastEnd"}
    <3>1. casts' = casts BY <1>1, <2>3 DEF Kept
    <3> QED BY <1>3, <3>1
  <2> QED BY <2>1, <2>2, <2>3
<1>7. ended' \in BOOLEAN BY DEF Add, TraceIInv, TraceTypes
<1> QED BY <1>1, <1>2, <1>4, <1>5, <1>6, <1>7 DEF TraceTypes

LEMMA AddOnTracks ==
    ASSUME TraceIInv, NEW m \in Messages, NEW time \in Times, Add(m, time) PROVE OnTracks' /\ TracksAreNamed'
<1>1. /\ DOMAIN added' = DOMAIN added \cup {Turn} /\ ops' = ops \cup {OpTrack(m)}
      /\ Range(entities') = Range(entities) \cup Range(Opens(m))
      /\ casts' = Kept(m, Turn, Since(time)) /\ ~ended /\ ~ended'
  BY AddDoes
<1>2. /\ \A i \in DOMAIN out : i \in DOMAIN out' /\ out'[i] = out[i]
      /\ \A i \in DOMAIN out' \ DOMAIN out :
            /\ OneWritten(out'[i], m, Since(time))
            /\ out'[i].pid = "entity" /\ out'[i].what = "Cast" =>
                    i = Len(out) + 2 /\ Decides(m) /\ out'[i] = EndedAs(m, Since(time))
  BY AddWrites
<1>3. OnTracks BY DEF TraceIInv
<1>4. ASSUME NEW i \in DOMAIN out', out'[i].pid = "entity", out'[i].what = "Cast" PROVE out'[i].of \in DOMAIN added'
  <2>1. CASE i \in DOMAIN out BY <1>1, <1>2, <1>3, <1>4, <2>1 DEF OnTracks
  <2>2. CASE i \notin DOMAIN out
    <3>1. Decides(m) /\ out'[i] = EndedAs(m, Since(time)) BY <1>2, <1>4, <2>2
    <3>2. casts[Key(m)] \in AnEvent /\ casts[Key(m)].of \in DOMAIN added BY <3>1, KeptIs DEF Decides
    <3>3. Slice(casts[Key(m)], Since(time)).of = casts[Key(m)].of BY <3>2 DEF Slice, AnEvent
    <3> QED BY <1>1, <3>1, <3>2, <3>3 DEF EndedAs
  <2> QED BY <2>1, <2>2
<1>5. ASSUME NEW i \in DOMAIN out'
      PROVE  /\ out'[i].ph # "M" /\ out'[i].what \in Kinds
             /\ IF out'[i].pid = "opcode" THEN out'[i].tid \in ops' ELSE out'[i].tid \in Range(entities')
  <2>1. CASE i \in DOMAIN out BY <1>1, <1>2, <1>3, <2>1 DEF OnTracks
  <2>2. CASE i \notin DOMAIN out
    <3>1. OneWritten(out'[i], m, Since(time)) BY <1>2, <2>2
    <3> QED BY <1>1, <3>1 DEF OneWritten
  <2> QED BY <2>1, <2>2
<1>6. ASSUME NEW k \in DOMAIN casts' PROVE casts'[k].tid \in Range(entities')
  <2>1. CASE m.kind = "Cast"
    <3>1. casts' = With(casts, Key(m), Instant("Cast", "entity", m.actor, Turn, Since(time)))
      BY <1>1, <2>1 DEF Kept
    <3>2. CASE k = Key(m)
      <4>1. casts'[k].tid = m.actor BY <1>6, <3>1, <3>2 DEF With, Instant
      <4>2. m.actor \in Range(Opens(m)) BY <2>1 DEF Opens, Range
      <4> QED BY <1>1, <4>1, <4>2
    <3>3. CASE k # Key(m)
      <4>1. k \in DOMAIN casts /\ casts'[k] = casts[k] BY <1>6, <3>1, <3>3 DEF With
      <4> QED BY <1>1, <1>3, <4>1 DEF OnTracks
    <3> QED BY <3>2, <3>3
  <2>2. CASE m.kind = "CastEnd"
    <3>1. k \in DOMAIN casts /\ casts'[k] = casts[k] BY <1>1, <1>6, <2>2 DEF Kept, Without
    <3> QED BY <1>1, <1>3, <3>1 DEF OnTracks
  <2>3. CASE m.kind \notin {"Cast", "CastEnd"}
    <3>1. casts' = casts BY <1>1, <2>3 DEF Kept
    <3> QED BY <1>1, <1>3, <1>6, <3>1 DEF OnTracks
  <2> QED BY <2>1, <2>2, <2>3
<1> QED BY <1>1, <1>4, <1>5, <1>6 DEF OnTracks, TracksAreNamed

\* Of what came before m nothing changes but that m may be after it.
LEMMA AddKeepsPast ==
    ASSUME TraceIInv, NEW m \in Messages, NEW time \in Times, Add(m, time), NEW n \in DOMAIN added
    PROVE  /\ n \in Nat /\ n < Turn /\ (IsCast(n))' = IsCast(n) /\ added'[n].m = added[n].m
           /\ TheInstant(n)' = TheInstant(n)
           /\ Following(n)' = Following(n) \cup (IF m.kind \in {"Cast", "CastEnd"} /\ Key(m) = Key(added[n].m)
                                         THEN {Turn} ELSE {})
           /\ \A d \in DOMAIN added : WrittenAs(n, d)' = WrittenAs(n, d)
           /\ \A d : d = Turn => WrittenAs(n, d)' = IF m.kind = "Cast" THEN TheInstant(n) ELSE Slice(TheInstant(n), Since(time))
<1>1. /\ DOMAIN added = 1 .. Len(added) /\ Len(added) \in Nat /\ DOMAIN added' = DOMAIN added \cup {Turn}
      /\ added'[Turn] = [m |-> m, time |-> time] /\ \A j \in DOMAIN added : added'[j] = added[j]
      /\ Since(time) = time - added'[1].time /\ (added # <<>> => added'[1] = added[1])
  BY AddDoes
<1>2. n \in Nat /\ n < Turn /\ Turn > n /\ Turn \notin DOMAIN added BY <1>1 DEF Turn
<1>3. added # <<>> BY <1>1
<1>4. added'[1] = added[1] /\ added'[n] = added[n] BY <1>1, <1>3
<1>5. (IsCast(n))' = IsCast(n) /\ added'[n].m = added[n].m BY <1>4 DEF IsCast
<1>6. TheInstant(n)' = TheInstant(n) BY <1>4 DEF TheInstant
<1>7. \A k : (Key(added[k].m))' = Key(added'[k].m) BY DEF Key
<1>8. Following(n)' = Following(n) \cup (IF m.kind \in {"Cast", "CastEnd"} /\ Key(m) = Key(added[n].m)
                                 THEN {Turn} ELSE {})
  BY <1>1, <1>2, <1>4, <1>7 DEF Following
<1>9. ASSUME NEW d \in DOMAIN added PROVE WrittenAs(n, d)' = WrittenAs(n, d)
  BY <1>1, <1>4, <1>6 DEF WrittenAs, IsCast
<1>10. ASSUME NEW d, d = Turn
       PROVE  WrittenAs(n, d)' = IF m.kind = "Cast" THEN TheInstant(n) ELSE Slice(TheInstant(n), Since(time))
  <2>1. added'[d].m = m /\ added'[d].time = time BY <1>1, <1>10
  <2>2. (IsCast(d))' <=> m.kind = "Cast" BY <2>1 DEF IsCast
  <2>3. WrittenAs(n, d)' = IF (IsCast(d))' THEN TheInstant(n)'
                           ELSE Slice(TheInstant(n)', added'[d].time - added'[1].time)
    BY DEF WrittenAs, Slice
  <2> QED BY <1>1, <1>6, <2>1, <2>2, <2>3
<1> QED BY <1>2, <1>5, <1>6, <1>8, <1>9, <1>10

\* m is the last, and a Cast of it waits.
LEMMA TurnIs ==
    ASSUME TraceIInv, NEW m \in Messages, NEW time \in Times, Add(m, time), NEW d, d = Turn
    PROVE  /\ (IsCast(d))' <=> m.kind = "Cast"
           /\ added'[d].m = m /\ Following(d)' = {}
           /\ TheInstant(d)' = Instant("Cast", "entity", m.actor, d, Since(time))
<1>1. /\ DOMAIN added = 1 .. Len(added) /\ Len(added) \in Nat /\ DOMAIN added' = DOMAIN added \cup {Turn}
      /\ added'[Turn] = [m |-> m, time |-> time] /\ Since(time) = time - added'[1].time
  BY AddDoes
<1>2. added'[d].m = m /\ added'[d].time = time BY <1>1
<1>3. \A j \in DOMAIN added' : ~(j > d) BY <1>1 DEF Turn
<1>4. Following(d)' = {} BY <1>3 DEF Following
<1>5. TheInstant(d)' = Instant("Cast", "entity", m.actor, d, Since(time)) BY <1>1, <1>2 DEF TheInstant
<1> QED BY <1>2, <1>4, <1>5 DEF IsCast

LEMMA AddKeptAre == ASSUME TraceIInv, NEW m \in Messages, NEW time \in Times, Add(m, time) PROVE KeptAre'
<1>1. /\ DOMAIN added' = DOMAIN added \cup {Turn} /\ casts' = Kept(m, Turn, Since(time))
  BY AddDoes
<1> SUFFICES ASSUME NEW k \in DOMAIN casts'
             PROVE  \E n \in DOMAIN added' :
                        /\ (IsCast(n))' /\ Key(added'[n].m) = k /\ Following(n)' = {}
                        /\ casts'[k] = TheInstant(n)'
  BY DEF KeptAre, Key
<1>2. CASE m.kind = "Cast" /\ k = Key(m)
  <2>1. casts' = With(casts, Key(m), Instant("Cast", "entity", m.actor, Turn, Since(time)))
    BY <1>1, <1>2 DEF Kept
  <2>2. casts'[k] = Instant("Cast", "entity", m.actor, Turn, Since(time)) BY <1>2, <2>1 DEF With
  <2>3. PICK d : d = Turn OBVIOUS
  <2>4. (IsCast(d))' /\ added'[d].m = m /\ Following(d)' = {} /\ casts'[k] = TheInstant(d)'
    BY <1>2, <2>2, <2>3, TurnIs
  <2> QED BY <1>1, <1>2, <2>3, <2>4
<1>3. CASE ~(m.kind = "Cast" /\ k = Key(m))
  <2>1. k \in DOMAIN casts /\ casts'[k] = casts[k] /\ ~(m.kind \in {"Cast", "CastEnd"} /\ k = Key(m))
    <3>1. CASE m.kind = "Cast"
      <4>1. casts' = With(casts, Key(m), Instant("Cast", "entity", m.actor, Turn, Since(time)))
        BY <1>1, <3>1 DEF Kept
      <4> QED BY <1>3, <3>1, <4>1 DEF With
    <3>2. CASE m.kind = "CastEnd"
      <4>1. casts' = Without(casts, Key(m)) BY <1>1, <3>2 DEF Kept
      <4> QED BY <4>1 DEF Without
    <3>3. CASE m.kind \notin {"Cast", "CastEnd"}
      <4>1. casts' = casts BY <1>1, <3>3 DEF Kept
      <4> QED BY <3>3, <4>1
    <3> QED BY <3>1, <3>2, <3>3
  <2>2. PICK n \in DOMAIN added : IsCast(n) /\ Key(added[n].m) = k /\ Following(n) = {} /\ casts[k] = TheInstant(n)
    BY <2>1 DEF TraceIInv, KeptAre
  <2>3. /\ (IsCast(n))' = IsCast(n) /\ added'[n].m = added[n].m /\ TheInstant(n)' = TheInstant(n)
        /\ Following(n)' = Following(n) \cup (IF m.kind \in {"Cast", "CastEnd"} /\ Key(m) = Key(added[n].m)
                                      THEN {Turn} ELSE {})
    BY AddKeepsPast
  <2>4. Following(n)' = {} BY <2>1, <2>2, <2>3
  <2> QED BY <1>1, <2>1, <2>2, <2>3, <2>4
<1> QED BY <1>2, <1>3

\* The Cast that m ends or is again is written.
LEMMA AddEvents ==
    ASSUME TraceIInv, NEW m \in Messages, NEW time \in Times, Add(m, time), NEW n
    PROVE  /\ EventsOf(n)' = EventsOf(n) \cup (IF Decides(m) /\ casts[Key(m)].of = n THEN {Len(out) + 2} ELSE {})
           /\ n \notin DOMAIN added => EventsOf(n)' = {}
<1>1. /\ DOMAIN out = 1 .. Len(out) /\ Len(out) \in Nat
      /\ \A i \in DOMAIN out : i \in DOMAIN out' /\ out'[i] = out[i]
      /\ \A i \in DOMAIN out' \ DOMAIN out :
            out'[i].pid = "entity" /\ out'[i].what = "Cast" =>
                i = Len(out) + 2 /\ Decides(m) /\ out'[i] = EndedAs(m, Since(time))
      /\ Decides(m) =>
            /\ Len(out) + 2 \in DOMAIN out' \ DOMAIN out
            /\ out'[Len(out) + 2] = EndedAs(m, Since(time))
  BY AddWrites
<1>2. ASSUME Decides(m)
      PROVE  /\ EndedAs(m, Since(time)).of = casts[Key(m)].of /\ EndedAs(m, Since(time)).pid = "entity"
             /\ EndedAs(m, Since(time)).what = "Cast" /\ casts[Key(m)].of \in DOMAIN added
  <2>1. /\ casts[Key(m)] \in AnEvent /\ casts[Key(m)].pid = "entity" /\ casts[Key(m)].what = "Cast"
        /\ casts[Key(m)].of \in DOMAIN added
    BY <1>2, KeptIs DEF Decides
  <2>2. /\ Slice(casts[Key(m)], Since(time)).of = casts[Key(m)].of
        /\ Slice(casts[Key(m)], Since(time)).pid = "entity" /\ Slice(casts[Key(m)], Since(time)).what = "Cast"
    BY <2>1 DEF Slice, AnEvent
  <2> QED BY <2>1, <2>2 DEF EndedAs
<1>3. EventsOf(n)' = {i \in DOMAIN out' : out'[i].pid = "entity" /\ out'[i].what = "Cast" /\ out'[i].of = n}
  BY DEF EventsOf
<1>4. EventsOf(n)' = EventsOf(n) \cup (IF Decides(m) /\ casts[Key(m)].of = n THEN {Len(out) + 2} ELSE {})
  <2>1. ASSUME NEW i \in EventsOf(n)', i \notin DOMAIN out
        PROVE  i = Len(out) + 2 /\ Decides(m) /\ casts[Key(m)].of = n
    BY <1>1, <1>2, <1>3, <2>1
  <2>2. \A i \in DOMAIN out : i \in EventsOf(n)' <=> i \in EventsOf(n) BY <1>1, <1>3 DEF EventsOf
  <2>3. EventsOf(n) \subseteq DOMAIN out BY DEF EventsOf
  <2>4. Decides(m) /\ casts[Key(m)].of = n => Len(out) + 2 \in EventsOf(n)' BY <1>1, <1>2, <1>3
  <2>5. EventsOf(n) \subseteq EventsOf(n)' BY <2>2, <2>3
  <2> QED BY <2>1, <2>2, <2>4, <2>5
<1>5. ASSUME n \notin DOMAIN added PROVE EventsOf(n)' = {}
  <2>1. EventsOf(n) = {} BY <1>5 DEF TraceIInv, OnTracks, EventsOf
  <2> QED BY <1>2, <1>4, <1>5, <2>1
<1> QED BY <1>4, <1>5

LEMMA AddFates == ASSUME TraceIInv, NEW m \in Messages, NEW time \in Times, Add(m, time) PROVE Fates'
<1>1. /\ DOMAIN added = 1 .. Len(added) /\ Len(added) \in Nat
      /\ DOMAIN added' = DOMAIN added \cup {Turn} /\ casts' = Kept(m, Turn, Since(time)) /\ ~ended /\ ~ended'
      /\ Turn \in Nat
  BY AddDoes
<1>2. /\ \A i \in DOMAIN out : i \in DOMAIN out' /\ out'[i] = out[i]
      /\ Decides(m) =>
            /\ Len(out) + 2 \in DOMAIN out' /\ out'[Len(out) + 2] = EndedAs(m, Since(time))
  BY AddWrites
<1> SUFFICES ASSUME NEW n \in DOMAIN added', (IsCast(n))' PROVE (WaitsFor(n))' \/ (IsDecided(n))'
  BY DEF Fates
<1>3. CASE n = Turn
  <2>1. /\ m.kind = "Cast" /\ added'[n].m = m /\ Following(n)' = {}
        /\ TheInstant(n)' = Instant("Cast", "entity", m.actor, n, Since(time))
    BY <1>3, TurnIs
  <2>2. casts' = With(casts, Key(m), Instant("Cast", "entity", m.actor, n, Since(time)))
    BY <1>1, <1>3, <2>1 DEF Kept
  <2>3. Key(m) \in DOMAIN casts' /\ casts'[Key(m)] = TheInstant(n)' BY <2>1, <2>2 DEF With
  <2>4. n \notin DOMAIN added BY <1>1, <1>3 DEF Turn
  <2>5. EventsOf(n)' = {} BY <2>4, AddEvents
  <2>6. (Key(added[n].m))' = Key(m) BY <2>1 DEF Key
  <2> QED BY <1>1, <2>1, <2>3, <2>5, <2>6 DEF WaitsFor
<1>4. CASE n \in DOMAIN added
  <2> DEFINE due == m.kind \in {"Cast", "CastEnd"} /\ Key(m) = Key(added[n].m)
  <2>1. /\ n \in Nat /\ n < Turn /\ IsCast(n) /\ added'[n].m = added[n].m /\ TheInstant(n)' = TheInstant(n)
        /\ Following(n)' = Following(n) \cup (IF due THEN {Turn} ELSE {})
        /\ \A d \in DOMAIN added : WrittenAs(n, d)' = WrittenAs(n, d)
        /\ \A d : d = Turn =>
            WrittenAs(n, d)' = IF m.kind = "Cast" THEN TheInstant(n) ELSE Slice(TheInstant(n), Since(time))
    BY <1>4, AddKeepsPast
  <2>2. (Key(added[n].m))' = Key(added[n].m) BY <2>1 DEF Key
  <2>3. EventsOf(n)' = EventsOf(n) \cup (IF Decides(m) /\ casts[Key(m)].of = n THEN {Len(out) + 2} ELSE {})
    BY AddEvents
  <2>4. \A d : TheInstant(d).of = d BY DEF TheInstant, Instant
  <2>5. Decides(m) /\ casts[Key(m)].of = n => Following(n) = {} /\ Key(added[n].m) = Key(m)
    <3>1. SUFFICES ASSUME Decides(m), casts[Key(m)].of = n PROVE Following(n) = {} /\ Key(added[n].m) = Key(m)
      OBVIOUS
    <3>2. PICK j \in DOMAIN added : Key(added[j].m) = Key(m) /\ Following(j) = {} /\ casts[Key(m)] = TheInstant(j)
      BY <3>1 DEF Decides, TraceIInv, KeptAre
    <3>3. j = n BY <2>4, <3>1, <3>2
    <3> QED BY <3>2, <3>3
  <2>6. WaitsFor(n) \/ IsDecided(n) BY <1>4, <2>1 DEF TraceIInv, Fates
  <2>7. CASE WaitsFor(n)
    <3>1. /\ Following(n) = {} /\ Key(added[n].m) \in DOMAIN casts /\ casts[Key(added[n].m)] = TheInstant(n)
          /\ EventsOf(n) = {}
      BY <1>1, <2>7 DEF WaitsFor
    <3>2. CASE due
      <4>1. Decides(m) /\ casts[Key(m)] = TheInstant(n) /\ casts[Key(m)].of = n
        BY <2>4, <3>1, <3>2 DEF Decides
      <4>2. EventsOf(n)' = {Len(out) + 2} BY <2>3, <3>1, <4>1
      <4>3. PICK d : d = Turn OBVIOUS
      <4>4. Following(n)' = {d} BY <2>1, <3>1, <3>2, <4>3
      <4>5. WrittenAs(n, d)' = IF m.kind = "Cast" THEN TheInstant(n) ELSE Slice(TheInstant(n), Since(time))
        BY <2>1, <4>3
      <4>6. out'[Len(out) + 2] = WrittenAs(n, d)' BY <1>2, <4>1, <4>5 DEF EndedAs
      <4>7. d \in Nat /\ d <= d BY <1>1, <4>3
      <4>8. (FirstOf(n, d))' BY <4>4, <4>7 DEF FirstOf
      <4>9. PICK i : i = Len(out) + 2 OBVIOUS
      <4>10. OnlyEvent(n, WrittenAs(n, d))' BY <1>2, <4>1, <4>2, <4>6, <4>9 DEF OnlyEvent
      <4> QED BY <4>7, <4>8, <4>10 DEF IsDecided
    <3>3. CASE ~due
      <4>1. Following(n)' = {} BY <2>1, <3>1, <3>3
      <4>2. EventsOf(n)' = {} BY <2>3, <2>5, <3>1, <3>3 DEF Decides
      <4>3. Key(added[n].m) \in DOMAIN casts' /\ casts'[Key(added[n].m)] = TheInstant(n)
        <5>1. CASE m.kind = "Cast"
          <6>1. casts' = With(casts, Key(m), Instant("Cast", "entity", m.actor, Turn, Since(time)))
            BY <1>1, <5>1 DEF Kept
          <6> QED BY <3>1, <3>3, <5>1, <6>1 DEF With
        <5>2. CASE m.kind = "CastEnd"
          <6>1. casts' = Without(casts, Key(m)) BY <1>1, <5>2 DEF Kept
          <6> QED BY <3>1, <3>3, <5>2, <6>1 DEF Without
        <5>3. CASE m.kind \notin {"Cast", "CastEnd"}
          <6>1. casts' = casts BY <1>1, <5>3 DEF Kept
          <6> QED BY <3>1, <6>1
        <5> QED BY <5>1, <5>2, <5>3
      <4> QED BY <1>1, <2>1, <2>2, <4>1, <4>2, <4>3 DEF WaitsFor
    <3> QED BY <3>2, <3>3
  <2>8. CASE IsDecided(n)
    <3>1. PICK d \in Nat : FirstOf(n, d) /\ OnlyEvent(n, WrittenAs(n, d)) BY <2>8 DEF IsDecided
    <3>2. d \in Following(n) /\ (\A j \in Following(n) : d <= j) /\ d \in DOMAIN added BY <3>1 DEF FirstOf, Following
    <3>3. d <= Turn BY <1>1, <3>2 DEF Turn
    <3>4. (FirstOf(n, d))' BY <2>1, <3>2, <3>3 DEF FirstOf
    <3>5. EventsOf(n)' = EventsOf(n) BY <2>3, <2>5, <3>2
    <3>6. PICK i \in DOMAIN out : EventsOf(n) = {i} /\ out[i] = WrittenAs(n, d) BY <3>1 DEF OnlyEvent
    <3>7. i \in DOMAIN out' /\ out'[i] = WrittenAs(n, d)' BY <1>2, <2>1, <3>2, <3>6
    <3>8. OnlyEvent(n, WrittenAs(n, d))' BY <3>5, <3>6, <3>7 DEF OnlyEvent
    <3> QED BY <3>4, <3>8 DEF IsDecided
  <2> QED BY <2>6, <2>7, <2>8
<1> QED BY <1>1, <1>3, <1>4

-----------------------------------------------------------------------------
\* The end.

LEMMA PlaceIs ==
    ASSUME NEW i \in DOMAIN entities, Distinct(entities) PROVE Place(entities[i]) = i - 1
<1>1. (CHOOSE j \in DOMAIN entities : entities[j] = entities[i]) = i BY DEF Distinct
<1> QED BY <1>1 DEF Place

\* What is in the trace when it is written, and where.
PlaceOfMetas(left) == Len(out) + Len(left) + 2
Laid(left, tids, ids) ==
    /\ out' \in Seq(AnEvent)
    /\ DOMAIN out' = 1 .. PlaceOfMetas(left) + 2 * Len(tids) + 2 * Len(ids)
    /\ \A i \in 1 .. Len(out) : out'[i] = out[i]
    /\ \A i \in 1 .. Len(left) : out'[Len(out) + i] = left[i]
    /\ \A i \in 1 .. 2 : out'[Len(out) + Len(left) + i] = Processes[i]
    /\ \A i \in 1 .. 2 * Len(tids) : out'[PlaceOfMetas(left) + i] = OpMetas(tids)[i]
    /\ \A i \in 1 .. 2 * Len(ids) : out'[PlaceOfMetas(left) + 2 * Len(tids) + i] = EntityMetas(ids)[i]

LEMMA MetaIs ==
    ASSUME NEW what \in MetaNames, NEW pid \in {"opcode", "entity"}, NEW tid \in Nat \cup OpTracks, NEW n \in Nat
    PROVE  Meta(what, pid, tid) \in AnEvent /\ [Meta(what, pid, tid) EXCEPT !.dur = n] \in AnEvent
BY DEF Meta, AnEvent

LEMMA Halves ==
    ASSUME NEW n \in Nat, NEW j \in 1 .. 2 * n
    PROVE  /\ (j + 1) \div 2 \in 1 .. n
           /\ j % 2 = 1 => j = 2 * ((j + 1) \div 2) - 1
           /\ j % 2 # 1 => j = 2 * ((j + 1) \div 2)
OBVIOUS

LEMMA Twice ==
    ASSUME NEW p \in Nat \ {0}
    PROVE  /\ (2 * p - 1) % 2 = 1 /\ ((2 * p - 1) + 1) \div 2 = p
           /\ (2 * p) % 2 # 1 /\ (2 * p + 1) \div 2 = p
OBVIOUS

LEMMA OpMetasAre ==
    ASSUME NEW tids \in Seq(OpTracks) PROVE OpMetas(tids) \in Seq(AnEvent) /\ Len(OpMetas(tids)) = 2 * Len(tids)
<1>1. \A j \in 1 .. 2 * Len(tids) : OpMetas(tids)[j] \in AnEvent
  <2>1. SUFFICES ASSUME NEW j \in 1 .. 2 * Len(tids) PROVE OpMetas(tids)[j] \in AnEvent OBVIOUS
  <2>2. (j + 1) \div 2 \in 1 .. Len(tids) BY Halves
  <2>3. tids[(j + 1) \div 2] \in OpTracks BY <2>2
  <2>4. OpMetas(tids)[j] =
            Meta(IF j % 2 = 1 THEN "thread_name" ELSE "thread_sort_index", "opcode", tids[(j + 1) \div 2])
    BY DEF OpMetas
  <2> QED BY <2>3, <2>4, MetaIs DEF MetaNames
<1>2. 2 * Len(tids) \in Nat OBVIOUS
<1>3. OpMetas(tids) = [j \in 1 .. 2 * Len(tids) |-> OpMetas(tids)[j]] BY DEF OpMetas
<1>4. OpMetas(tids) \in [1 .. 2 * Len(tids) -> AnEvent] BY <1>1, <1>3
<1> QED BY <1>2, <1>4, IsSequence

LEMMA EntityMetasAre ==
    ASSUME entities \in Seq(Nat), Distinct(entities), NEW ids \in Seq(Range(entities))
    PROVE  EntityMetas(ids) \in Seq(AnEvent) /\ Len(EntityMetas(ids)) = 2 * Len(ids)
<1>1. \A j \in 1 .. 2 * Len(ids) : EntityMetas(ids)[j] \in AnEvent
  <2>1. SUFFICES ASSUME NEW j \in 1 .. 2 * Len(ids) PROVE EntityMetas(ids)[j] \in AnEvent OBVIOUS
  <2> DEFINE id == ids[(j + 1) \div 2]
  <2>2. (j + 1) \div 2 \in 1 .. Len(ids) BY Halves
  <2>3. id \in Range(entities) BY <2>2
  <2>4. PICK i \in DOMAIN entities : entities[i] = id BY <2>3 DEF Range
  <2>5. id \in Nat /\ Place(id) \in Nat BY <2>4, PlaceIs
  <2>6. EntityMetas(ids)[j] = IF j % 2 = 1 THEN Meta("thread_name", "entity", id)
                              ELSE [Meta("thread_sort_index", "entity", id) EXCEPT !.dur = Place(id)]
    BY DEF EntityMetas
  <2> HIDE DEF id
  <2>7. /\ Meta("thread_name", "entity", id) \in AnEvent
        /\ [Meta("thread_sort_index", "entity", id) EXCEPT !.dur = Place(id)] \in AnEvent
    BY <2>5, MetaIs DEF MetaNames
  <2> QED BY <2>6, <2>7, Zenon
<1>2. 2 * Len(ids) \in Nat OBVIOUS
<1>3. EntityMetas(ids) = [j \in 1 .. 2 * Len(ids) |-> EntityMetas(ids)[j]] BY DEF EntityMetas
<1>4. EntityMetas(ids) \in [1 .. 2 * Len(ids) -> AnEvent] BY <1>1, <1>3
<1> QED BY <1>2, <1>4, IsSequence

\* The Casts kept.
Waiting == {casts[k] : k \in DOMAIN casts}

LEMMA EndDoes ==
    ASSUME TraceIInv, End
    PROVE  \E left \in SetToSeqs(Waiting), ids \in SetToSeqs(Range(entities)) : Laid(left, SetToSeq(ops), ids)
<1>1. PICK left \in SetToSeqs(Waiting), ids \in SetToSeqs(Range(entities)) :
            out' = out \o left \o Processes \o OpMetas(SetToSeq(ops)) \o EntityMetas(ids)
  BY DEF End, Waiting
<1> DEFINE tids == SetToSeq(ops)
<1>2. /\ out \in Seq(AnEvent) /\ entities \in Seq(Nat) /\ Distinct(entities) /\ ops \subseteq OpTracks
      /\ IsFiniteSet(ops) /\ IsFiniteSet(DOMAIN casts)
  BY DEF TraceIInv, TraceTypes
<1>3. IsFiniteSet(Waiting) /\ Waiting \subseteq AnEvent
  <2>1. Waiting \subseteq AnEvent BY KeptIs DEF Waiting
  <2>2. [k \in DOMAIN casts |-> casts[k]] \in Surjection(DOMAIN casts, Waiting) BY DEF Waiting, Surjection
  <2> QED BY <1>2, <2>1, <2>2, FS_Surjection
<1>4. IsFiniteSet(Range(entities))
  <2>1. DOMAIN entities = 1 .. Len(entities) /\ Len(entities) \in Nat BY <1>2
  <2>2. entities \in Surjection(DOMAIN entities, Range(entities)) BY <1>2, <2>1 DEF Surjection, Range
  <2>3. IsFiniteSet(DOMAIN entities) BY <2>1, FS_Interval
  <2> QED BY <2>2, <2>3, FS_Surjection
<1>5. left \in Seq(AnEvent) BY <1>3, ListsAre, SeqMonotonic
<1>6. ids \in Seq(Range(entities)) BY <1>4, ListsAre
<1>7. tids \in Seq(OpTracks)
  <2>1. tids \in Seq(ops) BY <1>2, SomeList, ListsAre
  <2> QED BY <1>2, <2>1, SeqMonotonic
<1>8. OpMetas(tids) \in Seq(AnEvent) /\ Len(OpMetas(tids)) = 2 * Len(tids) BY <1>7, OpMetasAre
<1>9. EntityMetas(ids) \in Seq(AnEvent) /\ Len(EntityMetas(ids)) = 2 * Len(ids) BY <1>2, <1>6, EntityMetasAre
<1>10. Processes \in Seq(AnEvent) /\ Len(Processes) = 2
  <2>1. Meta("process_name", "opcode", 0) \in AnEvent /\ Meta("process_name", "entity", 0) \in AnEvent
    BY MetaIs DEF MetaNames
  <2> QED BY <2>1 DEF Processes
<1>11. PICK om, em : om = OpMetas(tids) /\ em = EntityMetas(ids) OBVIOUS
<1>12. om \in Seq(AnEvent) /\ em \in Seq(AnEvent) /\ Len(om) = 2 * Len(tids) /\ Len(em) = 2 * Len(ids)
  BY <1>8, <1>9, <1>11
<1>13. PICK a : a = out \o left /\ a \in Seq(AnEvent) /\ Joined(a, out, left) BY <1>2, <1>5, Joins
<1>14. PICK b : b = a \o Processes /\ b \in Seq(AnEvent) /\ Joined(b, a, Processes) BY <1>10, <1>13, Joins
<1>15. PICK c : c = b \o om /\ c \in Seq(AnEvent) /\ Joined(c, b, om) BY <1>12, <1>14, Joins
<1>16. out' \in Seq(AnEvent) /\ Joined(out', c, em)
  <2>1. out' = c \o em BY <1>1, <1>11, <1>13, <1>14, <1>15
  <2> QED BY <1>12, <1>15, <2>1, Joins
<1>17. /\ Len(out) \in Nat /\ Len(left) \in Nat /\ Len(tids) \in Nat /\ Len(ids) \in Nat
       /\ Len(b) = PlaceOfMetas(left) /\ Len(c) = PlaceOfMetas(left) + 2 * Len(tids)
       /\ Len(a) = Len(out) + Len(left)
  BY <1>2, <1>5, <1>6, <1>7, <1>10, <1>12, <1>13, <1>14, <1>15 DEF PlaceOfMetas, Joined
<1> HIDE DEF tids
<1>18. DOMAIN out' = 1 .. PlaceOfMetas(left) + 2 * Len(tids) + 2 * Len(ids) BY <1>12, <1>16, <1>17 DEF Joined
<1>19. \A i \in 1 .. Len(out) : out'[i] = out[i]
  <2>1. SUFFICES ASSUME NEW i \in 1 .. Len(out) PROVE out'[i] = out[i] OBVIOUS
  <2>2. i \in 1 .. Len(a) /\ i \in 1 .. Len(b) /\ i \in 1 .. Len(c) BY <1>17, <2>1 DEF PlaceOfMetas
  <2> QED BY <1>13, <1>14, <1>15, <1>16, <2>1, <2>2 DEF Joined
<1>20. \A i \in 1 .. Len(left) : out'[Len(out) + i] = left[i]
  <2>1. SUFFICES ASSUME NEW i \in 1 .. Len(left) PROVE out'[Len(out) + i] = left[i] OBVIOUS
  <2>2. Len(out) + i \in 1 .. Len(a) /\ Len(out) + i \in 1 .. Len(b) /\ Len(out) + i \in 1 .. Len(c)
    BY <1>17, <2>1 DEF PlaceOfMetas
  <2> QED BY <1>13, <1>14, <1>15, <1>16, <2>1, <2>2 DEF Joined
<1>21. \A i \in 1 .. 2 : out'[Len(out) + Len(left) + i] = Processes[i]
  <2>1. SUFFICES ASSUME NEW i \in 1 .. 2 PROVE out'[Len(out) + Len(left) + i] = Processes[i] OBVIOUS
  <2>2. Len(a) + i \in 1 .. Len(b) /\ Len(a) + i \in 1 .. Len(c) BY <1>17, <2>1 DEF PlaceOfMetas
  <2>3. b[Len(a) + i] = Processes[i] BY <1>10, <1>14, <2>1 DEF Joined
  <2>4. c[Len(a) + i] = b[Len(a) + i] BY <1>15, <2>2 DEF Joined
  <2>5. out'[Len(a) + i] = c[Len(a) + i] BY <1>16, <2>2 DEF Joined
  <2> QED BY <1>17, <2>3, <2>4, <2>5
<1>22. \A i \in 1 .. 2 * Len(tids) : out'[PlaceOfMetas(left) + i] = om[i]
  <2>1. SUFFICES ASSUME NEW i \in 1 .. 2 * Len(tids) PROVE out'[PlaceOfMetas(left) + i] = om[i] OBVIOUS
  <2>2. Len(b) + i \in 1 .. Len(c) BY <1>17, <2>1 DEF PlaceOfMetas
  <2> QED BY <1>12, <1>15, <1>16, <1>17, <2>1, <2>2 DEF Joined
<1>23. \A i \in 1 .. 2 * Len(ids) : out'[PlaceOfMetas(left) + 2 * Len(tids) + i] = em[i]
  BY <1>12, <1>16, <1>17 DEF Joined
<1> QED BY <1>16, <1>18, <1>19, <1>20, <1>21, <1>22, <1>23, <1>11 DEF Laid, tids

\* The lists that End takes are of what was kept.
LEMMA EndLists ==
    ASSUME TraceIInv, NEW left \in SetToSeqs(Waiting), NEW ids \in SetToSeqs(Range(entities))
    PROVE  /\ Len(left) \in Nat /\ DOMAIN left = 1 .. Len(left) /\ Distinct(left)
           /\ \A j \in 1 .. Len(left) : \E k \in DOMAIN casts : left[j] = casts[k]
           /\ \A k \in DOMAIN casts : \E j \in 1 .. Len(left) : left[j] = casts[k]
           /\ Len(ids) = Len(entities) /\ DOMAIN ids = 1 .. Len(ids) /\ Distinct(ids)
           /\ \A p \in 1 .. Len(ids) : ids[p] \in Range(entities)
           /\ \A id \in Range(entities) : \E p \in 1 .. Len(ids) : ids[p] = id
           /\ Len(SetToSeq(ops)) \in Nat /\ DOMAIN SetToSeq(ops) = 1 .. Len(SetToSeq(ops))
           /\ Distinct(SetToSeq(ops)) /\ \A p \in 1 .. Len(SetToSeq(ops)) : SetToSeq(ops)[p] \in ops
           /\ \A t \in ops : \E p \in 1 .. Len(SetToSeq(ops)) : SetToSeq(ops)[p] = t
<1>1. /\ entities \in Seq(Nat) /\ Distinct(entities) /\ IsFiniteSet(ops) /\ IsFiniteSet(DOMAIN casts)
  BY DEF TraceIInv, TraceTypes
<1>2. IsFiniteSet(Waiting)
  <2>1. [k \in DOMAIN casts |-> casts[k]] \in Surjection(DOMAIN casts, Waiting) BY DEF Waiting, Surjection
  <2> QED BY <1>1, <2>1, FS_Surjection
<1>3. IsFiniteSet(Range(entities)) /\ Cardinality(Range(entities)) = Len(entities)
  <2>1. DOMAIN entities = 1 .. Len(entities) /\ Len(entities) \in Nat BY <1>1
  <2>2. entities \in Bijection(1 .. Len(entities), Range(entities))
    BY <1>1, <2>1 DEF Bijection, Injection, IsInjective, Surjection, Range, Distinct
  <2>3. IsFiniteSet(1 .. Len(entities)) /\ Cardinality(1 .. Len(entities)) = Len(entities)
    <3>1. PICK n \in Nat : n = Len(entities) BY <2>1
    <3>2. IsFiniteSet(1 .. n) /\ Cardinality(1 .. n) = n BY FS_Interval
    <3> QED BY <3>1, <3>2
  <2> QED BY <2>2, <2>3, FS_Bijection DEF ExistsBijection
<1>4. left \in Seq(Waiting) /\ Distinct(left) /\ \A x \in Waiting : \E j \in 1 .. Len(left) : left[j] = x
  BY <1>2, ListsAre
<1>5. /\ ids \in Seq(Range(entities)) /\ Len(ids) = Len(entities) /\ Distinct(ids)
      /\ \A x \in Range(entities) : \E j \in 1 .. Len(ids) : ids[j] = x
  BY <1>3, ListsAre
<1>6. /\ SetToSeq(ops) \in Seq(ops) /\ Distinct(SetToSeq(ops))
      /\ \A t \in ops : \E p \in 1 .. Len(SetToSeq(ops)) : SetToSeq(ops)[p] = t
  BY <1>1, SomeList, ListsAre
<1>7. Len(left) \in Nat /\ DOMAIN left = 1 .. Len(left) /\ \A j \in 1 .. Len(left) : left[j] \in Waiting BY <1>4
<1>8. DOMAIN ids = 1 .. Len(ids) /\ \A p \in 1 .. Len(ids) : ids[p] \in Range(entities) BY <1>5
<1>9. /\ Len(SetToSeq(ops)) \in Nat /\ DOMAIN SetToSeq(ops) = 1 .. Len(SetToSeq(ops))
      /\ \A p \in 1 .. Len(SetToSeq(ops)) : SetToSeq(ops)[p] \in ops
  BY <1>6
<1>10. \A j \in 1 .. Len(left) : \E k \in DOMAIN casts : left[j] = casts[k] BY <1>7 DEF Waiting
<1>11. \A k \in DOMAIN casts : \E j \in 1 .. Len(left) : left[j] = casts[k] BY <1>4 DEF Waiting
<1> QED BY <1>4, <1>5, <1>6, <1>7, <1>8, <1>9, <1>10, <1>11

LEMMA PartsOf ==
    ASSUME NEW a \in Nat, NEW b \in Nat, NEW c \in Nat, NEW d \in Nat, NEW i \in 1 .. a + b + 2 + 2 * c + 2 * d
    PROVE  \/ i \in 1 .. a \/ i - a \in 1 .. b \/ i - (a + b) \in 1 .. 2
           \/ i - (a + b + 2) \in 1 .. 2 * c \/ i - (a + b + 2 + 2 * c) \in 1 .. 2 * d
OBVIOUS

\* After what was written and the Casts kept there are the names and places of the tracks: the
\* opcodes', and after them the entities'.
OpcodesAt(before, tids) ==
    \A p \in 1 .. Len(tids) :
        /\ before + (2 * p - 1) \in DOMAIN out' /\ before + 2 * p \in DOMAIN out'
        /\ out'[before + (2 * p - 1)] = Meta("thread_name", "opcode", tids[p])
        /\ out'[before + 2 * p] = Meta("thread_sort_index", "opcode", tids[p])
EntitiesAt(after, ids) ==
    \A p \in 1 .. Len(ids) :
        /\ after + (2 * p - 1) \in DOMAIN out' /\ after + 2 * p \in DOMAIN out'
        /\ out'[after + (2 * p - 1)] = Meta("thread_name", "entity", ids[p])
        /\ out'[after + 2 * p] = [Meta("thread_sort_index", "entity", ids[p]) EXCEPT !.dur = Place(ids[p])]

LEMMA TheRestIs ==
    ASSUME TraceIInv, NEW left \in SetToSeqs(Waiting), NEW ids \in SetToSeqs(Range(entities)),
           Laid(left, SetToSeq(ops), ids)
    PROVE  /\ OpcodesAt(PlaceOfMetas(left), SetToSeq(ops))
           /\ EntitiesAt(PlaceOfMetas(left) + 2 * Len(SetToSeq(ops)), ids)
           /\ \A i \in DOMAIN out' :
                \/ i \in DOMAIN out /\ out'[i] = out[i]
                \/ \E j \in 1 .. Len(left) : i = Len(out) + j /\ out'[i] = left[j]
                \/ i <= PlaceOfMetas(left) /\ out'[i].what = "process_name" /\ out'[i].ph = "M"
                \/ \E p \in 1 .. Len(SetToSeq(ops)) : i = PlaceOfMetas(left) + (2 * p - 1) \/ i = PlaceOfMetas(left) + 2 * p
                \/ \E p \in 1 .. Len(ids) : \/ i = PlaceOfMetas(left) + 2 * Len(SetToSeq(ops)) + (2 * p - 1)
                                            \/ i = PlaceOfMetas(left) + 2 * Len(SetToSeq(ops)) + 2 * p
<1>1. PICK tids : tids = SetToSeq(ops) OBVIOUS
<1>2. /\ Len(left) \in Nat /\ Len(ids) \in Nat /\ Len(tids) \in Nat /\ Len(out) \in Nat /\ DOMAIN out = 1 .. Len(out)
      /\ PlaceOfMetas(left) = Len(out) + Len(left) + 2
  <2>1. out \in Seq(AnEvent) /\ entities \in Seq(Nat) BY DEF TraceIInv, TraceTypes
  <2>2. Len(entities) \in Nat BY <2>1
  <2> QED BY <1>1, <2>1, <2>2, EndLists DEF PlaceOfMetas
<1>3. Laid(left, tids, ids) BY <1>1
<1>4. ASSUME NEW p \in 1 .. Len(tids)
      PROVE  /\ PlaceOfMetas(left) + (2 * p - 1) \in DOMAIN out' /\ PlaceOfMetas(left) + 2 * p \in DOMAIN out'
             /\ out'[PlaceOfMetas(left) + (2 * p - 1)] = Meta("thread_name", "opcode", tids[p])
             /\ out'[PlaceOfMetas(left) + 2 * p] = Meta("thread_sort_index", "opcode", tids[p])
  <2>1. 2 * p - 1 \in 1 .. 2 * Len(tids) /\ 2 * p \in 1 .. 2 * Len(tids) /\ p \in Nat \ {0} BY <1>2
  <2>2. OpMetas(tids)[2 * p - 1] = Meta("thread_name", "opcode", tids[p])
    BY <2>1, Twice DEF OpMetas
  <2>3. OpMetas(tids)[2 * p] = Meta("thread_sort_index", "opcode", tids[p])
    BY <2>1, Twice DEF OpMetas
  <2>4. /\ out'[PlaceOfMetas(left) + (2 * p - 1)] = OpMetas(tids)[2 * p - 1]
        /\ out'[PlaceOfMetas(left) + 2 * p] = OpMetas(tids)[2 * p]
    BY <1>3, <2>1 DEF Laid
  <2>5. PlaceOfMetas(left) + (2 * p - 1) \in DOMAIN out' /\ PlaceOfMetas(left) + 2 * p \in DOMAIN out'
    BY <1>2, <1>3, <2>1 DEF Laid
  <2> QED BY <2>2, <2>3, <2>4, <2>5
<1> DEFINE after == PlaceOfMetas(left) + 2 * Len(tids)
<1>5. ASSUME NEW p \in 1 .. Len(ids)
      PROVE  /\ after + (2 * p - 1) \in DOMAIN out' /\ after + 2 * p \in DOMAIN out'
             /\ out'[after + (2 * p - 1)] = Meta("thread_name", "entity", ids[p])
             /\ out'[after + 2 * p] = [Meta("thread_sort_index", "entity", ids[p]) EXCEPT !.dur = Place(ids[p])]
  <2>1. 2 * p - 1 \in 1 .. 2 * Len(ids) /\ 2 * p \in 1 .. 2 * Len(ids) /\ p \in Nat \ {0} BY <1>2
  <2> DEFINE name(id) == Meta("thread_name", "entity", id)
             sort(id) == [Meta("thread_sort_index", "entity", id) EXCEPT !.dur = Place(id)]
  <2>2. \A j \in 1 .. 2 * Len(ids) :
            EntityMetas(ids)[j] = IF j % 2 = 1 THEN name(ids[(j + 1) \div 2]) ELSE sort(ids[(j + 1) \div 2])
    BY DEF EntityMetas
  <2> HIDE DEF name, sort
  <2>3. EntityMetas(ids)[2 * p - 1] = name(ids[p]) BY <2>1, <2>2, Twice
  <2>4. EntityMetas(ids)[2 * p] = sort(ids[p]) BY <2>1, <2>2, Twice
  <2>5. /\ out'[after + (2 * p - 1)] = EntityMetas(ids)[2 * p - 1]
        /\ out'[after + 2 * p] = EntityMetas(ids)[2 * p]
    BY <1>3, <2>1 DEF Laid
  <2>6. after + (2 * p - 1) \in DOMAIN out' /\ after + 2 * p \in DOMAIN out' BY <1>2, <1>3, <2>1 DEF Laid
  <2> QED BY <2>3, <2>4, <2>5, <2>6 DEF name, sort
<1>6. ASSUME NEW i \in DOMAIN out'
      PROVE  \/ i \in DOMAIN out /\ out'[i] = out[i]
             \/ \E j \in 1 .. Len(left) : i = Len(out) + j /\ out'[i] = left[j]
             \/ i <= PlaceOfMetas(left) /\ out'[i].what = "process_name" /\ out'[i].ph = "M"
             \/ \E p \in 1 .. Len(tids) : i = PlaceOfMetas(left) + (2 * p - 1) \/ i = PlaceOfMetas(left) + 2 * p
             \/ \E p \in 1 .. Len(ids) : i = after + (2 * p - 1) \/ i = after + 2 * p
  <2>1. i \in 1 .. PlaceOfMetas(left) + 2 * Len(tids) + 2 * Len(ids) BY <1>3, <1>6 DEF Laid
  <2>2. CASE i \in 1 .. Len(out) BY <1>2, <1>3, <2>2 DEF Laid
  <2>3. CASE i - Len(out) \in 1 .. Len(left)
    <3>1. i = Len(out) + (i - Len(out)) BY <1>2, <2>1
    <3>2. out'[i] = left[i - Len(out)] BY <1>3, <2>3, <3>1 DEF Laid
    <3> QED BY <2>3, <3>1, <3>2
  <2>4. CASE i - (Len(out) + Len(left)) \in 1 .. 2
    <3> DEFINE j == i - (Len(out) + Len(left))
    <3>1. i = Len(out) + Len(left) + j /\ i <= PlaceOfMetas(left) BY <1>2, <2>1, <2>4
    <3>2. out'[i] = Processes[j] BY <1>3, <2>4, <3>1 DEF Laid
    <3>3. j = 1 \/ j = 2 BY <2>4
    <3> HIDE DEF j
    <3>4. Processes[j].what = "process_name" /\ Processes[j].ph = "M" BY <3>3 DEF Processes, Meta
    <3> QED BY <3>1, <3>2, <3>4
  <2>5. CASE i - PlaceOfMetas(left) \in 1 .. 2 * Len(tids)
    <3> DEFINE j == i - PlaceOfMetas(left)
               p == (j + 1) \div 2
    <3>1. j \in 1 .. 2 * Len(tids) /\ i = PlaceOfMetas(left) + j BY <1>2, <2>1, <2>5
    <3> HIDE DEF j
    <3>2. p \in 1 .. Len(tids) /\ (j = 2 * p - 1 \/ j = 2 * p) BY <1>2, <3>1, Halves
    <3> HIDE DEF p
    <3> QED BY <3>1, <3>2
  <2>6. CASE i - after \in 1 .. 2 * Len(ids)
    <3> DEFINE j == i - after
               p == (j + 1) \div 2
    <3>1. j \in 1 .. 2 * Len(ids) /\ i = after + j BY <1>2, <2>1, <2>6
    <3> HIDE DEF j
    <3>2. p \in 1 .. Len(ids) /\ (j = 2 * p - 1 \/ j = 2 * p) BY <1>2, <3>1, Halves
    <3> HIDE DEF p
    <3> QED BY <3>1, <3>2
  <2>7. \/ i \in 1 .. Len(out) \/ i - Len(out) \in 1 .. Len(left) \/ i - (Len(out) + Len(left)) \in 1 .. 2
        \/ i - PlaceOfMetas(left) \in 1 .. 2 * Len(tids) \/ i - after \in 1 .. 2 * Len(ids)
    BY <1>2, <2>1, PartsOf
  <2> QED BY <2>2, <2>3, <2>4, <2>5, <2>6, <2>7
<1>7. OpcodesAt(PlaceOfMetas(left), tids) BY <1>4 DEF OpcodesAt
<1>8. EntitiesAt(after, ids) BY <1>5 DEF EntitiesAt
<1> HIDE DEF after
<1>9. after = PlaceOfMetas(left) + 2 * Len(tids) BY DEF after
<1> QED BY <1>1, <1>6, <1>7, <1>8, <1>9

LEMMA MetaSays ==
    ASSUME NEW what, NEW pid, NEW tid, NEW n
    PROVE  /\ Meta(what, pid, tid).ph = "M" /\ Meta(what, pid, tid).what = what
           /\ Meta(what, pid, tid).pid = pid /\ Meta(what, pid, tid).tid = tid
           /\ [Meta(what, pid, tid) EXCEPT !.dur = n].ph = "M" /\ [Meta(what, pid, tid) EXCEPT !.dur = n].what = what
           /\ [Meta(what, pid, tid) EXCEPT !.dur = n].pid = pid /\ [Meta(what, pid, tid) EXCEPT !.dur = n].tid = tid
           /\ [Meta(what, pid, tid) EXCEPT !.dur = n].dur = n
BY DEF Meta

\* All but those are what was written before, and the Casts kept.
LEMMA OldOrLeft ==
    ASSUME TraceIInv, NEW left \in SetToSeqs(Waiting), NEW ids \in SetToSeqs(Range(entities)),
           Laid(left, SetToSeq(ops), ids), NEW i \in DOMAIN out', out'[i].ph # "M" \/ out'[i].what = "Cast"
    PROVE  \/ i \in DOMAIN out /\ out'[i] = out[i]
           \/ \E j \in 1 .. Len(left) : i = Len(out) + j /\ out'[i] = left[j]
<1>1. PICK tids, after : tids = SetToSeq(ops) /\ after = PlaceOfMetas(left) + 2 * Len(SetToSeq(ops)) OBVIOUS
<1>2. ASSUME NEW p \in 1 .. Len(tids), i = PlaceOfMetas(left) + (2 * p - 1) \/ i = PlaceOfMetas(left) + 2 * p PROVE FALSE
  <2>1. \/ out'[i] = Meta("thread_name", "opcode", tids[p])
        \/ out'[i] = Meta("thread_sort_index", "opcode", tids[p])
    <3>1. OpcodesAt(PlaceOfMetas(left), tids) BY <1>1, TheRestIs
    <3> QED BY <1>2, <3>1 DEF OpcodesAt
  <2> QED BY <2>1, MetaSays
<1>3. ASSUME NEW p \in 1 .. Len(ids), i = after + (2 * p - 1) \/ i = after + 2 * p PROVE FALSE
  <2> DEFINE sort == [Meta("thread_sort_index", "entity", ids[p]) EXCEPT !.dur = Place(ids[p])]
  <2>1. /\ out'[after + (2 * p - 1)] = Meta("thread_name", "entity", ids[p])
        /\ out'[after + 2 * p] = sort
    <3>1. EntitiesAt(after, ids) BY <1>1, TheRestIs
    <3> HIDE DEF sort
    <3>2. sort = [Meta("thread_sort_index", "entity", ids[p]) EXCEPT !.dur = Place(ids[p])] BY DEF sort
    <3> QED BY <3>1, <3>2 DEF EntitiesAt
  <2>2. sort.ph = "M" /\ sort.what = "thread_sort_index" BY MetaSays
  <2> HIDE DEF sort
  <2>3. out'[i] = Meta("thread_name", "entity", ids[p]) \/ out'[i] = sort BY <1>3, <2>1
  <2> QED BY <2>2, <2>3, MetaSays
<1>4. ~(i <= PlaceOfMetas(left) /\ out'[i].what = "process_name" /\ out'[i].ph = "M") OBVIOUS
<1>5. \/ i \in DOMAIN out /\ out'[i] = out[i]
      \/ \E j \in 1 .. Len(left) : i = Len(out) + j /\ out'[i] = left[j]
      \/ i <= PlaceOfMetas(left) /\ out'[i].what = "process_name" /\ out'[i].ph = "M"
      \/ \E p \in 1 .. Len(tids) : i = PlaceOfMetas(left) + (2 * p - 1) \/ i = PlaceOfMetas(left) + 2 * p
      \/ \E p \in 1 .. Len(ids) : i = after + (2 * p - 1) \/ i = after + 2 * p
  BY <1>1, TheRestIs
<1> QED BY <1>2, <1>3, <1>4, <1>5, Zenon

\* What End leaves alone.
LEMMA EndKeeps ==
    ASSUME TraceIInv, End
    PROVE  /\ added' = added /\ ops' = ops /\ entities' = entities /\ named' = named /\ casts' = casts
           /\ ~ended /\ ended' = TRUE
           /\ \A n : /\ (IsCast(n))' = IsCast(n) /\ TheInstant(n)' = TheInstant(n) /\ Following(n)' = Following(n)
                     /\ (Key(added[n].m))' = Key(added[n].m)
           /\ \A n, d : WrittenAs(n, d)' = WrittenAs(n, d)
<1>1. /\ added' = added /\ ops' = ops /\ entities' = entities /\ named' = named /\ casts' = casts
      /\ ~ended /\ ended' = TRUE
  BY DEF End
<1>2. \A n : /\ (IsCast(n))' = IsCast(n) /\ TheInstant(n)' = TheInstant(n) /\ Following(n)' = Following(n)
             /\ (Key(added[n].m))' = Key(added[n].m)
  BY <1>1 DEF IsCast, TheInstant, Following, Key
<1>3. ASSUME NEW n, NEW d PROVE WrittenAs(n, d)' = WrittenAs(n, d)
  <2>1. (IsCast(d))' = IsCast(d) /\ TheInstant(n)' = TheInstant(n) BY <1>2
  <2> QED BY <1>1, <2>1 DEF WrittenAs
<1> QED BY <1>1, <1>2, <1>3

LEMMA EndFates == ASSUME TraceIInv, End PROVE KeptAre' /\ Fates'
<1>1. PICK left \in SetToSeqs(Waiting), ids \in SetToSeqs(Range(entities)) : Laid(left, SetToSeq(ops), ids)
  BY EndDoes
<1>2. /\ added' = added /\ casts' = casts /\ ended' = TRUE /\ ~ended
      /\ \A n : /\ (IsCast(n))' = IsCast(n) /\ TheInstant(n)' = TheInstant(n) /\ Following(n)' = Following(n)
                /\ (Key(added[n].m))' = Key(added[n].m)
      /\ \A n, d : WrittenAs(n, d)' = WrittenAs(n, d)
  BY EndKeeps
<1>3. KeptAre'
  <2> SUFFICES ASSUME NEW k \in DOMAIN casts
               PROVE  \E n \in DOMAIN added : /\ IsCast(n) /\ Key(added[n].m) = k
                                              /\ Following(n) = {} /\ casts[k] = TheInstant(n)
    BY <1>2 DEF KeptAre
  <2> QED BY DEF TraceIInv, KeptAre
<1>4. /\ Len(left) \in Nat /\ DOMAIN left = 1 .. Len(left) /\ Distinct(left)
      /\ \A j \in 1 .. Len(left) : \E k \in DOMAIN casts : left[j] = casts[k]
      /\ \A k \in DOMAIN casts : \E j \in 1 .. Len(left) : left[j] = casts[k]
  BY EndLists
<1>5. out \in Seq(AnEvent) /\ DOMAIN out = 1 .. Len(out) /\ Len(out) \in Nat BY DEF TraceIInv, TraceTypes
<1>6. \A i \in DOMAIN out : i \in DOMAIN out' /\ out'[i] = out[i]
  <2>1. Len(SetToSeq(ops)) \in Nat /\ Len(ids) \in Nat
    <3>1. entities \in Seq(Nat) BY DEF TraceIInv, TraceTypes
    <3> QED BY <3>1, EndLists
  <2> QED BY <1>1, <1>4, <1>5, <2>1 DEF Laid, PlaceOfMetas
<1>7. \A j \in 1 .. Len(left) : Len(out) + j \in DOMAIN out' \ DOMAIN out /\ out'[Len(out) + j] = left[j]
  <2>1. Len(SetToSeq(ops)) \in Nat /\ Len(ids) \in Nat
    <3>1. entities \in Seq(Nat) BY DEF TraceIInv, TraceTypes
    <3> QED BY <3>1, EndLists
  <2> QED BY <1>1, <1>4, <1>5, <2>1 DEF Laid, PlaceOfMetas
<1>8. ASSUME NEW i \in DOMAIN out' \ DOMAIN out, out'[i].what = "Cast"
      PROVE  \E j \in 1 .. Len(left) : i = Len(out) + j /\ out'[i] = left[j]
  BY <1>1, <1>8, OldOrLeft
<1>9. \A j \in 1 .. Len(left) : /\ left[j].pid = "entity" /\ left[j].what = "Cast"
                                /\ \E n \in DOMAIN added : Following(n) = {} /\ left[j] = TheInstant(n)
  <2> TAKE j \in 1 .. Len(left)
  <2>1. PICK k \in DOMAIN casts : left[j] = casts[k] BY <1>4
  <2>2. \E n \in DOMAIN added : Following(n) = {} /\ casts[k] = TheInstant(n) BY DEF TraceIInv, KeptAre
  <2> QED BY <2>1, <2>2, KeptIs
<1>10. \A n : TheInstant(n).of = n BY DEF TheInstant, Instant
<1>14. ASSUME NEW j \in 1 .. Len(left) PROVE left[j] = TheInstant(left[j].of) /\ Following(left[j].of) = {}
  <2>1. PICK n \in DOMAIN added : Following(n) = {} /\ left[j] = TheInstant(n) BY <1>9
  <2>2. left[j].of = n BY <1>10, <2>1
  <2> QED BY <2>1, <2>2
<1>11. ASSUME NEW n
       PROVE  EventsOf(n)' = EventsOf(n) \cup {Len(out) + j : j \in {j \in 1 .. Len(left) : left[j].of = n}}
  <2> DEFINE E == {Len(out) + j : j \in {j \in 1 .. Len(left) : left[j].of = n}}
  <2>1. EventsOf(n)' = {i \in DOMAIN out' : out'[i].pid = "entity" /\ out'[i].what = "Cast" /\ out'[i].of = n}
    BY DEF EventsOf
  <2>2. ASSUME NEW i \in EventsOf(n)' PROVE i \in EventsOf(n) \cup E
    <3>1. CASE i \in DOMAIN out BY <1>6, <2>1, <2>2, <3>1 DEF EventsOf
    <3>2. CASE i \notin DOMAIN out
      <4>1. PICK j \in 1 .. Len(left) : i = Len(out) + j /\ out'[i] = left[j] BY <1>8, <2>1, <2>2, <3>2
      <4>2. left[j].of = n BY <2>1, <2>2, <4>1
      <4> QED BY <4>1, <4>2
    <3> QED BY <3>1, <3>2
  <2>3. EventsOf(n) \subseteq EventsOf(n)' BY <1>6, <2>1 DEF EventsOf
  <2>4. ASSUME NEW j \in 1 .. Len(left), left[j].of = n PROVE Len(out) + j \in EventsOf(n)'
    BY <1>7, <1>9, <2>1, <2>4
  <2> QED BY <2>2, <2>3, <2>4
<1>12. ASSUME NEW n \in DOMAIN added, IsCast(n) PROVE (WaitsFor(n))' \/ (IsDecided(n))'
  <2>1. WaitsFor(n) \/ IsDecided(n) BY <1>12 DEF TraceIInv, Fates
  <2>2. CASE WaitsFor(n)
    <3>1. /\ Following(n) = {} /\ Key(added[n].m) \in DOMAIN casts /\ casts[Key(added[n].m)] = TheInstant(n)
          /\ EventsOf(n) = {}
      BY <1>2, <2>2 DEF WaitsFor
    <3>2. PICK j \in 1 .. Len(left) : left[j] = TheInstant(n)
      <4>1. \E j \in 1 .. Len(left) : left[j] = casts[Key(added[n].m)] BY <1>4, <3>1
      <4> QED BY <3>1, <4>1
    <3>3. \A h \in 1 .. Len(left) : left[h].of = n => h = j BY <1>4, <1>14, <3>2 DEF Distinct
    <3>4. {h \in 1 .. Len(left) : left[h].of = n} = {j} BY <1>10, <3>2, <3>3
    <3>5. EventsOf(n)' = {Len(out) + j} BY <1>11, <3>1, <3>4
    <3>6. PICK i : i = Len(out) + j OBVIOUS
    <3>7. i \in DOMAIN out' /\ out'[i] = TheInstant(n)' BY <1>2, <1>7, <3>2, <3>6
    <3>8. OnlyEvent(n, TheInstant(n))' BY <3>5, <3>6, <3>7 DEF OnlyEvent
    <3> QED BY <1>2, <3>1, <3>8 DEF WaitsFor
  <2>3. CASE IsDecided(n)
    <3>1. PICK d \in Nat : FirstOf(n, d) /\ OnlyEvent(n, WrittenAs(n, d)) BY <2>3 DEF IsDecided
    <3>2. Following(n) # {} BY <3>1 DEF FirstOf
    <3>3. {h \in 1 .. Len(left) : left[h].of = n} = {} BY <1>14, <3>2
    <3>4. EventsOf(n)' = EventsOf(n) BY <1>11, <3>3
    <3>5. PICK i \in DOMAIN out : EventsOf(n) = {i} /\ out[i] = WrittenAs(n, d) BY <3>1 DEF OnlyEvent
    <3>6. i \in DOMAIN out' /\ out'[i] = WrittenAs(n, d)' BY <1>2, <1>6, <3>5
    <3>7. OnlyEvent(n, WrittenAs(n, d))' BY <3>4, <3>5, <3>6 DEF OnlyEvent
    <3>8. (FirstOf(n, d))' BY <1>2, <3>1 DEF FirstOf
    <3> QED BY <3>7, <3>8 DEF IsDecided
  <2> QED BY <2>1, <2>2, <2>3
<1>13. Fates' BY <1>2, <1>12 DEF Fates
<1> QED BY <1>3, <1>13

LEMMA EndTypes == ASSUME TraceIInv, End PROVE TraceTypes'
<1>1. out' \in Seq(AnEvent) BY EndDoes DEF Laid
<1> QED BY <1>1, EndKeeps DEF TraceIInv, TraceTypes

LEMMA EndOnTracks == ASSUME TraceIInv, End PROVE OnTracks'
<1>1. PICK left \in SetToSeqs(Waiting), ids \in SetToSeqs(Range(entities)) : Laid(left, SetToSeq(ops), ids)
  BY EndDoes
<1>2. /\ added' = added /\ ops' = ops /\ entities' = entities /\ casts' = casts /\ ended' = TRUE /\ ~ended
  BY EndKeeps
<1>3. ASSUME NEW i \in DOMAIN out', out'[i].ph # "M" \/ out'[i].what = "Cast"
      PROVE  \/ i \in DOMAIN out /\ out'[i] = out[i]
             \/ \E k \in DOMAIN casts : out'[i] = casts[k]
  <2>1. \/ i \in DOMAIN out /\ out'[i] = out[i]
        \/ \E j \in 1 .. Len(left) : i = Len(out) + j /\ out'[i] = left[j]
    BY <1>1, <1>3, OldOrLeft
  <2> QED BY <2>1, EndLists
<1>4. OnTracks BY DEF TraceIInv
<1>5. \A i \in DOMAIN out' : out'[i].pid = "entity" /\ out'[i].what = "Cast" => out'[i].of \in DOMAIN added
  BY <1>3, <1>4, KeptIs DEF OnTracks
<1>6. ASSUME NEW i \in DOMAIN out', out'[i].ph # "M"
      PROVE  IF out'[i].pid = "opcode" THEN out'[i].tid \in ops ELSE out'[i].tid \in Range(entities)
  <2>1. CASE i \in DOMAIN out /\ out'[i] = out[i] BY <1>4, <1>6, <2>1 DEF OnTracks
  <2>2. CASE \E k \in DOMAIN casts : out'[i] = casts[k] BY <2>2, KeptIs
  <2> QED BY <1>3, <1>6, <2>1, <2>2
<1>7. \A k \in DOMAIN casts : casts[k].tid \in Range(entities) BY <1>4 DEF OnTracks
<1> QED BY <1>2, <1>5, <1>6, <1>7 DEF OnTracks

\* Every track has its name once, and the entities their places.
LEMMA EndTracksAreNamed == ASSUME TraceIInv, End PROVE TracksAreNamed'
<1>1. PICK left \in SetToSeqs(Waiting), ids \in SetToSeqs(Range(entities)) : Laid(left, SetToSeq(ops), ids)
  BY EndDoes
<1>2. PICK tids, before, after :
        tids = SetToSeq(ops) /\ before = PlaceOfMetas(left) /\ after = PlaceOfMetas(left) + 2 * Len(tids)
  OBVIOUS
<1> DEFINE sort(id) == [Meta("thread_sort_index", "entity", id) EXCEPT !.dur = Place(id)]
<1>3. \A id : /\ sort(id).what = "thread_sort_index" /\ sort(id).pid = "entity" /\ sort(id).dur = Place(id)
  BY MetaSays
<1>4. \A p \in 1 .. Len(tids) :
        /\ before + (2 * p - 1) \in DOMAIN out' /\ before + 2 * p \in DOMAIN out'
        /\ out'[before + (2 * p - 1)] = Meta("thread_name", "opcode", tids[p])
        /\ out'[before + 2 * p] = Meta("thread_sort_index", "opcode", tids[p])
  <2>1. OpcodesAt(before, tids) BY <1>1, <1>2, TheRestIs
  <2> QED BY <2>1 DEF OpcodesAt
<1>5. \A p \in 1 .. Len(ids) :
        /\ after + (2 * p - 1) \in DOMAIN out' /\ after + 2 * p \in DOMAIN out'
        /\ out'[after + (2 * p - 1)] = Meta("thread_name", "entity", ids[p])
        /\ out'[after + 2 * p] = sort(ids[p])
  <2>1. EntitiesAt(after, ids) BY <1>1, <1>2, TheRestIs
  <2> QED BY <2>1 DEF EntitiesAt
<1> HIDE DEF sort
<1>6. /\ Len(left) \in Nat /\ \A j \in 1 .. Len(left) : \E k \in DOMAIN casts : left[j] = casts[k]
      /\ Len(ids) = Len(entities) /\ DOMAIN ids = 1 .. Len(ids) /\ Distinct(ids)
      /\ \A p \in 1 .. Len(ids) : ids[p] \in Range(entities)
      /\ \A id \in Range(entities) : \E p \in 1 .. Len(ids) : ids[p] = id
      /\ Len(tids) \in Nat /\ DOMAIN tids = 1 .. Len(tids) /\ Distinct(tids)
      /\ \A t \in ops : \E p \in 1 .. Len(tids) : tids[p] = t
  BY <1>2, EndLists
<1>7. /\ entities \in Seq(Nat) /\ Len(entities) \in Nat /\ DOMAIN entities = 1 .. Len(entities) /\ Distinct(entities)
      /\ out \in Seq(AnEvent) /\ Len(out) \in Nat /\ named \subseteq Range(entities)
  BY DEF TraceIInv, TraceTypes
<1>8. /\ ops' = ops /\ entities' = entities /\ named' = named /\ ended' = TRUE /\ ~ended BY EndKeeps
<1>9. before \in Nat /\ after \in Nat BY <1>2, <1>6, <1>7 DEF PlaceOfMetas
<1>10. ASSUME NEW i \in DOMAIN out', out'[i].what \in {"thread_name", "thread_sort_index"}
       PROVE  \/ \E p \in 1 .. Len(tids) : i = before + (2 * p - 1) \/ i = before + 2 * p
              \/ \E p \in 1 .. Len(ids) : i = after + (2 * p - 1) \/ i = after + 2 * p
  <2>1. ~(i \in DOMAIN out /\ out'[i] = out[i])
    <3>1. i \in DOMAIN out => out[i].what \in Kinds BY <1>8 DEF TraceIInv, OnTracks
    <3> QED BY <1>10, <3>1 DEF Kinds
  <2>2. ~ \E j \in 1 .. Len(left) : i = Len(out) + j /\ out'[i] = left[j] BY <1>6, <1>10, KeptIs
  <2>3. ~(out'[i].what = "process_name") BY <1>10
  <2>4. \/ i \in DOMAIN out /\ out'[i] = out[i]
        \/ \E j \in 1 .. Len(left) : i = Len(out) + j /\ out'[i] = left[j]
        \/ i <= before /\ out'[i].what = "process_name" /\ out'[i].ph = "M"
        \/ \E p \in 1 .. Len(tids) : i = before + (2 * p - 1) \/ i = before + 2 * p
        \/ \E p \in 1 .. Len(ids) : i = after + (2 * p - 1) \/ i = after + 2 * p
    BY <1>1, <1>2, TheRestIs
  <2> QED BY <2>1, <2>2, <2>3, <2>4
\* The names, by where they are.
<1>11. ASSUME NEW i \in DOMAIN out', out'[i].what = "thread_name"
       PROVE  \/ \E p \in 1 .. Len(tids) :
                    i = before + (2 * p - 1) /\ out'[i].pid = "opcode" /\ out'[i].tid = tids[p]
              \/ \E p \in 1 .. Len(ids) :
                    i = after + (2 * p - 1) /\ out'[i].pid = "entity" /\ out'[i].tid = ids[p]
  <2>1. CASE \E p \in 1 .. Len(tids) : i = before + (2 * p - 1) \/ i = before + 2 * p
    <3>1. PICK p \in 1 .. Len(tids) : i = before + (2 * p - 1) \/ i = before + 2 * p BY <2>1
    <3>2. out'[before + 2 * p].what = "thread_sort_index" BY <1>4, MetaSays
    <3>3. i = before + (2 * p - 1) BY <1>11, <3>1, <3>2
    <3> QED BY <1>4, <3>3, MetaSays
  <2>2. CASE \E p \in 1 .. Len(ids) : i = after + (2 * p - 1) \/ i = after + 2 * p
    <3>1. PICK p \in 1 .. Len(ids) : i = after + (2 * p - 1) \/ i = after + 2 * p BY <2>2
    <3>2. out'[after + 2 * p].what = "thread_sort_index" BY <1>3, <1>5
    <3>3. i = after + (2 * p - 1) BY <1>11, <3>1, <3>2
    <3> QED BY <1>5, <3>3, MetaSays
  <2> QED BY <1>10, <1>11, <2>1, <2>2
<1>12. ASSUME NEW i \in DOMAIN out', out'[i].ph # "M"
       PROVE  Cardinality({j \in DOMAIN out' : /\ out'[j].what = "thread_name" /\ out'[j].pid = out'[i].pid
                                               /\ out'[j].tid = out'[i].tid}) = 1
  <2> DEFINE its == {j \in DOMAIN out' : /\ out'[j].what = "thread_name" /\ out'[j].pid = out'[i].pid
                                       /\ out'[j].tid = out'[i].tid}
  <2>1. /\ out'[i].pid \in {"opcode", "entity"}
        /\ IF out'[i].pid = "opcode" THEN out'[i].tid \in ops ELSE out'[i].tid \in Range(entities)
    <3>1. out' \in Seq(AnEvent) BY <1>1 DEF Laid
    <3>2. out'[i] \in AnEvent BY <1>12, <3>1, ElementIs
    <3>3. OnTracks' BY EndOnTracks
    <3> QED BY <1>8, <1>12, <3>2, <3>3 DEF OnTracks, AnEvent
  <2>2. \E j : its = {j}
    <3>1. CASE out'[i].pid = "opcode"
      <4>1. PICK p \in 1 .. Len(tids) : tids[p] = out'[i].tid BY <1>6, <2>1, <3>1
      <4>2. before + (2 * p - 1) \in its BY <1>4, <3>1, <4>1, MetaSays
      <4>3. ASSUME NEW j \in its PROVE j = before + (2 * p - 1)
        <5>1. PICK q \in 1 .. Len(tids) : j = before + (2 * q - 1) /\ out'[j].tid = tids[q]
          BY <1>11, <3>1
        <5>2. q = p BY <1>6, <4>1, <5>1 DEF Distinct
        <5> QED BY <5>1, <5>2
      <4> QED BY <4>2, <4>3
    <3>2. CASE out'[i].pid = "entity"
      <4>1. PICK p \in 1 .. Len(ids) : ids[p] = out'[i].tid BY <1>6, <2>1, <3>2
      <4>2. after + (2 * p - 1) \in its BY <1>5, <3>2, <4>1, MetaSays
      <4>3. ASSUME NEW j \in its PROVE j = after + (2 * p - 1)
        <5>1. PICK q \in 1 .. Len(ids) : j = after + (2 * q - 1) /\ out'[j].tid = ids[q]
          BY <1>11, <3>2
        <5>2. q = p BY <1>6, <4>1, <5>1 DEF Distinct
        <5> QED BY <5>1, <5>2
      <4> QED BY <4>2, <4>3
    <3> QED BY <2>1, <3>1, <3>2
  <2> HIDE DEF its
  <2>3. Cardinality(its) = 1 BY <2>2, FS_Singleton
  <2> QED BY <2>3 DEF its
<1>13. ASSUME NEW id \in named
       PROVE  \E j \in DOMAIN out' : out'[j].what = "thread_name" /\ out'[j].pid = "entity" /\ out'[j].tid = id
  <2>1. named \subseteq Range(entities) BY DEF TraceIInv, TraceTypes
  <2>2. PICK p \in 1 .. Len(ids) : ids[p] = id BY <1>6, <2>1
  <2>3. after + (2 * p - 1) \in DOMAIN out' /\ out'[after + (2 * p - 1)] = Meta("thread_name", "entity", id)
    BY <1>5, <2>2
  <2> QED BY <2>3, MetaSays
<1> DEFINE places == {j \in DOMAIN out' : out'[j].what = "thread_sort_index" /\ out'[j].pid = "entity"}
           nth == [p \in 1 .. Len(ids) |-> after + 2 * p]
<1>14. ASSUME NEW p \in 1 .. Len(ids)
       PROVE  after + 2 * p \in places /\ out'[after + 2 * p].dur = Place(ids[p])
  BY <1>3, <1>5
<1>15. ASSUME NEW j \in places PROVE \E p \in 1 .. Len(ids) : j = after + 2 * p
  <2>1. CASE \E p \in 1 .. Len(tids) : j = before + (2 * p - 1) \/ j = before + 2 * p
    <3>1. out'[j].pid = "opcode" BY <1>4, <2>1, MetaSays
    <3> QED BY <3>1
  <2>2. CASE \E p \in 1 .. Len(ids) : j = after + (2 * p - 1) \/ j = after + 2 * p
    <3>1. PICK p \in 1 .. Len(ids) : j = after + (2 * p - 1) \/ j = after + 2 * p BY <2>2
    <3>2. out'[after + (2 * p - 1)].what = "thread_name" BY <1>5, MetaSays
    <3> QED BY <3>1, <3>2
  <2> QED BY <1>10, <2>1, <2>2
<1> HIDE DEF places
<1>16. Cardinality(places) = Len(entities)
  <2>1. nth \in [1 .. Len(ids) -> places] BY <1>14
  <2>2. \A p, q \in 1 .. Len(ids) : nth[p] = nth[q] => p = q BY <1>6, <1>7, <1>9
  <2>3. \A j \in places : \E p \in 1 .. Len(ids) : nth[p] = j BY <1>15
  <2> HIDE DEF nth
  <2>4. nth \in Bijection(1 .. Len(ids), places)
    BY <2>1, <2>2, <2>3 DEF Bijection, Injection, Surjection, IsInjective
  <2>5. ExistsBijection(1 .. Len(ids), places) BY <2>4 DEF ExistsBijection
  <2> QED BY <1>6, <1>7, <2>5, FS_CountingElements
<1>17. {out'[j].dur : j \in places} = 0 .. Len(entities) - 1
  <2>1. ASSUME NEW j \in places PROVE out'[j].dur \in 0 .. Len(entities) - 1
    <3>1. PICK p \in 1 .. Len(ids) : j = after + 2 * p BY <1>15
    <3>2. PICK e \in DOMAIN entities : entities[e] = ids[p] BY <1>6 DEF Range
    <3>3. out'[j].dur = e - 1 BY <1>7, <1>14, <3>1, <3>2, PlaceIs
    <3> QED BY <1>7, <3>3
  <2>2. ASSUME NEW n \in 0 .. Len(entities) - 1 PROVE \E j \in places : out'[j].dur = n
    <3>1. n + 1 \in DOMAIN entities BY <1>7
    <3>2. PICK p \in 1 .. Len(ids) : ids[p] = entities[n + 1] BY <1>6, <3>1 DEF Range
    <3>3. out'[after + 2 * p].dur = (n + 1) - 1 BY <1>7, <1>14, <3>1, <3>2, PlaceIs
    <3> QED BY <1>14, <3>3
  <2> QED BY <2>1, <2>2
<1> QED BY <1>8, <1>12, <1>13, <1>16, <1>17 DEF TracksAreNamed, places

-----------------------------------------------------------------------------
\* The invariant, and what follows.

LEMMA TraceInitIInv == TraceInit => TraceIInv
<1> SUFFICES ASSUME TraceInit PROVE TraceIInv OBVIOUS
<1>1. /\ added = <<>> /\ ops = {} /\ entities = <<>> /\ named = {} /\ casts = <<>> /\ out = <<>>
      /\ ended = FALSE
  BY DEF TraceInit
<1>2. TraceTypes
  <2>1. \A S : <<>> \in Seq(S) OBVIOUS
  <2>2. DOMAIN <<>> = {} OBVIOUS
  <2>3. IsFiniteSet({}) BY FS_EmptySet
  <2>4. added \in Seq([m : AMessage, time : Nat]) BY <1>1, <2>1
  <2>5. out \in Seq(AnEvent) BY <1>1, <2>1
  <2>6. entities \in Seq(Nat) /\ Distinct(entities) BY <1>1, <2>1, <2>2 DEF Distinct
  <2>7. IsFiniteSet(DOMAIN casts) BY <1>1, <2>2, <2>3
  <2> QED BY <1>1, <2>3, <2>4, <2>5, <2>6, <2>7 DEF TraceTypes
<1> QED BY <1>1, <1>2 DEF TraceIInv, KeptAre, Fates, OnTracks, TracksAreNamed

LEMMA TraceStutters == ASSUME TraceIInv, UNCHANGED traceVars PROVE TraceIInv'
<1>1. /\ added' = added /\ ops' = ops /\ entities' = entities /\ named' = named /\ casts' = casts
      /\ out' = out /\ ended' = ended
  BY DEF traceVars
<1>2. TraceTypes' BY <1>1 DEF TraceIInv, TraceTypes
<1>3. KeptAre' BY <1>1 DEF TraceIInv, KeptAre, IsCast, Key, Following, TheInstant
<1>4. Fates'
  BY <1>1 DEF TraceIInv, Fates, WaitsFor, IsDecided, OnlyEvent, EventsOf, FirstOf, WrittenAs, IsCast, Key, Following, TheInstant
<1>5. OnTracks' BY <1>1 DEF TraceIInv, OnTracks
<1>6. TracksAreNamed' BY <1>1 DEF TraceIInv, TracksAreNamed
<1> QED BY <1>2, <1>3, <1>4, <1>5, <1>6 DEF TraceIInv

LEMMA TraceNextIInv == TraceIInv /\ [TraceNext]_traceVars => TraceIInv'
<1> SUFFICES ASSUME TraceIInv, [TraceNext]_traceVars PROVE TraceIInv' OBVIOUS
<1>1. ASSUME NEW m \in Messages, NEW time \in Times, Add(m, time) PROVE TraceIInv'
  BY <1>1, AddTypes, AddKeptAre, AddFates, AddOnTracks DEF TraceIInv
<1>2. CASE End BY <1>2, EndTypes, EndFates, EndOnTracks, EndTracksAreNamed DEF TraceIInv
<1>3. CASE UNCHANGED traceVars BY <1>3, TraceStutters
<1> QED BY <1>1, <1>2, <1>3 DEF TraceNext

LEMMA TraceInvariant == TraceSpec => []TraceIInv
BY TraceInitIInv, TraceNextIInv, PTL DEF TraceSpec

LEMMA TraceIInvTypeOK == TraceIInv => TraceTypeOK
BY KeptIs DEF TraceIInv, TraceTypes, TraceTypeOK, Distinct

LEMMA TraceIInvOnce == TraceIInv => EachCastOnce
<1> SUFFICES ASSUME TraceIInv, NEW n \in DOMAIN added, IsCast(n)
             PROVE  IF ~ended /\ \E k \in DOMAIN casts : casts[k].of = n
                    THEN EventsOf(n) = {} ELSE Cardinality(EventsOf(n)) = 1
  BY DEF EachCastOnce
<1>1. WaitsFor(n) \/ IsDecided(n) BY DEF TraceIInv, Fates
<1>2. \A d : TheInstant(d).of = d BY DEF TheInstant, Instant
<1>3. \A e : OnlyEvent(n, e) => Cardinality(EventsOf(n)) = 1 BY FS_Singleton DEF OnlyEvent
<1>4. CASE WaitsFor(n)
  <2>1. CASE ended BY <1>3, <1>4, <2>1 DEF WaitsFor
  <2>2. CASE ~ended
    <3>1. EventsOf(n) = {} /\ \E k \in DOMAIN casts : casts[k].of = n BY <1>2, <1>4, <2>2 DEF WaitsFor
    <3> QED BY <2>2, <3>1
  <2> QED BY <2>1, <2>2
<1>5. CASE IsDecided(n)
  <2>1. Following(n) # {} /\ Cardinality(EventsOf(n)) = 1 BY <1>3, <1>5 DEF IsDecided, FirstOf
  <2>2. \A k \in DOMAIN casts : casts[k].of # n BY <1>2, <2>1 DEF TraceIInv, KeptAre
  <2> QED BY <2>1, <2>2
<1> QED BY <1>1, <1>4, <1>5

LEMMA TraceIInvSlices == TraceIInv => SlicesAreCasts
<1> SUFFICES ASSUME TraceIInv, NEW n \in DOMAIN added, IsCast(n), NEW i \in EventsOf(n), NEW d, d = Decider(n)
             PROVE  IF d # 0 /\ ~IsCast(d)
                    THEN /\ out[i].ph = "X"
                         /\ out[i].ts = added[n].time - added[1].time
                         /\ out[i].ts + out[i].dur = added[d].time - added[1].time
                    ELSE out[i].ph = "i"
  BY DEF SlicesAreCasts
<1>1. added \in Seq([m : AMessage, time : Nat]) BY DEF TraceIInv, TraceTypes
<1>2. DOMAIN added = 1 .. Len(added) /\ Len(added) \in Nat /\ \A j \in DOMAIN added : added[j].time \in Nat
  <2>1. \A j \in DOMAIN added : added[j] \in [m : AMessage, time : Nat] BY <1>1, ElementIs
  <2> QED BY <1>1, <2>1
<1>3. d = IF Following(n) = {} THEN 0 ELSE CHOOSE j \in Following(n) : \A h \in Following(n) : j <= h BY DEF Decider, Following
<1>4. TheInstant(n).ph = "i" /\ TheInstant(n).ts = added[n].time - added[1].time BY DEF TheInstant, Instant
<1>5. CASE WaitsFor(n)
  <2>1. d = 0 BY <1>3, <1>5 DEF WaitsFor
  <2>2. out[i] = TheInstant(n) BY <1>5 DEF WaitsFor, OnlyEvent
  <2> QED BY <1>4, <2>1, <2>2
<1>6. CASE IsDecided(n)
  <2>1. PICK f \in Nat : FirstOf(n, f) /\ OnlyEvent(n, WrittenAs(n, f)) BY <1>6 DEF IsDecided
  <2>2. f \in Following(n) /\ (\A h \in Following(n) : f <= h) /\ Following(n) # {} /\ f \in DOMAIN added
    BY <2>1 DEF FirstOf, Following
  <2>3. \A j \in Following(n) : j \in Nat BY <1>2 DEF Following
  <2>4. d = f BY <1>3, <2>2, <2>3
  <2>5. out[i] = WrittenAs(n, f) BY <2>1 DEF OnlyEvent
  <2>6. f # 0 BY <1>2, <2>2
  <2>7. CASE IsCast(f) BY <1>4, <2>4, <2>5, <2>7 DEF WrittenAs
  <2>8. CASE ~IsCast(f)
    <3> DEFINE t == added[f].time - added[1].time
    <3>1. out[i] = Slice(TheInstant(n), t) BY <2>5, <2>8 DEF WrittenAs
    <3>2. /\ Slice(TheInstant(n), t).ph = "X" /\ Slice(TheInstant(n), t).ts = TheInstant(n).ts
          /\ Slice(TheInstant(n), t).dur = t - TheInstant(n).ts
      BY DEF Slice, TheInstant, Instant
    <3>3. 1 \in DOMAIN added BY <1>2
    <3>4. TheInstant(n).ts \in Int /\ t \in Int BY <1>2, <1>4, <2>2, <3>3
    <3> HIDE DEF t
    <3>5. out[i].ts + out[i].dur = t BY <3>1, <3>2, <3>4
    <3> QED BY <1>4, <2>4, <2>6, <2>8, <3>1, <3>2, <3>5 DEF t
  <2> QED BY <2>7, <2>8
<1> QED BY <1>5, <1>6 DEF TraceIInv, Fates

\* Each Cast is in the trace once, as a slice with the end that is its own or as an instant, however
\* many are under way, whoever casts again and wherever times run back; and every track that has an
\* event or a name is named once, with a place of its own (add, end).
THEOREM TheTraceIsWhole == TraceSpec => []TraceIsWhole
<1>1. TraceIInv => TraceIsWhole
  BY TraceIInvTypeOK, TraceIInvOnce, TraceIInvSlices DEF TraceIsWhole, TraceIInv
<1> QED BY <1>1, TraceInvariant, PTL

-----------------------------------------------------------------------------
\* The analysis.  Places far apart: what is left of a number divided by Mod.

LEMMA Divided == ASSUME NEW M \in Nat \ {0}, NEW x \in Int PROVE x = M * (x \div M) + (x % M) /\ x % M \in 0 .. M - 1 /\ x \div M \in Int
OBVIOUS

LEMMA Quotient ==
    ASSUME NEW M \in Nat \ {0}, NEW x \in Int
    PROVE  \E j \in Int, r \in 0 .. M - 1 : r = x % M /\ x = M * j + r
BY Divided

LEMMA NoMultiple == ASSUME NEW M \in Nat \ {0}, NEW k \in Int, M * k \in -M + 1 .. M - 1 PROVE k = 0
<1>1. CASE k >= 1
  <2>1. M * k >= M BY <1>1
  <2> QED BY <2>1
<1>2. CASE k <= -1
  <2>1. M * k <= -M BY <1>2
  <2> QED BY <2>1
<1> QED BY <1>1, <1>2

LEMMA LeftOver ==
    ASSUME NEW M \in Nat \ {0}, NEW x \in Int, NEW k \in Int, NEW r \in 0 .. M - 1, x = M * k + r
    PROVE  x % M = r
<1>1. PICK j \in Int, s \in 0 .. M - 1 : j = x \div M /\ s = x % M /\ x = M * j + s BY Divided
<1>2. M * (j - k) = r - s BY <1>1
<1>3. r - s \in -M + 1 .. M - 1 OBVIOUS
<1>4. j - k = 0 BY <1>2, <1>3, NoMultiple
<1> QED BY <1>1, <1>4

LEMMA PlacesAfter ==
    ASSUME NEW i \in Seqs, NEW p \in Nat, NEW q \in Nat, p - q < Mod \div 2, q - p < Mod \div 2
    PROVE  /\ Plus(i, p) \in Seqs
           /\ After(Plus(i, p), Plus(i, q)) <=> p > q
<1>1. Mod \in Nat \ {0} /\ 2 * (Mod \div 2) = Mod /\ Mod \div 2 \in Nat BY ModAssumption
<1>2. i \in Nat BY <1>1 DEF Seqs
<1>3. PICK j \in Int, x \in 0 .. Mod - 1 : x = (i + p) % Mod /\ i + p = Mod * j + x
  <2>1. i + p \in Int BY <1>2
  <2> QED BY <1>1, <2>1, Quotient
<1>4. PICK k \in Int, y \in 0 .. Mod - 1 : y = (i + q) % Mod /\ i + q = Mod * k + y
  <2>1. i + q \in Int BY <1>2
  <2> QED BY <1>1, <2>1, Quotient
<1>5. x - y = Mod * (k - j) + (p - q)
  <2>1. Mod * (k - j) = Mod * k - Mod * j BY <1>1
  <2>2. PICK a, b \in Int : a = Mod * j /\ b = Mod * k BY <1>1
  <2>3. i + p = a + x /\ i + q = b + y BY <1>3, <1>4, <2>2
  <2> QED BY <1>2, <2>1, <2>2, <2>3
<1>6. Minus(x, y) = IF p >= q THEN p - q ELSE p - q + Mod
  <2>1. CASE p >= q
    <3>1. p - q \in 0 .. Mod - 1 /\ k - j \in Int BY <1>1, <2>1
    <3> QED BY <1>1, <1>5, <2>1, <3>1, LeftOver DEF Minus
  <2>2. CASE ~(p >= q)
    <3>1. p - q + Mod \in 0 .. Mod - 1 /\ k - j - 1 \in Int BY <1>1, <2>2
    <3>2. x - y = Mod * (k - j - 1) + (p - q + Mod)
      <4>1. Mod * (k - j - 1) = Mod * (k - j) - Mod BY <1>1
      <4> QED BY <1>1, <1>5, <4>1
    <3>3. (x - y) % Mod = p - q + Mod BY <1>1, <3>1, <3>2, LeftOver
    <3> QED BY <2>2, <3>3 DEF Minus
  <2> QED BY <2>1, <2>2
<1>7. x = Plus(i, p) /\ y = Plus(i, q) /\ x \in Seqs BY <1>3, <1>4 DEF Plus, Seqs
<1>8. Minus(x, y) \in 1 .. (Mod \div 2 - 1) <=> p > q BY <1>1, <1>6
<1> QED BY <1>7, <1>8 DEF After

-----------------------------------------------------------------------------
\* The least and the greatest of some numbers.

LEMMA BoundOf ==
    ASSUME NEW n \in Nat, NEW f \in [1 .. n -> Nat]
    PROVE  \E b \in Nat : \A i \in 1 .. n : f[i] <= b
<1> DEFINE S == {m \in Nat : m <= n => \E b \in Nat : \A i \in 1 .. m : f[i] <= b}
<1>1. 0 \in S OBVIOUS
<1>2. ASSUME NEW m \in Nat, m \in S PROVE m + 1 \in S
  <2> SUFFICES ASSUME m + 1 <= n PROVE \E b \in Nat : \A i \in 1 .. m + 1 : f[i] <= b OBVIOUS
  <2>1. PICK b \in Nat : \A i \in 1 .. m : f[i] <= b BY <1>2
  <2>2. f[m + 1] \in Nat OBVIOUS
  <2>3. PICK c \in Nat : c >= b /\ c >= f[m + 1] BY <2>2
  <2>4. ASSUME NEW i \in 1 .. m + 1 PROVE f[i] <= c
    <3>1. CASE i = m + 1 BY <2>3, <3>1
    <3>2. CASE i \in 1 .. m
      <4>1. f[i] <= b /\ f[i] \in Nat BY <2>1, <3>2
      <4> QED BY <2>3, <4>1
    <3> QED BY <3>1, <3>2
  <2> QED BY <2>3, <2>4
<1>3. n \in S
  <2> HIDE DEF S
  <2> QED BY <1>1, <1>2, EveryNatural
<1> QED BY <1>3

LEMMA LeastIs == ASSUME NEW S \in SUBSET Nat, S # {} PROVE Least(S) \in S /\ \A x \in S : Least(S) <= x
<1>1. \E n \in S : \A m \in S : n <= m BY LeastNatural
<1> QED BY <1>1 DEF Least

LEMMA GreatestIs ==
    ASSUME NEW S \in SUBSET Nat, S # {}, NEW b \in Nat, \A x \in S : x <= b
    PROVE  Greatest(S) \in S /\ \A x \in S : x <= Greatest(S)
<1> DEFINE T == {b - x : x \in S}
<1>1. T \in SUBSET Nat /\ T # {}
  <2>1. \A x \in S : b - x \in Nat OBVIOUS
  <2> QED BY <2>1
<1>2. PICK n \in T : \A m \in T : n <= m
  <2> HIDE DEF T
  <2> QED BY <1>1, LeastNatural
<1>3. PICK x \in S : n = b - x BY <1>2
<1>4. ASSUME NEW y \in S PROVE x >= y
  <2>1. n <= b - y BY <1>2
  <2> QED BY <1>3, <2>1
<1>5. \A y \in S : Greatest(S) >= y /\ Greatest(S) \in S BY <1>4 DEF Greatest
<1> QED BY <1>5

-----------------------------------------------------------------------------
\* What is in an order has its places, each one of its own.

StrictOrder(R, D) ==
    /\ \A i \in D : <<i, i>> \notin R
    /\ \A i, j \in D : i # j => <<i, j>> \in R \/ <<j, i>> \in R
    /\ \A i, j, k \in D : <<i, j>> \in R /\ <<j, k>> \in R => <<i, k>> \in R

\* How many are before i.
Ahead(R, D, i) == Cardinality({j \in D : <<j, i>> \in R})

LEMMA AheadLess ==
    ASSUME NEW D, IsFiniteSet(D), NEW R, StrictOrder(R, D), NEW i \in D, NEW j \in D, <<i, j>> \in R
    PROVE  Ahead(R, D, i) < Ahead(R, D, j)
<1> DEFINE I == {h \in D : <<h, i>> \in R}
           J == {h \in D : <<h, j>> \in R}
<1>1. IsFiniteSet(J) BY FS_Subset
<1>2. I \subseteq J /\ i \in J /\ i \notin I BY DEF StrictOrder
<1>3. Cardinality(I) <= Cardinality(J) /\ Cardinality(I) # Cardinality(J) /\ IsFiniteSet(I) BY <1>1, <1>2, FS_Subset
<1>4. Cardinality(I) \in Nat /\ Cardinality(J) \in Nat BY <1>1, <1>3, FS_CardinalityType
<1> QED BY <1>3, <1>4 DEF Ahead

EachHasPlace(R, D) ==
    /\ \A i \in D : Ahead(R, D, i) \in 0 .. Cardinality(D) - 1
    /\ \A i, j \in D : Ahead(R, D, i) = Ahead(R, D, j) => i = j
    /\ \A k \in 1 .. Cardinality(D) : \E i \in D : Ahead(R, D, i) = k - 1

LEMMA AheadIs == ASSUME NEW D, IsFiniteSet(D), NEW R, StrictOrder(R, D) PROVE EachHasPlace(R, D)
<1> DEFINE c == Cardinality(D)
           f == [i \in D |-> Ahead(R, D, i)]
<1>1. c \in Nat BY FS_CardinalityType
<1>2. ASSUME NEW i \in D PROVE Ahead(R, D, i) \in 0 .. c - 1
  <2> DEFINE I == {h \in D : <<h, i>> \in R}
  <2>1. I \subseteq D /\ i \notin I BY DEF StrictOrder
  <2>2. IsFiniteSet(I) /\ Cardinality(I) <= c /\ Cardinality(I) # c BY <2>1, FS_Subset
  <2>3. Cardinality(I) \in Nat BY <2>2, FS_CardinalityType
  <2> QED BY <1>1, <2>2, <2>3 DEF Ahead
<1>3. ASSUME NEW i \in D, NEW j \in D, Ahead(R, D, i) = Ahead(R, D, j) PROVE i = j
  <2>1. \A h \in D : Ahead(R, D, h) \in Int BY <1>2
  <2>2. CASE <<i, j>> \in R
    <3>1. Ahead(R, D, i) < Ahead(R, D, j) BY <2>2, AheadLess
    <3> QED BY <1>3, <2>1, <3>1
  <2>3. CASE <<j, i>> \in R
    <3>1. Ahead(R, D, j) < Ahead(R, D, i) BY <2>3, AheadLess
    <3> QED BY <1>3, <2>1, <3>1
  <2> QED BY <2>2, <2>3 DEF StrictOrder
<1>4. f \in Injection(D, 0 .. c - 1)
  <2>1. f \in [D -> 0 .. c - 1] BY <1>2
  <2>2. \A i, j \in D : f[i] = f[j] => i = j BY <1>3
  <2> HIDE DEF f
  <2> QED BY <2>1, <2>2 DEF Injection, IsInjective
<1>5. IsFiniteSet(0 .. c - 1) /\ Cardinality(0 .. c - 1) = c BY <1>1, FS_Interval
<1>6. f \in Surjection(D, 0 .. c - 1)
  <2> HIDE DEF f, c
  <2> QED BY <1>4, <1>5, FS_Injection DEF c
<1>7. ASSUME NEW k \in 1 .. c PROVE \E i \in D : Ahead(R, D, i) = k - 1
  <2>1. k - 1 \in 0 .. c - 1 BY <1>1
  <2>2. \E i \in D : f[i] = k - 1 BY <1>6, <2>1 DEF Surjection
  <2> QED BY <2>2
<1> QED BY <1>2, <1>3, <1>7 DEF EachHasPlace

-----------------------------------------------------------------------------
\* What is in some places of a sequence, and what is in the order of its times.

HasPlaces(S) ==
    /\ \A k \in 1 .. Cardinality(S) : Nth(S, k) \in S /\ Cardinality({j \in S : j < Nth(S, k)}) = k - 1
    /\ \A k \in 1 .. Cardinality(S), i \in S : Cardinality({j \in S : j < i}) = k - 1 => i = Nth(S, k)
    /\ \A i \in S : \E k \in 1 .. Cardinality(S) : i = Nth(S, k)

LEMMA NthIs ==
    ASSUME NEW n \in Nat, NEW S \in SUBSET (1 .. n)
    PROVE  IsFiniteSet(S) /\ Cardinality(S) \in Nat /\ Cardinality(S) <= n /\ HasPlaces(S)
<1> DEFINE R == {r \in S \X S : r[1] < r[2]}
<1>1. IsFiniteSet(S) /\ Cardinality(S) \in Nat /\ Cardinality(S) <= n
  <2>1. IsFiniteSet(1 .. n) /\ Cardinality(1 .. n) = n BY FS_Interval
  <2>2. IsFiniteSet(S) /\ Cardinality(S) <= n BY <2>1, FS_Subset
  <2> QED BY <2>2, FS_CardinalityType
<1>2. StrictOrder(R, S)
  <2>1. \A i, j \in S : <<i, j>> \in R <=> i < j OBVIOUS
  <2> HIDE DEF R
  <2>2. S \subseteq Int OBVIOUS
  <2> QED BY <2>1, <2>2 DEF StrictOrder
<1>3. \A i \in S : Ahead(R, S, i) = Cardinality({j \in S : j < i})
  <2> TAKE i \in S
  <2>1. {j \in S : <<j, i>> \in R} = {j \in S : j < i} OBVIOUS
  <2> QED BY <2>1 DEF Ahead
<1> HIDE DEF R
<1>4. /\ \A i \in S : Ahead(R, S, i) \in 0 .. Cardinality(S) - 1
      /\ \A i, j \in S : Ahead(R, S, i) = Ahead(R, S, j) => i = j
      /\ \A k \in 1 .. Cardinality(S) : \E i \in S : Ahead(R, S, i) = k - 1
  <2>1. EachHasPlace(R, S) BY <1>1, <1>2, AheadIs
  <2> QED BY <2>1 DEF EachHasPlace
<1>5. ASSUME NEW k \in 1 .. Cardinality(S)
      PROVE  Nth(S, k) \in S /\ Cardinality({j \in S : j < Nth(S, k)}) = k - 1
  <2>1. \E i \in S : Cardinality({j \in S : j < i}) = k - 1 BY <1>3, <1>4
  <2> QED BY <2>1 DEF Nth
<1>6. ASSUME NEW k \in 1 .. Cardinality(S), NEW i \in S, Cardinality({j \in S : j < i}) = k - 1
      PROVE  i = Nth(S, k)
  <2>1. Nth(S, k) \in S /\ Ahead(R, S, Nth(S, k)) = k - 1 BY <1>3, <1>5
  <2>2. Ahead(R, S, i) = k - 1 BY <1>3, <1>6
  <2> QED BY <1>4, <2>1, <2>2
<1>7. ASSUME NEW i \in S PROVE \E k \in 1 .. Cardinality(S) : i = Nth(S, k)
  <2>1. PICK m \in 0 .. Cardinality(S) - 1 : m = Cardinality({j \in S : j < i}) BY <1>3, <1>4
  <2>2. m + 1 \in 1 .. Cardinality(S) /\ (m + 1) - 1 = m BY <1>1
  <2> QED BY <1>6, <2>1, <2>2
<1> QED BY <1>1, <1>5, <1>6, <1>7 DEF HasPlaces

LEMMA ThoseAre ==
    ASSUME NEW A, NEW xs \in Seq(A), NEW S \in SUBSET (1 .. Len(xs))
    PROVE  /\ Those(xs, S) \in Seq(A) /\ Len(Those(xs, S)) = Cardinality(S)
           /\ Cardinality(S) \in Nat /\ Cardinality(S) <= Len(xs)
           /\ \A k \in 1 .. Cardinality(S) : Nth(S, k) \in S /\ Those(xs, S)[k] = xs[Nth(S, k)]
<1> DEFINE n == Len(xs)
<1>1. n \in Nat /\ \A i \in 1 .. n : xs[i] \in A OBVIOUS
<1> HIDE DEF n
<1>2. Cardinality(S) \in Nat /\ Cardinality(S) <= n /\ HasPlaces(S)
  <2>1. S \in SUBSET (1 .. n) BY DEF n
  <2> QED BY <1>1, <2>1, NthIs
<1>3. \A k \in 1 .. Cardinality(S) : Nth(S, k) \in S /\ xs[Nth(S, k)] \in A
  <2>1. S \subseteq 1 .. n BY DEF n
  <2> QED BY <1>1, <1>2, <2>1 DEF HasPlaces
<1>4. Those(xs, S) \in [1 .. Cardinality(S) -> A] BY <1>3 DEF Those
<1>5. Those(xs, S) \in Seq(A) /\ Len(Those(xs, S)) = Cardinality(S) BY <1>2, <1>4, IsSequence
<1> QED BY <1>2, <1>3, <1>5 DEF Those, n

\* What comes last is the last of them, or it is not one of them.
LEMMA ThoseGrow ==
    ASSUME NEW A, NEW xs \in Seq(A), NEW x \in A, NEW S \in SUBSET (1 .. Len(xs))
    PROVE  /\ Those(Append(xs, x), S) = Those(xs, S)
           /\ Those(Append(xs, x), S \cup {Len(xs) + 1}) = Append(Those(xs, S), x)
<1> DEFINE n == Len(xs)
           c == Cardinality(S)
           U == S \cup {n + 1}
           ys == Append(xs, x)
<1>1. n \in Nat /\ ys \in Seq(A) /\ Len(ys) = n + 1 /\ ys[n + 1] = x /\ \A i \in 1 .. n : ys[i] = xs[i] OBVIOUS
<1>2. IsFiniteSet(S) /\ c \in Nat /\ \A k \in 1 .. c : Nth(S, k) \in S /\ Cardinality({j \in S : j < Nth(S, k)}) = k - 1
  BY <1>1, NthIs DEF HasPlaces
<1>3. Those(ys, S) = Those(xs, S)
  <2>1. \A k \in 1 .. c : ys[Nth(S, k)] = xs[Nth(S, k)] BY <1>1, <1>2
  <2> HIDE DEF ys
  <2> QED BY <2>1 DEF Those
<1>4. n + 1 \notin S /\ U \in SUBSET (1 .. n + 1)
  <2>1. \A i \in S : i \in 1 .. n OBVIOUS
  <2> HIDE DEF n
  <2> QED BY <1>1, <2>1
<1>5. Cardinality(U) = c + 1 BY <1>2, <1>4, FS_AddElement
<1>6. \A k \in 1 .. c + 1, i \in U : Cardinality({j \in U : j < i}) = k - 1 => i = Nth(U, k)
  <2> HIDE DEF U, n
  <2>1. n + 1 \in Nat BY <1>1
  <2>2. HasPlaces(U) BY <1>4, <2>1, NthIs
  <2> QED BY <1>5, <2>2 DEF HasPlaces
<1>7. ASSUME NEW k \in 1 .. c PROVE Nth(U, k) = Nth(S, k)
  <2>1. PICK i \in S : i = Nth(S, k) /\ Cardinality({j \in S : j < i}) = k - 1 BY <1>2
  <2>2. {j \in U : j < i} = {j \in S : j < i}
    <3>1. i <= n /\ i \in Nat BY <1>1
    <3>2. ~(n + 1 < i) BY <1>1, <3>1
    <3> QED BY <3>2
  <2>3. k \in 1 .. c + 1 /\ i \in U BY <1>2
  <2> QED BY <1>6, <2>1, <2>2, <2>3
<1>8. Nth(U, c + 1) = n + 1
  <2>1. {j \in U : j < n + 1} = S
    <3>1. ~(n + 1 < n + 1) /\ \A j \in S : j < n + 1 BY <1>1
    <3> QED BY <3>1
  <2>2. c + 1 \in 1 .. c + 1 /\ (c + 1) - 1 = c /\ n + 1 \in U BY <1>2
  <2> QED BY <1>6, <2>1, <2>2
<1> HIDE DEF U, ys, c
<1>9. Those(ys, U) = Append(Those(xs, S), x)
  <2>1. Those(xs, S) \in Seq(A) /\ Len(Those(xs, S)) = c /\ \A k \in 1 .. c : Those(xs, S)[k] = xs[Nth(S, k)]
    BY <1>1, ThoseAre DEF c
  <2> DEFINE t == Append(Those(xs, S), x)
  <2>2. t \in Seq(A) /\ Len(t) = c + 1 /\ DOMAIN t = 1 .. c + 1 /\ t[c + 1] = x /\ \A k \in 1 .. c : t[k] = xs[Nth(S, k)]
    BY <2>1
  <2>3. Those(ys, U) = [k \in 1 .. c + 1 |-> ys[Nth(U, k)]] BY <1>5 DEF Those
  <2>4. t = [k \in 1 .. c + 1 |-> t[k]]
    <3> HIDE DEF t
    <3> QED BY <2>2
  <2>5. ASSUME NEW k \in 1 .. c + 1 PROVE ys[Nth(U, k)] = t[k]
    <3>1. CASE k = c + 1 BY <1>1, <1>8, <2>2, <3>1 DEF ys
    <3>2. CASE k # c + 1
      <4>1. k \in 1 .. c BY <1>2, <3>2 DEF c
      <4>2. Nth(S, k) \in 1 .. n BY <1>2, <4>1 DEF c
      <4> QED BY <1>1, <1>7, <2>2, <4>1, <4>2 DEF c, ys
    <3> QED BY <3>1, <3>2
  <2> HIDE DEF t
  <2>6. Those(ys, U) = t BY <2>3, <2>4, <2>5
  <2> QED BY <2>6 DEF t
<1> QED BY <1>3, <1>9 DEF U, ys

LEMMA ByTimeIs ==
    ASSUME NEW A, NEW ms \in Seq(A), \A m \in A : m.t \in Nat
    PROVE  /\ ByTime(ms) \in Seq(A) /\ Len(ByTime(ms)) = Len(ms)
           /\ \A i, j \in 1 .. Len(ms) : i < j => ByTime(ms)[i].t <= ByTime(ms)[j].t
<1> DEFINE n == Len(ms)
           D == 1 .. n
           R == {r \in D \X D : ms[r[1]].t < ms[r[2]].t \/ (ms[r[1]].t = ms[r[2]].t /\ r[1] < r[2])}
           at(k) == CHOOSE i \in DOMAIN ms :
                        Cardinality({j \in DOMAIN ms : ms[j].t < ms[i].t \/ (ms[j].t = ms[i].t /\ j < i)}) = k - 1
<1>1. n \in Nat /\ DOMAIN ms = D /\ D \subseteq Int /\ \A i \in D : ms[i] \in A /\ ms[i].t \in Int
  <2>1. \A i \in D : ms[i] \in A OBVIOUS
  <2> QED BY <2>1
<1>2. IsFiniteSet(D) /\ Cardinality(D) = n BY <1>1, FS_Interval
<1>3. \A i, j \in D : <<i, j>> \in R <=> ms[i].t < ms[j].t \/ (ms[i].t = ms[j].t /\ i < j) OBVIOUS
<1> HIDE DEF D
<1>4. StrictOrder(R, D)
  <2> HIDE DEF R
  <2>1. \A i \in D : <<i, i>> \notin R BY <1>1, <1>3
  <2>2. \A i, j \in D : i # j => <<i, j>> \in R \/ <<j, i>> \in R BY <1>1, <1>3
  <2>3. ASSUME NEW i \in D, NEW j \in D, NEW k \in D, <<i, j>> \in R, <<j, k>> \in R PROVE <<i, k>> \in R
    <3>1. PICK a \in Int, b \in Int, c \in Int : a = ms[i].t /\ b = ms[j].t /\ c = ms[k].t BY <1>1
    <3>2. (a < b \/ (a = b /\ i < j)) /\ (b < c \/ (b = c /\ j < k)) BY <1>3, <2>3, <3>1
    <3>3. a < c \/ (a = c /\ i < k) BY <1>1, <3>2
    <3> QED BY <1>3, <3>1, <3>3
  <2> QED BY <2>1, <2>2, <2>3 DEF StrictOrder
<1>5. ByTime(ms) = [k \in DOMAIN ms |-> ms[at(k)]] BY DEF ByTime
<1>6. ASSUME NEW i \in D
      PROVE  Cardinality({j \in DOMAIN ms : ms[j].t < ms[i].t \/ (ms[j].t = ms[i].t /\ j < i)}) = Ahead(R, D, i)
  <2>1. {j \in DOMAIN ms : ms[j].t < ms[i].t \/ (ms[j].t = ms[i].t /\ j < i)} = {j \in D : <<j, i>> \in R}
    <3> HIDE DEF R
    <3> QED BY <1>1, <1>3
  <2> HIDE DEF R
  <2> QED BY <2>1 DEF Ahead
<1> HIDE DEF R
<1>7. \A k \in D : at(k) \in D /\ Ahead(R, D, at(k)) = k - 1
  <2> TAKE k \in D
  <2>1. PICK i \in D : Ahead(R, D, i) = k - 1
    <3>1. EachHasPlace(R, D) BY <1>2, <1>4, AheadIs
    <3> QED BY <1>2, <3>1 DEF D, EachHasPlace
  <2>2. \E h \in DOMAIN ms : Cardinality({j \in DOMAIN ms : ms[j].t < ms[h].t \/ (ms[j].t = ms[h].t /\ j < h)}) = k - 1
    BY <1>1, <1>6, <2>1
  <2>3. /\ at(k) \in DOMAIN ms
        /\ Cardinality({j \in DOMAIN ms : ms[j].t < ms[at(k)].t \/ (ms[j].t = ms[at(k)].t /\ j < at(k))}) = k - 1
    BY <2>2
  <2> HIDE DEF at
  <2> QED BY <1>1, <1>6, <2>3
<1> HIDE DEF at
<1>8. ByTime(ms) \in Seq(A) /\ Len(ByTime(ms)) = n
  <2>1. ByTime(ms) \in [1 .. n -> A] BY <1>1, <1>5, <1>7 DEF D
  <2> QED BY <1>1, <2>1, IsSequence
<1>9. ASSUME NEW i \in D, NEW j \in D, i < j PROVE ByTime(ms)[i].t <= ByTime(ms)[j].t
  <2>1. at(i) \in D /\ at(j) \in D /\ Ahead(R, D, at(i)) = i - 1 /\ Ahead(R, D, at(j)) = j - 1 BY <1>7
  <2>2. <<at(j), at(i)>> \notin R
    <3>1. <<at(j), at(i)>> \in R => Ahead(R, D, at(j)) < Ahead(R, D, at(i)) BY <1>2, <1>4, <2>1, AheadLess
    <3>2. ~(j - 1 < i - 1) BY <1>1, <1>9
    <3> QED BY <2>1, <3>1, <3>2
  <2>3. ms[at(i)].t <= ms[at(j)].t BY <1>1, <1>3, <2>1, <2>2
  <2>4. ByTime(ms)[i] = ms[at(i)] /\ ByTime(ms)[j] = ms[at(j)] BY <1>1, <1>5
  <2> QED BY <2>3, <2>4
<1> QED BY <1>8, <1>9 DEF D

-----------------------------------------------------------------------------
\* The session: what tee has of the segments, and the invariant.

ASegment == [flow : Flows, from : Nat, n : Nat \ {0}, t : Nat]
ASend == [flow : Flows, t : Nat, size : Nat \ {0}]
ARead == [flow : Flows, op : Ops, t : Nat, server : BOOLEAN]

\* Reach, ReachesPast and what KeptAreSends says is kept, of the segments c.
ReachOf(c, f) == Greatest({0} \cup {c[i].from + c[i].n : i \in {j \in DOMAIN c : c[j].flow = f}})
PastOf(c, n) == \A j \in 1 .. n - 1 : c[j].flow = c[n].flow => c[j].from + c[j].n < c[n].from + c[n].n
SendsOf(c) == {n \in DOMAIN c : PastOf(c, n)}
SendOf(e) == [flow |-> e.flow, t |-> e.t, size |-> e.n]
SendsAs(c) == [n \in DOMAIN c |-> SendOf(c[n])]

AnalysisTypes ==
    /\ teed \in Seq(ASegment) /\ isn \in Seqs /\ segs \in Seq(ASend) /\ allRead \in Seq(ARead)
    /\ \A i \in DOMAIN allRead : allRead[i].server <=> allRead[i].flow.src \in Servers
    /\ done = "read" <=> analysis # NoAnalysis

FurthestAre ==
    /\ \A f : f \in DOMAIN furthest <=> \E i \in DOMAIN teed : teed[i].flow = f
    /\ \A f \in DOMAIN furthest : furthest[f] = Plus(isn, ReachOf(teed, f))

AnalysisIInv == AnalysisTypes /\ FurthestAre /\ KeptAreSends /\ OfOneSession

LEMMA KeptAreThose == KeptAreSends <=> segs = Those(SendsAs(teed), SendsOf(teed))
BY DEF KeptAreSends, SendsAs, SendOf, SendsOf, PastOf, ReachesPast

LEMMA ReachIs ==
    ASSUME NEW c \in Seq(ASegment), NEW f
    PROVE  /\ ReachOf(c, f) \in Nat
           /\ \A i \in 1 .. Len(c) : c[i].flow = f => c[i].from + c[i].n <= ReachOf(c, f)
           /\ ReachOf(c, f) = 0 \/ \E i \in 1 .. Len(c) : c[i].flow = f /\ ReachOf(c, f) = c[i].from + c[i].n
<1> DEFINE n == Len(c)
           g == [i \in 1 .. n |-> c[i].from + c[i].n]
           S == {0} \cup {c[i].from + c[i].n : i \in {j \in DOMAIN c : c[j].flow = f}}
<1>1. n \in Nat /\ DOMAIN c = 1 .. n OBVIOUS
<1>2. \A i \in 1 .. n : c[i].from + c[i].n \in Nat
  <2>1. \A i \in 1 .. n : c[i] \in ASegment OBVIOUS
  <2> QED BY <2>1 DEF ASegment
<1>3. PICK b \in Nat : \A i \in 1 .. n : g[i] <= b
  <2>1. g \in [1 .. n -> Nat] BY <1>2
  <2> HIDE DEF g
  <2> QED BY <1>1, <2>1, BoundOf
<1>4. S \in SUBSET Nat /\ S # {} /\ \A x \in S : x <= b
  <2>1. \A i \in 1 .. n : c[i].from + c[i].n <= b BY <1>3
  <2> QED BY <1>1, <1>2, <2>1
<1>5. Greatest(S) \in S /\ \A x \in S : x <= Greatest(S)
  <2> HIDE DEF S
  <2> QED BY <1>4, GreatestIs
<1>6. ReachOf(c, f) \in S /\ \A x \in S : x <= ReachOf(c, f) BY <1>5 DEF ReachOf
<1>7. \A i \in 1 .. n : c[i].flow = f => c[i].from + c[i].n \in S BY <1>1
<1>8. \A x \in S : x = 0 \/ \E i \in 1 .. n : c[i].flow = f /\ x = c[i].from + c[i].n BY <1>1
<1> QED BY <1>4, <1>6, <1>7, <1>8

LEMMA ReachGrows ==
    ASSUME NEW c \in Seq(ASegment), NEW e \in ASegment, NEW f
    PROVE  /\ e.from + e.n \in Nat \ {0}
           /\ ReachOf(Append(c, e), f) = IF f = e.flow /\ e.from + e.n > ReachOf(c, f) THEN e.from + e.n ELSE ReachOf(c, f)
<1> DEFINE d == Append(c, e)
           n == Len(c)
<1>1. d \in Seq(ASegment) /\ Len(d) = n + 1 /\ n \in Nat /\ d[n + 1] = e /\ \A i \in 1 .. n : d[i] = c[i] OBVIOUS
<1>2. e.from + e.n \in Nat \ {0} BY DEF ASegment
<1> HIDE DEF d
<1>3. /\ ReachOf(c, f) \in Nat
      /\ \A i \in 1 .. n : c[i].flow = f => c[i].from + c[i].n <= ReachOf(c, f)
      /\ ReachOf(c, f) = 0 \/ \E i \in 1 .. n : c[i].flow = f /\ ReachOf(c, f) = c[i].from + c[i].n
  BY ReachIs
<1>4. /\ ReachOf(d, f) \in Nat
      /\ \A i \in 1 .. n + 1 : d[i].flow = f => d[i].from + d[i].n <= ReachOf(d, f)
      /\ ReachOf(d, f) = 0 \/ \E i \in 1 .. n + 1 : d[i].flow = f /\ ReachOf(d, f) = d[i].from + d[i].n
  BY <1>1, ReachIs
<1> HIDE DEF n
<1>5. ReachOf(d, f) >= ReachOf(c, f)
  <2>1. ASSUME NEW i \in 1 .. n, c[i].flow = f, ReachOf(c, f) = c[i].from + c[i].n PROVE ReachOf(d, f) >= ReachOf(c, f)
    <3>1. i \in 1 .. n + 1 /\ d[i] = c[i] BY <1>1
    <3> QED BY <1>4, <2>1, <3>1
  <2> QED BY <1>3, <1>4, <2>1
<1>6. f = e.flow => ReachOf(d, f) >= e.from + e.n
  <2>1. n + 1 \in 1 .. n + 1 BY <1>1
  <2> QED BY <1>1, <1>2, <1>4, <2>1
<1>7. ReachOf(d, f) <= ReachOf(c, f) \/ (f = e.flow /\ ReachOf(d, f) = e.from + e.n)
  <2>1. CASE ReachOf(d, f) = 0 BY <1>3, <2>1
  <2>2. ASSUME NEW i \in 1 .. n + 1, d[i].flow = f, ReachOf(d, f) = d[i].from + d[i].n
        PROVE  ReachOf(d, f) <= ReachOf(c, f) \/ (f = e.flow /\ ReachOf(d, f) = e.from + e.n)
    <3>1. CASE i = n + 1 BY <1>1, <2>2, <3>1
    <3>2. CASE i \in 1 .. n BY <1>1, <1>3, <2>2, <3>2
    <3> QED BY <1>1, <3>1, <3>2
  <2> QED BY <1>4, <2>1, <2>2
<1>8. ReachOf(d, f) = IF f = e.flow /\ e.from + e.n > ReachOf(c, f) THEN e.from + e.n ELSE ReachOf(c, f)
  <2>1. PICK x \in Nat, y \in Nat, z \in Nat : x = ReachOf(d, f) /\ y = ReachOf(c, f) /\ z = e.from + e.n BY <1>2, <1>3, <1>4
  <2> QED BY <1>5, <1>6, <1>7, <2>1
<1> QED BY <1>2, <1>8 DEF d

\* A segment more is a send if it reaches past what its flow had reached.
LEMMA SendsGrow ==
    ASSUME NEW c \in Seq(ASegment), NEW e \in ASegment
    PROVE  /\ SendsAs(c) \in Seq(ASend) /\ Len(SendsAs(c)) = Len(c)
           /\ SendsAs(Append(c, e)) = Append(SendsAs(c), SendOf(e)) /\ SendOf(e) \in ASend
           /\ SendsOf(c) \subseteq 1 .. Len(c)
           /\ SendsOf(Append(c, e)) = IF e.from + e.n > ReachOf(c, e.flow) THEN SendsOf(c) \cup {Len(c) + 1} ELSE SendsOf(c)
<1> DEFINE d == Append(c, e)
           n == Len(c)
<1>1. /\ d \in Seq(ASegment) /\ Len(d) = n + 1 /\ n \in Nat /\ d[n + 1] = e /\ \A i \in 1 .. n : d[i] = c[i] /\ c[i] \in ASegment
      /\ DOMAIN c = 1 .. n /\ DOMAIN d = 1 .. n + 1
  OBVIOUS
<1> HIDE DEF d, n
<1>2. \A x \in ASegment : SendOf(x) \in ASend BY DEF ASegment, ASend, SendOf
<1>3. SendsAs(c) \in Seq(ASend) /\ Len(SendsAs(c)) = n
  <2>1. SendsAs(c) \in [1 .. n -> ASend] BY <1>1, <1>2 DEF SendsAs
  <2> QED BY <1>1, <2>1, IsSequence
<1>4. SendsAs(d) = Append(SendsAs(c), SendOf(e))
  <2> DEFINE t == Append(SendsAs(c), SendOf(e))
  <2>1. DOMAIN t = 1 .. n + 1 /\ t \in Seq(ASend) BY <1>1, <1>2, <1>3
  <2>2. \A i \in 1 .. n + 1 : t[i] = SendOf(d[i])
    <3>1. t[n + 1] = SendOf(e) BY <1>3
    <3>2. \A i \in 1 .. n : t[i] = SendsAs(c)[i] BY <1>3
    <3>3. \A i \in 1 .. n : SendsAs(c)[i] = SendOf(c[i]) BY <1>1 DEF SendsAs
    <3> HIDE DEF t
    <3> QED BY <1>1, <3>1, <3>2, <3>3
  <2>3. t = [i \in 1 .. n + 1 |-> t[i]]
    <3> HIDE DEF t
    <3> QED BY <2>1
  <2> HIDE DEF t
  <2>4. SendsAs(d) = t BY <1>1, <2>2, <2>3 DEF SendsAs
  <2> QED BY <2>4 DEF t
<1>5. \A i \in 1 .. n : PastOf(d, i) <=> PastOf(c, i)
  <2> TAKE i \in 1 .. n
  <2>1. \A j \in 1 .. i - 1 : j \in 1 .. n BY <1>1
  <2>2. d[i] = c[i] /\ \A j \in 1 .. i - 1 : d[j] = c[j] BY <1>1, <2>1
  <2> QED BY <2>2 DEF PastOf
<1>6. PastOf(d, n + 1) <=> e.from + e.n > ReachOf(c, e.flow)
  <2>1. PastOf(d, n + 1) <=> \A j \in 1 .. n : c[j].flow = e.flow => c[j].from + c[j].n < e.from + e.n
    <3>1. (n + 1) - 1 = n BY <1>1
    <3> QED BY <1>1, <3>1 DEF PastOf
  <2>2. e.from + e.n \in Nat \ {0} BY DEF ASegment
  <2>3. /\ ReachOf(c, e.flow) \in Nat
        /\ \A i \in 1 .. n : c[i].flow = e.flow => c[i].from + c[i].n <= ReachOf(c, e.flow)
        /\ ReachOf(c, e.flow) = 0 \/ \E i \in 1 .. n : c[i].flow = e.flow /\ ReachOf(c, e.flow) = c[i].from + c[i].n
    BY ReachIs DEF n
  <2>4. \A i \in 1 .. n : c[i].from + c[i].n \in Nat
    <3>1. \A x \in ASegment : x.from + x.n \in Nat BY DEF ASegment
    <3>2. \A i \in 1 .. n : c[i] \in ASegment BY <1>1
    <3> QED BY <3>1, <3>2
  <2> QED BY <2>1, <2>2, <2>3, <2>4
<1>7. SendsOf(d) = IF e.from + e.n > ReachOf(c, e.flow) THEN SendsOf(c) \cup {n + 1} ELSE SendsOf(c)
  <2>1. SendsOf(d) \subseteq 1 .. n + 1 /\ SendsOf(c) \subseteq 1 .. n BY <1>1 DEF SendsOf
  <2>2. \A i \in 1 .. n : i \in SendsOf(d) <=> i \in SendsOf(c)
    <3>1. \A i \in 1 .. n : i \in 1 .. n + 1 BY <1>1
    <3> QED BY <1>1, <1>5, <3>1 DEF SendsOf
  <2>3. n + 1 \in SendsOf(d) <=> e.from + e.n > ReachOf(c, e.flow)
    <3>1. n + 1 \in 1 .. n + 1 BY <1>1
    <3> QED BY <1>1, <1>6, <3>1 DEF SendsOf
  <2>4. 1 .. n + 1 = (1 .. n) \cup {n + 1} BY <1>1
  <2> QED BY <2>1, <2>2, <2>3, <2>4
<1> QED BY <1>1, <1>2, <1>3, <1>4, <1>7 DEF d, n, SendsOf

-----------------------------------------------------------------------------
\* What a step does.

\* A segment is a send if its end is after that of the furthest before.
LEMMA NewIsPast ==
    ASSUME AnalysisTypes, FurthestAre, NEW f \in Recorded, NEW n \in Sizes,
           NEW from \in Reach(f) - MaxBehind .. Reach(f) + MaxAhead, from >= 0
    PROVE  IsNew(f, Plus(isn, from + n)) <=> from + n > ReachOf(teed, f)
<1>1. Reach(f) = ReachOf(teed, f) BY DEF Reach, ReachOf
<1>2. PICK r \in Nat : r = ReachOf(teed, f) BY ReachIs DEF AnalysisTypes
<1>3. /\ MaxBehind \in Nat /\ MaxAhead \in Nat /\ n \in Nat \ {0}
      /\ MaxBehind < Mod \div 2 /\ MaxAhead + n < Mod \div 2 /\ Mod \div 2 \in Nat
  BY AnalysisAssumption, ModAssumption
<1>4. from \in r - MaxBehind .. r + MaxAhead BY <1>1, <1>2
<1>5. from + n \in Nat /\ from + n > 0 /\ from + n - r < Mod \div 2 /\ r - (from + n) < Mod \div 2 BY <1>2, <1>3, <1>4
<1>6. CASE f \in DOMAIN furthest
  <2>1. furthest[f] = Plus(isn, r) BY <1>2, <1>6 DEF FurthestAre
  <2>2. After(Plus(isn, from + n), Plus(isn, r)) <=> from + n > r
    <3>1. isn \in Seqs BY DEF AnalysisTypes
    <3>2. PICK p \in Nat : p = from + n BY <1>5
    <3>3. p - r < Mod \div 2 /\ r - p < Mod \div 2 BY <1>3, <1>4, <1>5, <3>2
    <3> QED BY <3>1, <3>2, <3>3, PlacesAfter
  <2> QED BY <1>2, <1>6, <2>1, <2>2 DEF IsNew
<1>7. CASE f \notin DOMAIN furthest
  <2>1. r = 0
    <3>1. \A i \in 1 .. Len(teed) : teed[i].flow # f
      <4>1. DOMAIN teed = 1 .. Len(teed) BY DEF AnalysisTypes
      <4> QED BY <1>7, <4>1 DEF FurthestAre
    <3> QED BY <1>2, <3>1, ReachIs DEF AnalysisTypes
  <2> QED BY <1>2, <1>5, <1>7, <2>1 DEF IsNew
<1> QED BY <1>6, <1>7

LEMMA SegmentKeeps ==
    ASSUME AnalysisIInv, NEW f \in Recorded, NEW n \in Sizes, NEW time \in Ticks,
           NEW from \in Reach(f) - MaxBehind .. Reach(f) + MaxAhead, from >= 0, ReadSegment(f, from, n, time)
    PROVE  AnalysisIInv'
<1> DEFINE e == [flow |-> f, from |-> from, n |-> n, t |-> time]
           end == Plus(isn, from + n)
<1>1. /\ done = "reading" /\ teed' = Append(teed, e)
      /\ IF IsNew(f, end)
         THEN /\ furthest' = [g \in DOMAIN furthest \cup {f} |-> IF g = f THEN end ELSE furthest[g]]
              /\ segs' = Append(segs, [flow |-> f, t |-> time, size |-> n])
         ELSE furthest' = furthest /\ segs' = segs
      /\ isn' = isn /\ allRead' = allRead /\ done' = done /\ analysis' = analysis
  BY DEF ReadSegment
<1>2. /\ teed \in Seq(ASegment) /\ isn \in Seqs /\ segs \in Seq(ASend) BY DEF AnalysisIInv, AnalysisTypes
<1>3. e \in ASegment
  <2>1. Reach(f) \in Nat
    <3>1. ReachOf(teed, f) \in Nat BY <1>2, ReachIs
    <3> QED BY <3>1 DEF Reach, ReachOf
  <2>2. from \in Nat BY <2>1, AnalysisAssumption
  <2> QED BY <2>2, AnalysisAssumption DEF ASegment
<1>4. e.flow = f /\ e.from = from /\ e.n = n /\ e.t = time OBVIOUS
<1>5. SendOf(e) = [flow |-> f, t |-> time, size |-> n] BY DEF SendOf
<1> HIDE DEF e
<1>6. IsNew(f, end) <=> from + n > ReachOf(teed, f) BY NewIsPast DEF AnalysisIInv
<1>7. \A g : ReachOf(teed', g) = IF g = f /\ from + n > ReachOf(teed, g) THEN from + n ELSE ReachOf(teed, g)
  BY <1>1, <1>2, <1>3, <1>4, ReachGrows
<1>8. AnalysisTypes'
  <2>1. teed' \in Seq(ASegment) BY <1>1, <1>2, <1>3
  <2>2. segs' \in Seq(ASend)
    <3>1. SendOf(e) \in ASend BY <1>2, <1>3, SendsGrow
    <3>2. CASE IsNew(f, end)
      <4>1. segs' = Append(segs, SendOf(e)) BY <1>1, <1>5, <3>2
      <4> QED BY <1>2, <3>1, <4>1
    <3>3. CASE ~IsNew(f, end) BY <1>1, <1>2, <3>3
    <3> QED BY <3>2, <3>3
  <2> QED BY <1>1, <2>1, <2>2 DEF AnalysisIInv, AnalysisTypes
<1>9. FurthestAre'
  <2>1. \A g : (\E i \in DOMAIN teed' : teed'[i].flow = g) <=> g = f \/ \E i \in DOMAIN teed : teed[i].flow = g
    <3>1. /\ DOMAIN teed' = 1 .. Len(teed) + 1 /\ DOMAIN teed = 1 .. Len(teed) /\ Len(teed) \in Nat
          /\ teed'[Len(teed) + 1] = e /\ \A i \in 1 .. Len(teed) : teed'[i] = teed[i]
      BY <1>1, <1>2
    <3>2. 1 .. Len(teed) + 1 = (1 .. Len(teed)) \cup {Len(teed) + 1} BY <3>1
    <3> QED BY <1>4, <3>1, <3>2
  <2>2. FurthestAre BY DEF AnalysisIInv
  <2>3. CASE IsNew(f, end)
    <3>1. DOMAIN furthest' = DOMAIN furthest \cup {f} BY <1>1, <2>3
    <3>2. \A g : g \in DOMAIN furthest' <=> \E i \in DOMAIN teed' : teed'[i].flow = g
      BY <2>1, <2>2, <3>1 DEF FurthestAre
    <3>3. ASSUME NEW g \in DOMAIN furthest' PROVE furthest'[g] = Plus(isn, ReachOf(teed', g))
      <4>1. CASE g = f BY <1>1, <1>6, <1>7, <2>3, <4>1
      <4>2. CASE g # f BY <1>1, <1>7, <2>2, <2>3, <3>1, <3>3, <4>2 DEF FurthestAre
      <4> QED BY <4>1, <4>2
    <3> QED BY <1>1, <3>2, <3>3 DEF FurthestAre
  <2>4. CASE ~IsNew(f, end)
    <3>1. furthest' = furthest /\ f \in DOMAIN furthest BY <1>1, <2>4 DEF IsNew
    <3>2. \A g : g \in DOMAIN furthest' <=> \E i \in DOMAIN teed' : teed'[i].flow = g
      BY <2>1, <2>2, <3>1 DEF FurthestAre
    <3>3. \A g : ReachOf(teed', g) = ReachOf(teed, g) BY <1>6, <1>7, <2>4
    <3> QED BY <1>1, <2>2, <3>1, <3>2, <3>3 DEF FurthestAre
  <2> QED BY <2>3, <2>4
<1>10. KeptAreSends'
  <2>1. segs = Those(SendsAs(teed), SendsOf(teed)) BY KeptAreThose DEF AnalysisIInv
  <2>2. /\ SendsAs(teed) \in Seq(ASend) /\ Len(SendsAs(teed)) = Len(teed)
        /\ SendsAs(teed') = Append(SendsAs(teed), SendOf(e)) /\ SendOf(e) \in ASend
        /\ SendsOf(teed) \subseteq 1 .. Len(teed)
        /\ SendsOf(teed') = IF from + n > ReachOf(teed, f) THEN SendsOf(teed) \cup {Len(teed) + 1} ELSE SendsOf(teed)
    BY <1>1, <1>2, <1>3, <1>4, SendsGrow
  <2>3. /\ Those(Append(SendsAs(teed), SendOf(e)), SendsOf(teed)) = Those(SendsAs(teed), SendsOf(teed))
        /\ Those(Append(SendsAs(teed), SendOf(e)), SendsOf(teed) \cup {Len(teed) + 1})
             = Append(Those(SendsAs(teed), SendsOf(teed)), SendOf(e))
    <3>1. PICK xs \in Seq(ASend), x \in ASend : xs = SendsAs(teed) /\ x = SendOf(e) BY <2>2
    <3>2. PICK S \in SUBSET (1 .. Len(xs)) : S = SendsOf(teed) BY <2>2, <3>1
    <3>3. Those(Append(xs, x), S) = Those(xs, S) /\ Those(Append(xs, x), S \cup {Len(xs) + 1}) = Append(Those(xs, S), x)
      BY ThoseGrow
    <3> QED BY <2>2, <3>1, <3>2, <3>3
  <2>4. segs' = Those(SendsAs(teed'), SendsOf(teed')) BY <1>1, <1>5, <1>6, <2>1, <2>2, <2>3
  <2>5. KeptAreSends' <=> segs' = Those(SendsAs(teed'), SendsOf(teed'))
    BY DEF KeptAreSends, SendsAs, SendOf, SendsOf, PastOf, ReachesPast
  <2> QED BY <2>4, <2>5
<1>11. OfOneSession' BY <1>1 DEF OfOneSession
<1> QED BY <1>8, <1>9, <1>10, <1>11 DEF AnalysisIInv

LEMMA ReadMessageKeeps ==
    ASSUME AnalysisIInv, NEW f \in Flows, NEW op \in Ops, NEW time \in Ticks, ReadMessage(f, op, time)
    PROVE  AnalysisIInv'
<1> DEFINE b == f.src \in Servers
           m == [flow |-> f, op |-> op, t |-> time, server |-> b]
<1>1. /\ done = "reading" /\ allRead' = Append(allRead, m)
      /\ teed' = teed /\ isn' = isn /\ furthest' = furthest /\ segs' = segs /\ done' = done /\ analysis' = analysis
  BY DEF ReadMessage
<1>2. m \in ARead /\ m.flow = f /\ (m.server <=> f.src \in Servers)
  <2>1. time \in Nat BY AnalysisAssumption
  <2>2. b \in BOOLEAN OBVIOUS
  <2>3. m.server = b BY Zenon
  <2>4. m.server <=> f.src \in Servers BY <2>3, Zenon
  <2> HIDE DEF b
  <2>5. m \in ARead /\ m.flow = f BY <2>1, <2>2 DEF ARead
  <2> QED BY <2>4, <2>5
<1> HIDE DEF b, m
<1>3. AnalysisTypes'
  <2>1. allRead \in Seq(ARead) /\ \A i \in DOMAIN allRead : allRead[i].server <=> allRead[i].flow.src \in Servers
    BY DEF AnalysisIInv, AnalysisTypes
  <2>2. /\ DOMAIN allRead' = 1 .. Len(allRead) + 1 /\ DOMAIN allRead = 1 .. Len(allRead) /\ Len(allRead) \in Nat
        /\ allRead'[Len(allRead) + 1] = m /\ \A i \in 1 .. Len(allRead) : allRead'[i] = allRead[i]
        /\ allRead' \in Seq(ARead)
    BY <1>1, <1>2, <2>1
  <2>3. 1 .. Len(allRead) + 1 = (1 .. Len(allRead)) \cup {Len(allRead) + 1} BY <2>2
  <2>4. \A i \in DOMAIN allRead' : allRead'[i].server <=> allRead'[i].flow.src \in Servers BY <1>2, <2>1, <2>2, <2>3
  <2> QED BY <1>1, <2>2, <2>4 DEF AnalysisIInv, AnalysisTypes
<1>4. FurthestAre' BY <1>1 DEF AnalysisIInv, FurthestAre
<1>5. KeptAreSends' BY <1>1 DEF AnalysisIInv, KeptAreSends, ReachesPast
<1>6. OfOneSession' BY <1>1 DEF OfOneSession
<1> QED BY <1>3, <1>4, <1>5, <1>6 DEF AnalysisIInv

LEMMA FailKeeps == ASSUME AnalysisIInv, Fail PROVE AnalysisIInv'
<1>1. /\ done = "reading" /\ done' = "failed"
      /\ teed' = teed /\ isn' = isn /\ furthest' = furthest /\ segs' = segs /\ allRead' = allRead /\ analysis' = analysis
  BY DEF Fail
<1>2. AnalysisTypes' BY <1>1 DEF AnalysisIInv, AnalysisTypes
<1>3. FurthestAre' BY <1>1 DEF AnalysisIInv, FurthestAre
<1>4. KeptAreSends' BY <1>1 DEF AnalysisIInv, KeptAreSends, ReachesPast
<1>5. OfOneSession' BY <1>1 DEF OfOneSession
<1> QED BY <1>2, <1>3, <1>4, <1>5 DEF AnalysisIInv

\* The flow picked is a server's, and no other has more messages.
LEMMA PickedIs ==
    ASSUME AnalysisTypes, NEW h \in DOMAIN allRead, allRead[h].server
    PROVE  /\ Picked(allRead) \in Flows
           /\ \A g : FromServer(g) <= Cardinality({i \in DOMAIN allRead : allRead[i].flow = Picked(allRead)})
           /\ \A i \in DOMAIN allRead : allRead[i].flow = Picked(allRead) => allRead[i].server
           /\ \E i \in DOMAIN allRead : allRead[i].flow = Picked(allRead)
<1> DEFINE n == Len(allRead)
           D == DOMAIN allRead
           of(g) == {i \in D : allRead[i].flow = g /\ allRead[i].server}
           C == {FromServer(allRead[i].flow) : i \in D}
           most == {i \in D : \A j \in D : FromServer(allRead[j].flow) <= FromServer(allRead[i].flow)}
           srv == Picked(allRead)
<1>1. /\ n \in Nat /\ D = 1 .. n /\ \A i \in D : allRead[i] \in ARead
      /\ \A i \in D : allRead[i].server <=> allRead[i].flow.src \in Servers
  BY DEF AnalysisTypes
<1> HIDE DEF D, n
<1>2. IsFiniteSet(D) /\ Cardinality(D) = n
  <2>1. IsFiniteSet(1 .. n) /\ Cardinality(1 .. n) = n BY <1>1, FS_Interval
  <2> QED BY <1>1, <2>1
<1>3. \A g : /\ IsFiniteSet(of(g)) /\ FromServer(g) = Cardinality(of(g)) /\ FromServer(g) \in Nat /\ FromServer(g) <= n
             /\ (FromServer(g) = 0 <=> of(g) = {})
  <2> TAKE g
  <2>1. IsFiniteSet(of(g)) /\ Cardinality(of(g)) <= n BY <1>2, FS_Subset
  <2>2. Cardinality(of(g)) \in Nat /\ (Cardinality(of(g)) = 0 <=> of(g) = {}) BY <2>1, FS_CardinalityType, FS_EmptySet
  <2>3. FromServer(g) = Cardinality(of(g)) BY DEF FromServer, D
  <2> QED BY <2>1, <2>2, <2>3
<1>4. h \in D /\ h \in of(allRead[h].flow) BY DEF D
<1>5. most \in SUBSET Nat /\ most # {}
  <2>1. C \in SUBSET Nat /\ C # {} /\ \A x \in C : x <= n
    <3> HIDE DEF of
    <3>1. \A i \in D : FromServer(allRead[i].flow) \in Nat /\ FromServer(allRead[i].flow) <= n BY <1>3
    <3> QED BY <1>4, <3>1
  <2>2. Greatest(C) \in C /\ \A x \in C : x <= Greatest(C)
    <3> HIDE DEF C, n
    <3> QED BY <1>1, <2>1, GreatestIs
  <2>3. PICK i \in D : Greatest(C) = FromServer(allRead[i].flow) BY <2>2
  <2>4. i \in most BY <2>2, <2>3
  <2> QED BY <1>1, <2>4
<1>6. Least(most) \in most
  <2> HIDE DEF most
  <2> QED BY <1>5, LeastIs
<1>7. PICK k \in D : srv = allRead[k].flow /\ \A j \in D : FromServer(allRead[j].flow) <= FromServer(srv)
  <2>1. srv = allRead[Least(most)].flow BY DEF Picked, D
  <2> QED BY <1>6, <2>1
<1>8. srv \in Flows BY <1>1, <1>7 DEF ARead
<1> HIDE DEF srv
<1>9. of(srv) # {}
  <2>1. FromServer(allRead[h].flow) <= FromServer(srv) BY <1>4, <1>7
  <2>2. FromServer(allRead[h].flow) # 0 BY <1>3, <1>4
  <2>3. FromServer(srv) # 0
    <3>1. FromServer(srv) \in Nat /\ FromServer(allRead[h].flow) \in Nat BY <1>3
    <3> QED BY <2>1, <2>2, <3>1
  <2> QED BY <1>3, <2>3
<1>10. \A i \in D : allRead[i].flow = srv => allRead[i].server
  <2>1. PICK j \in D : allRead[j].flow = srv /\ allRead[j].server BY <1>9
  <2> QED BY <1>1, <2>1
<1>11. \A g : FromServer(g) <= FromServer(srv)
  <2> TAKE g
  <2>1. CASE of(g) = {}
    <3>1. FromServer(g) = 0 /\ FromServer(srv) \in Nat BY <1>3, <2>1
    <3> QED BY <3>1
  <2>2. CASE of(g) # {}
    <3>1. PICK j \in D : allRead[j].flow = g BY <2>2
    <3> QED BY <1>7, <3>1
  <2> QED BY <2>1, <2>2
<1>12. of(srv) = {i \in D : allRead[i].flow = srv} BY <1>10
<1>13. FromServer(srv) = Cardinality({i \in D : allRead[i].flow = srv}) BY <1>3, <1>12
<1>14. \A g : FromServer(g) <= Cardinality({i \in D : allRead[i].flow = srv}) BY <1>11, <1>13
<1> QED BY <1>7, <1>8, <1>10, <1>14 DEF D, srv

\* The packets picked are the sends of the flow that answers it.
LEMMA SentAre ==
    ASSUME AnalysisTypes, KeptAreSends, NEW srv \in Flows
    PROVE  Cardinality({i \in DOMAIN segs : Back(srv, segs[i].flow)})
             = Cardinality({n \in DOMAIN teed : /\ ReachesPast(n)
                                /\ teed[n].flow.src = srv.dst /\ teed[n].flow.dst = srv.src
                                /\ teed[n].flow.if = srv.if})
<1> DEFINE W == SendsOf(teed)
           c == Cardinality(W)
           S == {i \in DOMAIN segs : Back(srv, segs[i].flow)}
           T == {n \in DOMAIN teed : /\ ReachesPast(n)
                    /\ teed[n].flow.src = srv.dst /\ teed[n].flow.dst = srv.src
                    /\ teed[n].flow.if = srv.if}
           f == [k \in S |-> Nth(W, k)]
<1>1. segs = Those(SendsAs(teed), W) BY KeptAreThose
<1>2. /\ Len(teed) \in Nat /\ DOMAIN teed = 1 .. Len(teed) /\ W \subseteq 1 .. Len(teed)
      /\ \A i \in DOMAIN teed : teed[i].flow \in Flows
  <2>1. teed \in Seq(ASegment) BY DEF AnalysisTypes
  <2>2. \A i \in DOMAIN teed : teed[i] \in ASegment BY <2>1
  <2> QED BY <2>1, <2>2 DEF ASegment, SendsOf
<1>3. \A n \in DOMAIN teed : n \in W <=> ReachesPast(n) BY DEF SendsOf, PastOf, ReachesPast
<1> HIDE DEF W
<1>4. IsFiniteSet(W) /\ c \in Nat /\ HasPlaces(W) BY <1>2, NthIs
<1>5. DOMAIN segs = 1 .. c /\ \A k \in 1 .. c : Nth(W, k) \in DOMAIN teed /\ segs[k].flow = teed[Nth(W, k)].flow
  <2>1. DOMAIN segs = 1 .. c BY <1>1 DEF Those
  <2>2. ASSUME NEW k \in 1 .. c PROVE Nth(W, k) \in DOMAIN teed /\ segs[k].flow = teed[Nth(W, k)].flow
    <3>1. Nth(W, k) \in DOMAIN teed BY <1>2, <1>4 DEF HasPlaces
    <3>2. segs[k] = SendsAs(teed)[Nth(W, k)] BY <1>1 DEF Those
    <3>3. segs[k] = SendOf(teed[Nth(W, k)]) BY <3>1, <3>2 DEF SendsAs
    <3> QED BY <3>1, <3>3 DEF SendOf
  <2> QED BY <2>1, <2>2
<1>6. \A g \in Flows : Back(srv, g) <=> g.src = srv.dst /\ g.dst = srv.src /\ g.if = srv.if
  <2> TAKE g \in Flows
  <2>1. g = [src |-> g.src, dst |-> g.dst, if |-> g.if] BY AnalysisAssumption
  <2> QED BY <2>1 DEF Back
<1> HIDE DEF c
<1>7. \A k \in 1 .. c : k \in S <=> Nth(W, k) \in T
  <2> TAKE k \in 1 .. c
  <2>1. Nth(W, k) \in W /\ Nth(W, k) \in DOMAIN teed BY <1>4, <1>5 DEF HasPlaces, c
  <2>2. ReachesPast(Nth(W, k)) BY <1>3, <2>1
  <2>3. PICK g \in Flows : g = teed[Nth(W, k)].flow /\ g = segs[k].flow BY <1>2, <1>5, <2>1
  <2>4. k \in S <=> Back(srv, g) BY <1>5, <2>3
  <2>5. Nth(W, k) \in T <=> g.src = srv.dst /\ g.dst = srv.src /\ g.if = srv.if BY <2>1, <2>2, <2>3
  <2> QED BY <1>6, <2>4, <2>5
<1>8. S \subseteq 1 .. c BY <1>5
<1>9. T \subseteq W BY <1>3
<1> HIDE DEF S, T
<1>10. f \in Bijection(S, T)
  <2>1. f \in [S -> T] BY <1>7, <1>8
  <2>2. \A j, k \in S : f[j] = f[k] => j = k
    <3> TAKE j, k \in S
    <3>1. /\ j \in 1 .. c /\ k \in 1 .. c
          /\ Cardinality({i \in W : i < Nth(W, j)}) = j - 1 /\ Cardinality({i \in W : i < Nth(W, k)}) = k - 1
      BY <1>4, <1>8 DEF HasPlaces, c
    <3>2. Nth(W, j) = Nth(W, k) => j - 1 = k - 1 BY <3>1
    <3> QED BY <1>4, <3>1, <3>2
  <2>3. \A t \in T : \E k \in S : f[k] = t
    <3> TAKE t \in T
    <3>1. PICK k \in 1 .. c : t = Nth(W, k) BY <1>4, <1>9 DEF HasPlaces, c
    <3>2. k \in S BY <1>7, <3>1
    <3> QED BY <3>1, <3>2
  <2> HIDE DEF f
  <2>4. f \in Injection(S, T) BY <2>1, <2>2 DEF Injection, IsInjective
  <2>5. f \in Surjection(S, T) BY <2>1, <2>3 DEF Surjection
  <2> QED BY <2>4, <2>5 DEF Bijection
<1>11. IsFiniteSet(T) BY <1>4, <1>9, FS_Subset
<1>12. IsFiniteSet(S)
  <2>1. c \in Nat BY <1>4 DEF c
  <2>2. IsFiniteSet(1 .. c) BY <2>1, FS_Interval
  <2> QED BY <1>8, <2>2, FS_Subset
<1>13. Cardinality(S) = Cardinality(T)
  <2> HIDE DEF f
  <2>1. ExistsBijection(S, T) BY <1>10 DEF ExistsBijection
  <2> QED BY <1>12, <2>1, FS_Bijection
<1> QED BY <1>13 DEF S, T

LEMMA FromTo ==
    ASSUME NEW S \in SUBSET Nat, S # {}, NEW b \in Nat, \A x \in S : x <= b
    PROVE  \A x \in S : x \in Least(S) .. Greatest(S)
<1>1. Least(S) \in S /\ \A x \in S : Least(S) <= x BY LeastIs
<1>2. Greatest(S) \in S /\ \A x \in S : x <= Greatest(S) BY GreatestIs
<1>3. PICK lo \in Nat, hi \in Nat : lo = Least(S) /\ hi = Greatest(S) BY <1>1, <1>2
<1> QED BY <1>1, <1>2, <1>3

\* Messages and packets at some times: none outside the first and the last of them.
TimesOf(ps, ms) == {ps[i].t : i \in DOMAIN ps} \cup {ms[i].t : i \in DOMAIN ms}

LEMMA TimesAre ==
    ASSUME NEW ms \in Seq(ARead), NEW ps \in Seq(ASend), ms # <<>>
    PROVE  /\ \A i \in DOMAIN ms : ms[i].t \in Least(TimesOf(ps, ms)) .. Greatest(TimesOf(ps, ms))
           /\ \A i \in DOMAIN ps : ps[i].t \in Least(TimesOf(ps, ms)) .. Greatest(TimesOf(ps, ms))
<1> DEFINE times == TimesOf(ps, ms)
           g == [i \in 1 .. Len(ms) |-> ms[i].t]
           h == [i \in 1 .. Len(ps) |-> ps[i].t]
<1>1. /\ Len(ms) \in Nat \ {0} /\ DOMAIN ms = 1 .. Len(ms) /\ \A i \in DOMAIN ms : ms[i].t \in Nat
      /\ Len(ps) \in Nat /\ DOMAIN ps = 1 .. Len(ps) /\ \A i \in DOMAIN ps : ps[i].t \in Nat
  <2>1. \A i \in DOMAIN ms : ms[i] \in ARead OBVIOUS
  <2>2. \A i \in DOMAIN ps : ps[i] \in ASend OBVIOUS
  <2>3. Len(ms) \in Nat \ {0} /\ DOMAIN ms = 1 .. Len(ms) /\ Len(ps) \in Nat /\ DOMAIN ps = 1 .. Len(ps) OBVIOUS
  <2> QED BY <2>1, <2>2, <2>3 DEF ARead, ASend
<1>2. PICK b \in Nat : \A i \in 1 .. Len(ms) : ms[i].t <= b
  <2>1. g \in [1 .. Len(ms) -> Nat] BY <1>1
  <2>2. PICK b \in Nat : \A i \in 1 .. Len(ms) : g[i] <= b
    <3> HIDE DEF g
    <3> QED BY <1>1, <2>1, BoundOf
  <2> QED BY <2>2
<1>3. PICK c \in Nat : \A i \in 1 .. Len(ps) : ps[i].t <= c
  <2>1. h \in [1 .. Len(ps) -> Nat] BY <1>1
  <2>2. PICK c \in Nat : \A i \in 1 .. Len(ps) : h[i] <= c
    <3> HIDE DEF h
    <3> QED BY <1>1, <2>1, BoundOf
  <2> QED BY <2>2
<1>4. times \in SUBSET Nat /\ times # {} /\ \A x \in times : x <= b + c
  <2>1. ms[1].t \in times
    <3>1. 1 \in DOMAIN ms BY <1>1
    <3> QED BY <3>1 DEF TimesOf
  <2>2. ASSUME NEW x \in times PROVE x \in Nat /\ x <= b + c
    <3>1. (\E i \in DOMAIN ps : x = ps[i].t) \/ (\E i \in DOMAIN ms : x = ms[i].t) BY <2>2 DEF TimesOf
    <3>2. ASSUME NEW i \in DOMAIN ps, x = ps[i].t PROVE x \in Nat /\ x <= b + c
      <4>1. x \in Nat /\ x <= c BY <1>1, <1>3, <3>2
      <4> QED BY <4>1
    <3>3. ASSUME NEW i \in DOMAIN ms, x = ms[i].t PROVE x \in Nat /\ x <= b + c
      <4>1. x \in Nat /\ x <= b BY <1>1, <1>2, <3>3
      <4> QED BY <4>1
    <3> QED BY <3>1, <3>2, <3>3
  <2> QED BY <2>1, <2>2
<1>5. \A x \in times : x \in Least(times) .. Greatest(times)
  <2>1. b + c \in Nat OBVIOUS
  <2> HIDE DEF times
  <2> QED BY <1>4, <2>1, FromTo
<1>6. (\A i \in DOMAIN ms : ms[i].t \in times) /\ \A i \in DOMAIN ps : ps[i].t \in times BY DEF TimesOf
<1> QED BY <1>5, <1>6

\* The messages picked are those of one flow, by their times.
LEMMA MessagesAre ==
    ASSUME AnalysisTypes, NEW srv \in Flows,
           \A i \in DOMAIN allRead : allRead[i].flow = srv => allRead[i].server,
           NEW ms, ms = ByTime(Those(allRead, {i \in DOMAIN allRead : allRead[i].flow = srv}))
    PROVE  /\ ms \in Seq({m \in ARead : m.flow = srv /\ m.server})
           /\ Len(ms) = Cardinality({i \in DOMAIN allRead : allRead[i].flow = srv})
           /\ (\E i \in DOMAIN allRead : allRead[i].flow = srv) => ms # <<>>
           /\ \A i, j \in DOMAIN ms : i < j => ms[i].t <= ms[j].t
<1> DEFINE M == {i \in DOMAIN allRead : allRead[i].flow = srv}
           A == {m \in ARead : m.flow = srv /\ m.server}
           xs == Those(allRead, M)
<1>1. allRead \in Seq(ARead) /\ DOMAIN allRead = 1 .. Len(allRead) /\ Len(allRead) \in Nat BY DEF AnalysisTypes
<1>2. M \in SUBSET (1 .. Len(allRead)) BY <1>1
<1>3. \A i \in M : allRead[i] \in A
  <2>1. \A i \in DOMAIN allRead : allRead[i] \in ARead BY <1>1
  <2> QED BY <2>1
<1>4. (\E i \in DOMAIN allRead : allRead[i].flow = srv) => M # {} OBVIOUS
<1> HIDE DEF M
<1>5. /\ Cardinality(M) \in Nat /\ \A k \in 1 .. Cardinality(M) : Nth(M, k) \in M
      /\ xs = [k \in 1 .. Cardinality(M) |-> allRead[Nth(M, k)]]
  BY <1>1, <1>2, ThoseAre DEF Those
<1> HIDE DEF A
<1>6. xs \in Seq(A) /\ Len(xs) = Cardinality(M)
  <2>1. xs \in [1 .. Cardinality(M) -> A] BY <1>3, <1>5
  <2> HIDE DEF xs
  <2> QED BY <1>5, <2>1, IsSequence
<1>7. \A m \in A : m.t \in Nat BY DEF A, ARead
<1>8. ms = ByTime(xs) BY DEF M
<1> HIDE DEF xs
<1>9. /\ ms \in Seq(A) /\ Len(ms) = Len(xs) /\ \A i, j \in 1 .. Len(xs) : i < j => ms[i].t <= ms[j].t
  BY <1>6, <1>7, <1>8, ByTimeIs
<1>10. M # {} => Cardinality(M) # 0
  <2>1. IsFiniteSet(M) BY <1>1, <1>2, NthIs
  <2> QED BY <2>1, FS_EmptySet
<1>11. DOMAIN ms = 1 .. Len(ms) /\ (Len(ms) # 0 => ms # <<>>) BY <1>9
<1> QED BY <1>4, <1>6, <1>9, <1>10, <1>11 DEF A, M

LEMMA AnalyzeKeeps == ASSUME AnalysisIInv, Analyze PROVE AnalysisIInv'
<1>1. /\ done = "reading" /\ teed' = teed /\ isn' = isn /\ furthest' = furthest /\ segs' = segs /\ allRead' = allRead
  BY DEF Analyze
<1>2. AnalysisTypes /\ KeptAreSends BY DEF AnalysisIInv
<1>3. FurthestAre' BY <1>1 DEF AnalysisIInv, FurthestAre
<1>4. KeptAreSends' BY <1>1 DEF AnalysisIInv, KeptAreSends, ReachesPast
<1>5. CASE \A i \in DOMAIN allRead : ~allRead[i].server
  <2>1. done' = "none" /\ analysis' = analysis BY <1>5 DEF Analyze
  <2>2. AnalysisTypes' BY <1>1, <1>2, <2>1 DEF AnalysisTypes
  <2>3. OfOneSession' BY <2>1 DEF OfOneSession
  <2> QED BY <1>3, <1>4, <2>2, <2>3 DEF AnalysisIInv
<1>6. CASE \E i \in DOMAIN allRead : allRead[i].server
  <2> DEFINE srv == Picked(allRead)
             S == {i \in DOMAIN segs : Back(srv, segs[i].flow)}
             sent == Those(segs, S)
             ms == ByTime(Those(allRead, {i \in DOMAIN allRead : allRead[i].flow = srv}))
             times == {sent[i].t : i \in DOMAIN sent} \cup {ms[i].t : i \in DOMAIN ms}
  <2>1. done' = "read" /\ analysis' = AnalysisOf(srv, sent, ms) BY <1>6 DEF Analyze
  <2>2. /\ analysis'.srv = srv /\ analysis'.messages = ms /\ analysis'.sent = sent
        /\ analysis'.first = Least(times) /\ analysis'.last = Greatest(times)
        /\ analysis' # NoAnalysis
    <3>1. /\ AnalysisOf(srv, sent, ms).srv = srv /\ AnalysisOf(srv, sent, ms).messages = ms
          /\ AnalysisOf(srv, sent, ms).sent = sent
          /\ AnalysisOf(srv, sent, ms).first = Least(times) /\ AnalysisOf(srv, sent, ms).last = Greatest(times)
          /\ "messages" \in DOMAIN AnalysisOf(srv, sent, ms)
      <4> HIDE DEF srv, sent, ms
      <4> QED BY DEF AnalysisOf
    <3>2. "messages" \notin DOMAIN NoAnalysis BY DEF NoAnalysis
    <3> HIDE DEF srv, sent, ms, times
    <3> QED BY <2>1, <3>1, <3>2
  <2>3. /\ srv \in Flows
        /\ \A g : FromServer(g) <= Cardinality({i \in DOMAIN allRead : allRead[i].flow = srv})
        /\ \A i \in DOMAIN allRead : allRead[i].flow = srv => allRead[i].server
        /\ \E i \in DOMAIN allRead : allRead[i].flow = srv
    BY <1>2, <1>6, PickedIs
  <2> HIDE DEF srv
  <2>4. /\ ms \in Seq({m \in ARead : m.flow = srv /\ m.server})
        /\ Len(ms) = Cardinality({i \in DOMAIN allRead : allRead[i].flow = srv})
        /\ ms # <<>>
        /\ \A i, j \in DOMAIN ms : i < j => ms[i].t <= ms[j].t
    BY <1>2, <2>3, MessagesAre
  <2> HIDE DEF ms
  <2>5. sent \in Seq(ASend) /\ Len(sent) = Cardinality(S)
    <3>1. segs \in Seq(ASend) /\ S \in SUBSET (1 .. Len(segs)) BY <1>2 DEF AnalysisTypes
    <3> HIDE DEF S
    <3> QED BY <3>1, ThoseAre
  <2>6. Cardinality(S) = Cardinality({n \in DOMAIN teed : /\ ReachesPast(n)
                                /\ teed[n].flow.src = srv.dst /\ teed[n].flow.dst = srv.src
                                /\ teed[n].flow.if = srv.if})
    BY <1>2, <2>3, SentAre
  <2> HIDE DEF S, sent
  <2>7. /\ \A i \in DOMAIN ms : ms[i].t \in Least(times) .. Greatest(times)
        /\ \A i \in DOMAIN sent : sent[i].t \in Least(times) .. Greatest(times)
    <3>1. ms \in Seq(ARead)
      <4> DEFINE A == {m \in ARead : m.flow = srv /\ m.server}
      <4>1. \A m \in A : m \in ARead OBVIOUS
      <4>2. ms \in Seq(A) BY <2>4
      <4> HIDE DEF A
      <4> QED BY <4>1, <4>2
    <3>2. times = TimesOf(sent, ms) BY DEF TimesOf
    <3> HIDE DEF times
    <3> QED BY <2>4, <2>5, <3>1, <3>2, TimesAre
  <2> HIDE DEF times
  <2>8. \A f \in Flows : FromServer(f)' <= Len(ms) BY <1>1, <2>3, <2>4 DEF FromServer
  <2>9. \A i \in DOMAIN ms : ms[i].flow = srv /\ ms[i].server
    <3> DEFINE A == {m \in ARead : m.flow = srv /\ m.server}
    <3>1. \A m \in A : m.flow = srv /\ m.server OBVIOUS
    <3>2. ms \in Seq(A) BY <2>4
    <3> HIDE DEF A
    <3> QED BY <3>1, <3>2
  <2>10. Len(sent) = Cardinality({n \in DOMAIN teed : /\ ReachesPast(n)
                                /\ teed[n].flow.src = srv.dst /\ teed[n].flow.dst = srv.src
                                /\ teed[n].flow.if = srv.if})
    BY <2>5, <2>6
  <2>11. \A n : ReachesPast(n)' <=> ReachesPast(n) BY <1>1 DEF ReachesPast
  <2>12. OfOneSession'
    <3>1. {n \in DOMAIN teed' : /\ ReachesPast(n)'
                                /\ teed'[n].flow.src = analysis'.srv.dst /\ teed'[n].flow.dst = analysis'.srv.src
                                /\ teed'[n].flow.if = analysis'.srv.if}
          = {n \in DOMAIN teed : /\ ReachesPast(n)
                                /\ teed[n].flow.src = srv.dst /\ teed[n].flow.dst = srv.src
                                /\ teed[n].flow.if = srv.if}
      BY <1>1, <2>2, <2>11
    <3> QED BY <2>2, <2>4, <2>7, <2>8, <2>9, <2>10, <3>1 DEF OfOneSession
  <2>13. AnalysisTypes' BY <1>1, <1>2, <2>1, <2>2 DEF AnalysisTypes
  <2> QED BY <1>3, <1>4, <2>12, <2>13 DEF AnalysisIInv
<1> QED BY <1>5, <1>6

-----------------------------------------------------------------------------

LEMMA AnalysisInitHolds == ASSUME AnalysisInit PROVE AnalysisIInv
<1>1. /\ teed = <<>> /\ furthest = <<>> /\ segs = <<>> /\ allRead = <<>>
      /\ isn \in Seqs /\ done = "reading" /\ analysis = NoAnalysis
  BY AnalysisAssumption DEF AnalysisInit
<1>2. AnalysisTypes BY <1>1 DEF AnalysisTypes
<1>3. FurthestAre BY <1>1 DEF FurthestAre
<1>4. KeptAreSends
  <2>1. SendsOf(teed) = {} BY <1>1 DEF SendsOf
  <2>2. Cardinality({}) = 0 /\ 1 .. 0 = {} BY FS_EmptySet
  <2>3. DOMAIN Those(SendsAs(teed), SendsOf(teed)) = {} BY <2>1, <2>2 DEF Those
  <2>4. Those(SendsAs(teed), SendsOf(teed)) = <<>>
    <3>1. Those(SendsAs(teed), {}) = [k \in 1 .. 0 |-> SendsAs(teed)[Nth({}, k)]] BY <2>2 DEF Those
    <3> QED BY <2>1, <2>2, <3>1
  <2> QED BY <1>1, <2>4, KeptAreThose
<1>5. OfOneSession BY <1>1 DEF OfOneSession
<1> QED BY <1>2, <1>3, <1>4, <1>5 DEF AnalysisIInv

LEMMA AnalysisStepKeeps == ASSUME AnalysisIInv, [AnalysisNext]_analysisVars PROVE AnalysisIInv'
<1>1. CASE UNCHANGED analysisVars
  <2>1. /\ teed' = teed /\ isn' = isn /\ furthest' = furthest /\ segs' = segs /\ allRead' = allRead
        /\ done' = done /\ analysis' = analysis
    BY <1>1 DEF analysisVars
  <2>2. AnalysisTypes' BY <2>1 DEF AnalysisIInv, AnalysisTypes
  <2>3. FurthestAre' BY <2>1 DEF AnalysisIInv, FurthestAre
  <2>4. KeptAreSends' BY <2>1 DEF AnalysisIInv, KeptAreSends, ReachesPast
  <2>5. OfOneSession' BY <2>1 DEF AnalysisIInv, OfOneSession, FromServer, ReachesPast
  <2> QED BY <2>2, <2>3, <2>4, <2>5 DEF AnalysisIInv
<1>2. CASE \E f \in Recorded, n \in Sizes, time \in Ticks :
               \E from \in Reach(f) - MaxBehind .. Reach(f) + MaxAhead : from >= 0 /\ ReadSegment(f, from, n, time)
  BY <1>2, SegmentKeeps
<1>3. CASE \E f \in Flows, op \in Ops, time \in Ticks : ReadMessage(f, op, time) BY <1>3, ReadMessageKeeps
<1>4. CASE Fail BY <1>4, FailKeeps
<1>5. CASE Analyze BY <1>5, AnalyzeKeeps
<1> QED BY <1>1, <1>2, <1>3, <1>4, <1>5 DEF AnalysisNext

LEMMA AnalysisTypesAreOK == ASSUME AnalysisIInv PROVE AnalysisTypeOK
<1>1. AnalysisTypes /\ FurthestAre /\ KeptAreSends BY DEF AnalysisIInv
<1>2. teed \in Seq(ASegment) /\ isn \in Seqs BY <1>1 DEF AnalysisTypes
<1>3. ASSUME NEW f \in DOMAIN furthest PROVE f \in Flows /\ furthest[f] \in Seqs
  <2>1. PICK i \in DOMAIN teed : teed[i].flow = f BY <1>1 DEF FurthestAre
  <2>2. teed[i] \in ASegment BY <1>2
  <2>3. f \in Flows BY <2>1, <2>2 DEF ASegment
  <2>4. furthest[f] = Plus(isn, ReachOf(teed, f)) /\ ReachOf(teed, f) \in Nat BY <1>1, <1>2, ReachIs DEF FurthestAre
  <2>5. Plus(isn, ReachOf(teed, f)) \in Seqs
    <3>1. 0 < Mod \div 2 /\ Mod \div 2 \in Nat BY ModAssumption
    <3> QED BY <1>2, <2>4, <3>1, PlacesAfter
  <2> QED BY <2>3, <2>4, <2>5
<1>4. Len(segs) <= Len(teed)
  <2>1. segs = Those(SendsAs(teed), SendsOf(teed)) BY <1>1, KeptAreThose
  <2>2. SendsAs(teed) \in [DOMAIN teed -> ASend]
    <3>1. \A i \in DOMAIN teed : teed[i] \in ASegment BY <1>2
    <3> QED BY <3>1 DEF SendsAs, SendOf, ASegment, ASend
  <2>3. SendsAs(teed) \in Seq(ASend) /\ Len(SendsAs(teed)) = Len(teed)
    <3>1. DOMAIN teed = 1 .. Len(teed) /\ Len(teed) \in Nat BY <1>2
    <3> QED BY <2>2, <3>1, IsSequence
  <2>4. SendsOf(teed) \in SUBSET (1 .. Len(SendsAs(teed))) BY <1>2, <2>3 DEF SendsOf
  <2> QED BY <2>1, <2>3, <2>4, ThoseAre
<1> QED BY <1>1, <1>3, <1>4 DEF AnalysisTypes, AnalysisTypeOK

\* A recording's analysis is of one server's session: what tee keeps are the sends and
\* no retransmit, on each flow and across the wrap, and what is picked of them and of the
\* messages is all that the server and its client sent, in order (tee, Analyze).
THEOREM TheSessionIsWhole == AnalysisSpec => []SessionIsWhole
<1>1. AnalysisInit => AnalysisIInv BY AnalysisInitHolds
<1>2. AnalysisIInv /\ [AnalysisNext]_analysisVars => AnalysisIInv' BY AnalysisStepKeeps
<1>3. AnalysisIInv => SessionIsWhole BY AnalysisTypesAreOK DEF SessionIsWhole, AnalysisIInv
<1> QED BY <1>1, <1>2, <1>3, PTL DEF AnalysisSpec
=============================================================================
