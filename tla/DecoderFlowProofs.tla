------------------------- MODULE DecoderFlowProofs -------------------------
(***************************************************************************)
(* What a decoder brings: the frames that wait and those that are queued,  *)
(* for every set of keys, frames and times and every limit.  No frame is   *)
(* lost by the lock it waits for, each stream's leave in their order, and  *)
(* what a step queues with a direction is of one connection: the decoder's *)
(* lock is a FlowLock.                                                     *)
(*                                                                         *)
(* Within a step the argument follows what is due: the frames that waited  *)
(* when the step began, and those found since, are numbered without a gap, *)
(* and each of them is queued, still waits, gave way to younger ones or is *)
(* not asked for.  Each method keeps that (Waits, Flows, Running), from    *)
(* what its step begins with (Begun) to what it has brought (Brought); the *)
(* rest of the step takes nothing back.                                    *)
(***************************************************************************)
EXTENDS DecoderProofs, SequenceTheorems

-----------------------------------------------------------------------------
\* What waits, what is queued, and what is due.

\* What waits on a stream of key k: its own frames, at most maxEarly, in their order and behind what
\* it has emitted, and only while it hunts.
WaitsOn(s, k, c) ==
    /\ Len(s.early) <= MaxEarly
    /\ s.early # <<>> => s.dir = Hunting /\ ~c.emitUnlocked
    /\ \A i \in 1 .. Len(s.early) : /\ s.early[i].key = k /\ s.early[i].born = s.born
                                    /\ s.early[i].number + (Len(s.early) - i) < s.emitted
    /\ \A h, i \in 1 .. Len(s.early) : h < i => s.early[h].number < s.early[i].number

WaitsWell(x) == \A j \in DOMAIN x.streams : WaitsOn(x.streams[j], j, x.config)

\* A stream is known by its number.
BornApart(x) == \A i, j \in DOMAIN x.streams : x.streams[i].born = x.streams[j].born => i = j

\* What the step has queued so far is of the connection of e, may be queued, and is in order, ahead of
\* what its streams have still to queue.
Allowed(f, c) == \/ f.dir = Server
                 \/ f.dir = Client /\ c.emitClient
                 \/ f.dir = Hunting /\ c.emitUnlocked

Ahead(f, s) == f.born = s.born => /\ f.number < s.emitted
                                  /\ \A i \in 1 .. Len(s.early) : f.number < s.early[i].number

InTurn(q) == \A i, j \in 1 .. Len(q) : i < j /\ q[i].born = q[j].born => q[i].number < q[j].number

QueuedFrame(x, f, e) == /\ f.key \in Connection(e) /\ Allowed(f, x.config) /\ f.born < x.born
                        /\ \A j \in DOMAIN x.streams : Ahead(f, x.streams[j])

QueuedWell(x, e) == /\ \A i \in 1 .. Len(x.queue) : QueuedFrame(x, x.queue[i], e)
                    /\ InTurn(x.queue)

\* The frames of a stream s of key j that waited in b, where the step began, or were found since.
Base(b, s, j) == IF j \in DOMAIN b.streams /\ b.streams[j].born = s.born
                 THEN b.streams[j] ELSE [emitted |-> 0, early |-> <<>>]

Due(b, s, j) == LET o == Base(b, s, j)
                IN {o.early[i].number : i \in 1 .. Len(o.early)} \cup (o.emitted .. s.emitted - 1)

\* One of them is queued, or waits, or gave way, or is a client's that is not asked for.  The stream
\* g has just earned the lock, by a frame that is not numbered yet.
Queued(n, s, q) == \E i \in 1 .. Len(q) : q[i].born = s.born /\ q[i].number = n
Waiting(n, s)   == \E i \in 1 .. Len(s.early) : s.early[i].number = n
Slack(s, j, g)  == MaxEarly + (IF s.dir = Server /\ j # g THEN 1 ELSE 0)

Settled(n, s, q, c, j, g) ==
    \/ Queued(n, s, q)
    \/ Waiting(n, s)
    \/ n < s.emitted - Slack(s, j, g)
    \/ s.dir = Client /\ ~c.emitClient

Reached(b, x, g) ==
    \A j \in DOMAIN x.streams : \A n \in Due(b, x.streams[j], j) :
        Settled(n, x.streams[j], x.queue, x.config, j, g)

\* What of a decoder the frames that flow are told by.
Framed(x) == /\ x.queue \in Seq(Frame) /\ x.born \in Nat
             /\ \A j \in DOMAIN x.streams :
                   /\ j \in Keys /\ x.streams[j].dir \in {Server, Client, Hunting}
                   /\ x.streams[j].early \in Seq(Frame)
                   /\ x.streams[j].emitted \in Nat /\ x.streams[j].born \in Nat
                   /\ x.streams[j].born < x.born

\* What waits and is queued in x, in a step that began with b and is on the connection of e; and that
\* nothing that is due is lost in it so far.
Waits(b, x, e) == /\ Framed(x) /\ b.born <= x.born /\ x.config = b.config
                  /\ BornApart(x) /\ WaitsWell(x) /\ QueuedWell(x, e)

Flows(b, x, e, g) == Waits(b, x, e) /\ Reached(b, x, g)

LEMMA AptFramed == ASSUME NEW x, Apt(x) PROVE Framed(x)
<1>. IsDecoder(x) /\ Young(x) BY DEF Apt, Sound
<1>1. x.queue \in Seq(Frame) /\ x.born \in Nat /\ DOMAIN x.streams \subseteq Keys BY DEF IsDecoder, Fields
<1>2. \A j \in DOMAIN x.streams : x.streams[j] \in AStream BY DEF IsDecoder
<1> QED BY <1>1, <1>2 DEF Framed, AStream, Young

\* What is due of a stream has been numbered.
LEMMA DueNumbers ==
    ASSUME NEW b, Framed(b), NEW s, s.emitted \in Nat, NEW j
    PROVE  /\ Due(b, s, j) \subseteq Int
           /\ \A n : n \in Due(b, s, j) <=> \/ n \in Base(b, s, j).emitted .. s.emitted - 1
                                            \/ \E i \in 1 .. Len(Base(b, s, j).early) :
                                                  n = Base(b, s, j).early[i].number
<1> DEFINE o == Base(b, s, j)
<1>1. o.emitted \in Nat /\ o.early \in Seq(Frame)
  <2>1. CASE j \in DOMAIN b.streams /\ b.streams[j].born = s.born BY <2>1 DEF Base, Framed
  <2>2. CASE ~(j \in DOMAIN b.streams /\ b.streams[j].born = s.born)
    <3>1. o = [emitted |-> 0, early |-> <<>>] BY <2>2 DEF Base
    <3>2. o.emitted = 0 /\ o.early = <<>> BY <3>1
    <3> HIDE DEF o
    <3> QED BY <3>2
  <2> QED BY <2>1, <2>2
<1>2. Due(b, s, j) = {o.early[i].number : i \in 1 .. Len(o.early)} \cup (o.emitted .. s.emitted - 1) BY DEF Due
<1> HIDE DEF o
<1>3. \A i \in 1 .. Len(o.early) : o.early[i].number \in Nat
  <2>1. \A i \in 1 .. Len(o.early) : o.early[i] \in Frame BY <1>1
  <2> QED BY <2>1 DEF Frame
<1>4. \A n : n \in Due(b, s, j) <=> \/ n \in o.emitted .. s.emitted - 1
                                    \/ \E i \in 1 .. Len(o.early) : n = o.early[i].number
  BY <1>2
<1>5. Due(b, s, j) \subseteq Int BY <1>1, <1>3, <1>4
<1> QED BY <1>4, <1>5 DEF o

\* What a stream has found since is all that is due of it beyond what was due.
LEMMA DueOn ==
    ASSUME NEW b, Framed(b), NEW s, s.emitted \in Nat, NEW u, u.born = s.born,
           u.emitted = s.emitted \/ u.emitted = s.emitted + 1, NEW j, NEW n \in Due(b, u, j)
    PROVE  n \in Int /\ (n \in Due(b, s, j) \/ (u.emitted = s.emitted + 1 /\ n = s.emitted))
<1>1. Base(b, u, j) = Base(b, s, j) BY DEF Base
<1>2. u.emitted \in Nat OBVIOUS
<1>3. n \in Int BY <1>2, DueNumbers
<1>4. \/ n \in Base(b, s, j).emitted .. u.emitted - 1
      \/ \E i \in 1 .. Len(Base(b, s, j).early) : n = Base(b, s, j).early[i].number
  BY <1>1, <1>2, DueNumbers
<1>5. CASE n \in Base(b, s, j).emitted .. u.emitted - 1
  <2>1. n \in Base(b, s, j).emitted .. s.emitted - 1 \/ (u.emitted = s.emitted + 1 /\ n = s.emitted)
    BY <1>3, <1>5
  <2> QED BY <1>3, <2>1, DueNumbers
<1> QED BY <1>3, <1>4, <1>5, DueNumbers

\* Nothing is due of a stream made in the step that has found nothing.
LEMMA NothingDue ==
    ASSUME NEW b, Framed(b), NEW s, s.emitted = 0, s.born >= b.born, s.born \in Nat, NEW j
    PROVE  Due(b, s, j) = {}
<1>1. ~(j \in DOMAIN b.streams /\ b.streams[j].born = s.born) BY DEF Framed
<1>2. Base(b, s, j) = [emitted |-> 0, early |-> <<>>] BY <1>1 DEF Base
<1>3. Base(b, s, j).emitted = 0 /\ Len(Base(b, s, j).early) = 0 BY <1>2
<1>4. \A n : n \notin Due(b, s, j) BY <1>3, DueNumbers
<1> QED BY <1>4

\* The slack is MaxEarly, and one more for a server's stream but the one that has just earned the lock.
LEMMA SlackIs ==
    ASSUME NEW s, NEW j, NEW g
    PROVE  /\ Slack(s, j, g) \in Nat /\ MaxEarly \in Nat
           /\ Slack(s, j, g) \in {MaxEarly, MaxEarly + 1}
           /\ s.dir # Server => Slack(s, j, g) = MaxEarly
           /\ j = g => Slack(s, j, g) = MaxEarly
<1>1. MaxEarly \in Nat BY DecoderAssumption
<1> QED BY <1>1 DEF Slack

\* Streams are dropped or noted, one of them, on k, may be made, and no frame comes of it.
Went(s, u) == u.born = s.born /\ u.early = s.early /\ u.emitted = s.emitted /\ u.dir \in {s.dir, Hunting}

Fresh(x, s) == s.born = x.born /\ s.early = <<>> /\ s.emitted = 0

Passive(x, y, k) == /\ y.config = x.config /\ y.queue = x.queue /\ y.born >= x.born
                    /\ \A j \in DOMAIN y.streams : \/ j \in DOMAIN x.streams /\ Went(x.streams[j], y.streams[j])
                                                   \/ j = k /\ Fresh(x, y.streams[j])

LEMMA PassiveWaits ==
    ASSUME NEW b, NEW x, NEW y, NEW k, NEW e, b.born \in Nat, Framed(y), Waits(b, x, e), Passive(x, y, k)
    PROVE  Waits(b, y, e)
<1>1. y.config = x.config /\ y.queue = x.queue /\ y.born >= x.born BY DEF Passive
<1>2. \A j \in DOMAIN y.streams : \/ j \in DOMAIN x.streams /\ Went(x.streams[j], y.streams[j])
                                  \/ j = k /\ Fresh(x, y.streams[j])
  BY DEF Passive
<1>3. Framed(x) /\ BornApart(x) /\ WaitsWell(x) /\ QueuedWell(x, e) /\ b.born <= x.born BY DEF Waits
<1>4. /\ x.born \in Nat /\ y.born \in Nat
      /\ \A j \in DOMAIN x.streams : x.streams[j].born \in Nat /\ x.streams[j].born < x.born
  BY <1>3 DEF Framed
<1>5. b.born <= y.born BY <1>1, <1>3, <1>4
<1>6. BornApart(y)
  <2> SUFFICES ASSUME NEW i \in DOMAIN y.streams, NEW j \in DOMAIN y.streams,
                      y.streams[i].born = y.streams[j].born
               PROVE  i = j
    BY DEF BornApart
  <2>1. CASE /\ i \in DOMAIN x.streams /\ Went(x.streams[i], y.streams[i])
             /\ j \in DOMAIN x.streams /\ Went(x.streams[j], y.streams[j])
    BY <1>3, <2>1 DEF BornApart, Went
  <2>2. CASE i = k /\ Fresh(x, y.streams[i]) BY <1>2, <1>4, <2>2 DEF Fresh, Went
  <2>3. CASE j = k /\ Fresh(x, y.streams[j]) BY <1>2, <1>4, <2>3 DEF Fresh, Went
  <2> QED BY <1>2, <2>1, <2>2, <2>3
<1>7. WaitsWell(y)
  <2> SUFFICES ASSUME NEW j \in DOMAIN y.streams PROVE WaitsOn(y.streams[j], j, y.config) BY DEF WaitsWell
  <2>1. CASE j \in DOMAIN x.streams /\ Went(x.streams[j], y.streams[j])
    <3>1. WaitsOn(x.streams[j], j, x.config) BY <1>3, <2>1 DEF WaitsWell
    <3> QED BY <1>1, <2>1, <3>1 DEF WaitsOn, Went
  <2>2. CASE Fresh(x, y.streams[j])
    <3>1. y.streams[j].early = <<>> /\ Len(y.streams[j].early) = 0 BY <2>2 DEF Fresh
    <3>2. MaxEarly \in Nat BY DecoderAssumption
    <3> QED BY <3>1, <3>2 DEF WaitsOn
  <2> QED BY <1>2, <2>1, <2>2
<1>8. ASSUME NEW i \in 1 .. Len(x.queue) PROVE QueuedFrame(y, x.queue[i], e)
  <2> DEFINE f == x.queue[i]
  <2>1. QueuedFrame(x, f, e) BY <1>3 DEF QueuedWell
  <2>2. f \in Frame BY <1>3 DEF Framed
  <2>3. f.born \in Nat BY <2>2 DEF Frame
  <2> HIDE DEF f
  <2>4. f.born < x.born /\ f.born < y.born BY <1>1, <1>4, <2>1, <2>3 DEF QueuedFrame
  <2>5. ASSUME NEW j \in DOMAIN y.streams PROVE Ahead(f, y.streams[j])
    <3>1. CASE j \in DOMAIN x.streams /\ Went(x.streams[j], y.streams[j])
      <4>1. Ahead(f, x.streams[j]) BY <2>1, <3>1 DEF QueuedFrame
      <4> QED BY <3>1, <4>1 DEF Ahead, Went
    <3>2. CASE Fresh(x, y.streams[j]) BY <1>4, <2>3, <2>4, <3>2 DEF Fresh, Ahead
    <3> QED BY <1>2, <3>1, <3>2
  <2> QED BY <1>1, <2>1, <2>4, <2>5 DEF QueuedFrame, f
<1>9. QueuedWell(y, e) BY <1>1, <1>3, <1>8 DEF QueuedWell
<1>10. x.config = b.config BY DEF Waits
<1> QED BY <1>1, <1>5, <1>6, <1>7, <1>9, <1>10 DEF Waits

LEMMA PassiveFlows ==
    ASSUME NEW b, NEW x, NEW y, NEW k, NEW e, NEW g, Framed(b), Framed(y), Flows(b, x, e, g),
           Passive(x, y, k), SameDirs(x, y)
    PROVE  Flows(b, y, e, g)
<1>1. y.config = x.config /\ y.queue = x.queue BY DEF Passive
<1>2. Framed(x) /\ Reached(b, x, g) /\ Waits(b, x, e) /\ b.born <= x.born BY DEF Flows, Waits
<1>3. b.born \in Nat /\ x.born \in Nat BY <1>2 DEF Framed
<1>4. Waits(b, y, e) BY <1>2, <1>3, PassiveWaits
<1>5. Reached(b, y, g)
  <2> SUFFICES ASSUME NEW j \in DOMAIN y.streams, NEW n \in Due(b, y.streams[j], j)
               PROVE  Settled(n, y.streams[j], y.queue, y.config, j, g)
    BY DEF Reached
  <2>1. CASE j \in DOMAIN x.streams /\ Went(x.streams[j], y.streams[j])
    <3>1. /\ y.streams[j].born = x.streams[j].born /\ y.streams[j].early = x.streams[j].early
          /\ y.streams[j].emitted = x.streams[j].emitted
      BY <2>1 DEF Went
    <3>2. y.streams[j].dir = x.streams[j].dir BY <2>1, <3>1 DEF SameDirs
    <3>3. x.streams[j].emitted \in Nat BY <1>2, <2>1 DEF Framed
    <3>4. x.streams[j].emitted # x.streams[j].emitted + 1 BY <3>3
    <3>5. n \in Due(b, x.streams[j], j) BY <3>1, <3>3, <3>4, DueOn
    <3>6. Settled(n, x.streams[j], x.queue, x.config, j, g) BY <1>2, <2>1, <3>5 DEF Reached
    <3> QED BY <1>1, <3>1, <3>2, <3>6 DEF Settled, Queued, Waiting, Slack
  <2>2. CASE Fresh(x, y.streams[j])
    <3>1. Due(b, y.streams[j], j) = {} BY <1>2, <1>3, <2>2, NothingDue DEF Fresh
    <3> QED BY <3>1
  <2> QED BY <2>1, <2>2 DEF Passive
<1> QED BY <1>4, <1>5 DEF Flows

-----------------------------------------------------------------------------
\* A frame is found: it waits, or is queued.

\* A frame found while hunting waits; the oldest gives way.
WaitedWell(s, u, k, c) ==
    /\ WaitsOn(u, k, c)
    /\ \E i \in 1 .. Len(u.early) : u.early[i].number = s.emitted
    /\ \A i \in 1 .. Len(s.early) : \/ \E h \in 1 .. Len(u.early) : u.early[h] = s.early[i]
                                    \/ s.early[i].number < u.emitted - MaxEarly
    /\ \A h \in 1 .. Len(u.early) : \/ u.early[h].number = s.emitted
                                    \/ \E i \in 1 .. Len(s.early) : u.early[h] = s.early[i]

LEMMA WaitFlows ==
    ASSUME NEW s, NEW k, NEW c, s.early \in Seq(Frame), s.emitted \in Nat, WaitsOn(s, k, c),
           s.dir = Hunting, ~c.emitUnlocked, NEW f \in Frame, f = Numbered(s, k),
           NEW u, u.early = Wait(s.early, f), u.emitted = s.emitted + 1, u.born = s.born, u.dir = s.dir
    PROVE  WaitedWell(s, u, k, c)
<1> DEFINE a == s.early
           N == Len(a)
           E == s.emitted
           e == Append(a, f)
           w == u.early
<1>1. f.key = k /\ f.born = s.born /\ f.number = E BY DEF Numbered
<1>2. MaxEarly \in Nat /\ MaxEarly >= 1 BY DecoderAssumption
<1>3. N \in Nat /\ N <= MaxEarly /\ \A i \in 1 .. N : a[i].number \in Nat
  <2>1. \A i \in 1 .. N : a[i] \in Frame OBVIOUS
  <2> QED BY <2>1 DEF WaitsOn, Frame
<1>4. Len(e) = N + 1 /\ e[N + 1] = f /\ \A i \in 1 .. N : e[i] = a[i] OBVIOUS
<1>5. \A i \in 1 .. N + 1 : /\ e[i].key = k /\ e[i].born = s.born /\ e[i].number \in Nat
                            /\ e[i].number + (N + 1 - i) < E + 1
  <2> SUFFICES ASSUME NEW i \in 1 .. N + 1
               PROVE  /\ e[i].key = k /\ e[i].born = s.born /\ e[i].number \in Nat
                      /\ e[i].number + (N + 1 - i) < E + 1
    OBVIOUS
  <2>1. CASE i = N + 1 BY <1>1, <1>3, <1>4, <2>1
  <2>2. CASE i \in 1 .. N
    <3>1. a[i].key = k /\ a[i].born = s.born /\ a[i].number + (N - i) < E BY <2>2 DEF WaitsOn
    <3>2. e[i] = a[i] /\ a[i].number \in Nat BY <1>3, <1>4, <2>2
    <3> HIDE DEF a, N, e
    <3> QED BY <1>3, <2>2, <3>1, <3>2
  <2> QED BY <1>3, <2>1, <2>2
<1>6. \A h, i \in 1 .. N + 1 : h < i => e[h].number < e[i].number
  <2> SUFFICES ASSUME NEW h \in 1 .. N + 1, NEW i \in 1 .. N + 1, h < i PROVE e[h].number < e[i].number OBVIOUS
  <2>1. h \in 1 .. N BY <1>3
  <2>2. e[h] = a[h] BY <1>4, <2>1
  <2>3. CASE i = N + 1
    <3>1. a[h].number + (N - h) < E BY <2>1 DEF WaitsOn
    <3>2. a[h].number \in Nat BY <1>3, <2>1
    <3>3. e[i].number = E BY <1>1, <1>4, <2>3
    <3> HIDE DEF a, N, e
    <3> QED BY <1>3, <2>1, <2>2, <3>1, <3>2, <3>3
  <2>4. CASE i \in 1 .. N
    <3>1. e[i] = a[i] BY <1>4, <2>4
    <3>2. a[h].number < a[i].number BY <2>1, <2>4 DEF WaitsOn
    <3> QED BY <2>2, <3>1, <3>2
  <2> QED BY <1>3, <2>3, <2>4
<1>7. w = IF N + 1 > MaxEarly THEN Tail(e) ELSE e BY <1>4 DEF Wait
<1>8. e \in Seq(Frame) OBVIOUS
<1>9. \/ Len(w) = N + 1 /\ N + 1 <= MaxEarly /\ \A i \in 1 .. Len(w) : w[i] = e[i]
      \/ Len(w) = N /\ N = MaxEarly /\ \A i \in 1 .. Len(w) : w[i] = e[i + 1]
  <2>1. CASE N + 1 > MaxEarly
    <3>1. w = Tail(e) /\ e # <<>> /\ N = MaxEarly BY <1>2, <1>3, <1>4, <1>7, <2>1
    <3>2. Len(Tail(e)) = Len(e) - 1 /\ \A i \in 1 .. Len(e) - 1 : Tail(e)[i] = e[i + 1] BY <1>8, <3>1
    <3> HIDE DEF e, w
    <3>3. Len(w) = N BY <1>3, <1>4, <3>1, <3>2
    <3>4. \A i \in 1 .. N : w[i] = e[i + 1] BY <1>3, <1>4, <3>1, <3>2
    <3> QED BY <3>1, <3>3, <3>4
  <2>2. CASE ~(N + 1 > MaxEarly) BY <1>2, <1>3, <1>4, <1>7, <2>2
  <2> QED BY <2>1, <2>2
<1> HIDE DEF a, N, e, w
<1>10. CASE Len(w) = N + 1 /\ N + 1 <= MaxEarly /\ \A i \in 1 .. Len(w) : w[i] = e[i]
  <2>1. \A i \in 1 .. Len(w) : /\ w[i].key = k /\ w[i].born = u.born
                               /\ w[i].number + (Len(w) - i) < u.emitted
    <3> SUFFICES ASSUME NEW i \in 1 .. Len(w)
                 PROVE  w[i].key = k /\ w[i].born = u.born /\ w[i].number + (Len(w) - i) < u.emitted
      OBVIOUS
    <3>1. i \in 1 .. N + 1 /\ w[i] = e[i] /\ Len(w) = N + 1 BY <1>10
    <3>2. /\ e[i].key = k /\ e[i].born = s.born /\ e[i].number \in Nat
          /\ e[i].number + (N + 1 - i) < E + 1
      BY <1>5, <3>1
    <3> QED BY <1>3, <3>1, <3>2 DEF E
  <2>2. \A h, i \in 1 .. Len(w) : h < i => w[h].number < w[i].number BY <1>3, <1>6, <1>10
  <2>3. WaitsOn(u, k, c) BY <1>10, <2>1, <2>2 DEF WaitsOn, w
  <2>4. N + 1 \in 1 .. Len(w) /\ w[N + 1].number = E BY <1>1, <1>3, <1>4, <1>10
  <2>5. \A i \in 1 .. N : i \in 1 .. Len(w) /\ w[i] = a[i] BY <1>3, <1>4, <1>10
  <2>6. \A h \in 1 .. Len(w) : h = N + 1 \/ h \in 1 .. N BY <1>3, <1>10
  <2>7. \A h \in 1 .. Len(w) : w[h].number = E \/ \E i \in 1 .. N : w[h] = a[i] BY <2>4, <2>5, <2>6
  <2>8. \A i \in 1 .. N : \E h \in 1 .. Len(w) : w[h] = a[i] BY <2>5
  <2>9. \E i \in 1 .. Len(w) : w[i].number = E BY <2>4
  <2> QED BY <2>3, <2>7, <2>8, <2>9 DEF WaitedWell, a, N, E, w
<1>11. CASE Len(w) = N /\ N = MaxEarly /\ \A i \in 1 .. Len(w) : w[i] = e[i + 1]
  <2>1. \A i \in 1 .. Len(w) : /\ w[i].key = k /\ w[i].born = u.born
                               /\ w[i].number + (Len(w) - i) < u.emitted
    <3> SUFFICES ASSUME NEW i \in 1 .. Len(w)
                 PROVE  w[i].key = k /\ w[i].born = u.born /\ w[i].number + (Len(w) - i) < u.emitted
      OBVIOUS
    <3>1. i + 1 \in 1 .. N + 1 /\ w[i] = e[i + 1] BY <1>3, <1>11
    <3>2. /\ e[i + 1].key = k /\ e[i + 1].born = s.born /\ e[i + 1].number \in Nat
          /\ e[i + 1].number + (N + 1 - (i + 1)) < E + 1
      BY <1>5, <3>1
    <3> QED BY <1>3, <1>11, <3>1, <3>2 DEF E
  <2>2. \A h, i \in 1 .. Len(w) : h < i => w[h].number < w[i].number
    <3> SUFFICES ASSUME NEW h \in 1 .. Len(w), NEW i \in 1 .. Len(w), h < i PROVE w[h].number < w[i].number
      OBVIOUS
    <3>1. h + 1 \in 1 .. N + 1 /\ i + 1 \in 1 .. N + 1 /\ h + 1 < i + 1 BY <1>3, <1>11
    <3> QED BY <1>6, <1>11, <3>1
  <2>3. WaitsOn(u, k, c) BY <1>3, <1>11, <2>1, <2>2 DEF WaitsOn, w
  <2>4. N \in 1 .. Len(w) /\ w[N].number = E BY <1>1, <1>2, <1>3, <1>4, <1>11
  <2>5. \A i \in 1 .. N : i = 1 \/ (i - 1 \in 1 .. Len(w) /\ w[i - 1] = a[i])
    <3> SUFFICES ASSUME NEW i \in 1 .. N, i # 1 PROVE i - 1 \in 1 .. Len(w) /\ w[i - 1] = a[i] OBVIOUS
    <3>1. i - 1 \in 1 .. Len(w) /\ (i - 1) + 1 = i BY <1>3, <1>11
    <3>2. w[i - 1] = e[(i - 1) + 1] BY <1>11, <3>1
    <3> QED BY <1>4, <3>1, <3>2
  <2>6. a[1].number < u.emitted - MaxEarly
    <3>1. 1 \in 1 .. N + 1 /\ 1 \in 1 .. N BY <1>2, <1>3, <1>11
    <3>2. e[1] = a[1] /\ e[1].number + (N + 1 - 1) < E + 1 /\ e[1].number \in Nat BY <1>4, <1>5, <3>1
    <3> QED BY <1>2, <1>11, <3>2 DEF E
  <2>7. \A i \in 1 .. N : (\E h \in 1 .. Len(w) : w[h] = a[i]) \/ a[i].number < u.emitted - MaxEarly
    BY <2>5, <2>6
  <2>8. \A h \in 1 .. Len(w) : w[h].number = E \/ \E i \in 1 .. N : w[h] = a[i]
    <3> SUFFICES ASSUME NEW h \in 1 .. Len(w) PROVE w[h].number = E \/ \E i \in 1 .. N : w[h] = a[i] OBVIOUS
    <3>1. CASE h = N BY <2>4, <3>1
    <3>2. CASE h # N
      <4>1. h + 1 \in 1 .. N BY <1>3, <1>11, <3>2
      <4>2. w[h] = a[h + 1] BY <1>4, <1>11, <4>1
      <4> QED BY <4>1, <4>2
    <3> QED BY <3>1, <3>2
  <2>9. \E i \in 1 .. Len(w) : w[i].number = E BY <2>4
  <2> QED BY <2>3, <2>7, <2>8, <2>9 DEF WaitedWell, a, N, E, w
<1> QED BY <1>9, <1>10, <1>11

\* Sort: one stream's frame is not asked for, waits, or is queued.
LEMMA SortFlows ==
    ASSUME NEW b, Framed(b), NEW x, Apt(x), NEW k \in DOMAIN x.streams, NEW e, k \in Connection(e), NEW g,
           g = NoKey \/ g = k, NEW f, f.op = "other" => g = NoKey, Flows(b, x, e, g), NEW y, y = Sort(x, k, f)
    PROVE  Flows(b, y, e, NoKey)
<1>1. PICK s, u, frame : s = x.streams[k] /\ u = y.streams[k] /\ frame = Numbered(s, k) OBVIOUS
<1>2. /\ Sound(y) /\ Steady(x, y) /\ SameLock(x, y)
      /\ DOMAIN y.streams = DOMAIN x.streams
      /\ \A j \in DOMAIN x.streams : j # k => y.streams[j] = x.streams[j]
      /\ u.born = s.born /\ u.dir = s.dir
      /\ \/ y = x /\ f.op = "other"
         \/ /\ u.emitted = s.emitted + 1
            /\ \/ s.dir = Client /\ ~x.config.emitClient /\ u.early = s.early /\ y.queue = x.queue
               \/ /\ s.dir = Hunting /\ ~x.config.emitUnlocked
                  /\ u.early = Wait(s.early, frame) /\ y.queue = x.queue
               \/ /\ \/ s.dir = Server
                     \/ s.dir = Client /\ x.config.emitClient
                     \/ s.dir = Hunting /\ x.config.emitUnlocked
                  /\ u.early = s.early /\ y.queue = Append(x.queue, frame)
  BY <1>1, SortEffect DEF Apt
<1>3. Framed(x) /\ BornApart(x) /\ WaitsWell(x) /\ QueuedWell(x, e) /\ b.born <= x.born /\ Reached(b, x, g)
      /\ x.config = b.config
  BY DEF Flows, Waits
<1>4. y.config = x.config /\ y.born = x.born BY <1>2 DEF Steady
<1>5. /\ x.queue \in Seq(Frame) /\ x.born \in Nat /\ k \in Keys /\ k # NoKey
      /\ s.emitted \in Nat /\ s.early \in Seq(Frame) /\ s.born \in Nat /\ s.born < x.born
      /\ s.dir \in {Server, Client, Hunting}
  BY <1>1, <1>3, DecoderAssumption DEF Framed
<1>6. WaitsOn(s, k, x.config) BY <1>1, <1>3 DEF WaitsWell
<1>7. frame \in Frame /\ frame.key = k /\ frame.born = s.born /\ frame.number = s.emitted /\ frame.dir = s.dir
  BY <1>1, <1>5 DEF Numbered, Frame
<1>8. \A i \in 1 .. Len(x.queue) : x.queue[i] \in Frame /\ QueuedFrame(x, x.queue[i], e)
  BY <1>3, <1>5 DEF QueuedWell
<1>9. CASE y = x /\ f.op = "other" BY <1>9
<1>10. ASSUME u.emitted = s.emitted + 1,
              WaitsOn(u, k, x.config),
              \A i \in 1 .. Len(y.queue) : QueuedFrame(y, y.queue[i], e),
              InTurn(y.queue), Framed(y),
              \A n : Queued(n, s, x.queue) => Queued(n, u, y.queue),
              \A j \in DOMAIN x.streams :
                  \A n : Queued(n, x.streams[j], x.queue) => Queued(n, x.streams[j], y.queue),
              \A n \in Int : Waiting(n, s) => Waiting(n, u) \/ n < u.emitted - Slack(u, k, NoKey),
              \/ u.dir = Client /\ ~x.config.emitClient
              \/ Queued(s.emitted, u, y.queue) \/ Waiting(s.emitted, u)
       PROVE  Flows(b, y, e, NoKey)
  <2>1. BornApart(y)
    <3>1. \A j \in DOMAIN x.streams : y.streams[j].born = x.streams[j].born BY <1>1, <1>2
    <3> QED BY <1>2, <1>3, <3>1 DEF BornApart
  <2>2. WaitsWell(y)
    <3> SUFFICES ASSUME NEW j \in DOMAIN y.streams PROVE WaitsOn(y.streams[j], j, y.config) BY DEF WaitsWell
    <3>1. CASE j = k BY <1>1, <1>4, <1>10, <3>1
    <3>2. CASE j # k BY <1>2, <1>3, <1>4, <3>2 DEF WaitsWell
    <3> QED BY <3>1, <3>2
  <2>3. Waits(b, y, e) BY <1>3, <1>4, <1>10, <2>1, <2>2 DEF Waits, QueuedWell
  <2>4. Reached(b, y, NoKey)
    <3> SUFFICES ASSUME NEW j \in DOMAIN y.streams, NEW n \in Due(b, y.streams[j], j)
                 PROVE  Settled(n, y.streams[j], y.queue, y.config, j, NoKey)
      BY DEF Reached
    <3>1. CASE j # k
      <4>1. y.streams[j] = x.streams[j] /\ j \in DOMAIN x.streams /\ j # NoKey
        BY <1>2, <1>3, <3>1, DecoderAssumption DEF Framed
      <4>2. Settled(n, x.streams[j], x.queue, x.config, j, g) BY <1>3, <4>1 DEF Reached
      <4>3. Slack(x.streams[j], j, g) = Slack(x.streams[j], j, NoKey) BY <3>1, <4>1 DEF Slack
      <4> QED BY <1>4, <1>10, <4>1, <4>2, <4>3 DEF Settled
    <3>2. CASE j = k
      <4>1. n \in Int /\ (n \in Due(b, s, k) \/ n = s.emitted)
        <5>1. Framed(b) /\ u.born = s.born /\ s.emitted \in Nat BY <1>2, <1>5
        <5>2. n \in Due(b, u, k) BY <1>1, <3>2
        <5> QED BY <1>10, <5>1, <5>2, DueOn
      <4>2. CASE n = s.emitted BY <1>1, <1>4, <1>10, <3>2, <4>2 DEF Settled
      <4>3. CASE n \in Due(b, s, k)
        <5>1. Settled(n, s, x.queue, x.config, k, g) BY <1>1, <1>3, <4>3 DEF Reached
        <5>2. n < s.emitted - Slack(s, k, g) => n < u.emitted - Slack(u, k, NoKey)
          <6>1. s.emitted \in Int /\ u.emitted = s.emitted + 1 /\ MaxEarly \in Int
            BY <1>5, <1>10, DecoderAssumption
          <6>2. Slack(s, k, g) = MaxEarly \/ Slack(s, k, g) = Slack(u, k, NoKey)
            <7>1. u.dir = s.dir /\ k # NoKey BY <1>2, <1>5
            <7>2. CASE k = g BY <7>2, SlackIs
            <7>3. CASE k # g BY <7>1, <7>3 DEF Slack
            <7> QED BY <7>2, <7>3
          <6>3. Slack(u, k, NoKey) \in {MaxEarly, MaxEarly + 1} BY SlackIs
          <6> QED BY <4>1, <6>1, <6>2, <6>3
        <5> QED BY <1>1, <1>2, <1>4, <1>10, <3>2, <4>1, <5>1, <5>2 DEF Settled
      <4> QED BY <4>1, <4>2, <4>3
    <3> QED BY <3>1, <3>2
  <2> QED BY <2>3, <2>4 DEF Flows
<1>11. Framed(y)
  <2>1. Young(x) /\ IsDecoder(y) BY <1>2 DEF Apt, Sound
  <2>2. /\ y.queue \in Seq(Frame) /\ DOMAIN y.streams \subseteq Keys
        /\ \A j \in DOMAIN y.streams : y.streams[j] \in AStream
    BY <2>1 DEF IsDecoder, Fields
  <2>3. \A j \in DOMAIN y.streams : y.streams[j].born < y.born
    <3>1. \A j \in DOMAIN x.streams : y.streams[j].born = x.streams[j].born BY <1>1, <1>2
    <3> QED BY <1>2, <1>4, <2>1, <3>1 DEF Young
  <2> QED BY <1>4, <1>5, <2>2, <2>3 DEF Framed, AStream
\* A frame already queued stays ahead of the stream.
<1>12. ASSUME NEW h \in Frame, QueuedFrame(x, h, e), u.emitted = s.emitted + 1,
              \A i \in 1 .. Len(u.early) : \/ u.early[i].number = s.emitted
                                          \/ \E l \in 1 .. Len(s.early) : u.early[i] = s.early[l]
       PROVE  QueuedFrame(y, h, e)
  <2>1. h.number \in Nat BY DEF Frame
  <2>2. Ahead(h, s) BY <1>1, <1>12 DEF QueuedFrame
  <2>3. Ahead(h, u)
    <3> SUFFICES ASSUME h.born = u.born
                 PROVE  h.number < u.emitted /\ \A i \in 1 .. Len(u.early) : h.number < u.early[i].number
      BY DEF Ahead
    <3>1. h.number < s.emitted /\ \A l \in 1 .. Len(s.early) : h.number < s.early[l].number
      BY <1>2, <2>2 DEF Ahead
    <3>2. h.number < u.emitted BY <1>5, <1>12, <2>1, <3>1
    <3>3. ASSUME NEW i \in 1 .. Len(u.early) PROVE h.number < u.early[i].number BY <1>12, <3>1
    <3> QED BY <3>2, <3>3
  <2>4. ASSUME NEW j \in DOMAIN y.streams PROVE Ahead(h, y.streams[j])
    <3>1. CASE j = k BY <1>1, <2>3, <3>1
    <3>2. CASE j # k
      <4>1. j \in DOMAIN x.streams /\ y.streams[j] = x.streams[j] BY <1>2, <3>2
      <4> QED BY <1>12, <4>1 DEF QueuedFrame
    <3> QED BY <3>1, <3>2
  <2> QED BY <1>4, <1>12, <2>4 DEF QueuedFrame
<1>13. CASE /\ u.emitted = s.emitted + 1
            /\ s.dir = Client /\ ~x.config.emitClient /\ u.early = s.early /\ y.queue = x.queue
  <2>1. s.early = <<>> /\ Len(s.early) = 0 /\ Len(u.early) = 0 BY <1>5, <1>6, <1>13 DEF WaitsOn, Client, Hunting
  <2>2. WaitsOn(u, k, x.config) BY <1>2, <1>13, <2>1, SlackIs DEF WaitsOn
  <2>3. \A i \in 1 .. Len(y.queue) : QueuedFrame(y, y.queue[i], e) BY <1>8, <1>12, <1>13, <2>1
  <2>4. InTurn(y.queue) BY <1>3, <1>13 DEF QueuedWell
  <2>5. /\ \A n : Queued(n, s, x.queue) => Queued(n, u, y.queue)
        /\ \A n \in Int : Waiting(n, s) => Waiting(n, u)
    BY <1>2, <1>13 DEF Queued, Waiting
  <2> QED BY <1>2, <1>10, <1>11, <1>13, <2>2, <2>3, <2>4, <2>5
<1>14. CASE /\ u.emitted = s.emitted + 1
            /\ s.dir = Hunting /\ ~x.config.emitUnlocked /\ u.early = Wait(s.early, frame) /\ y.queue = x.queue
  <2>1. WaitedWell(s, u, k, x.config) BY <1>1, <1>2, <1>5, <1>6, <1>7, <1>14, WaitFlows
  <2>2. \A i \in 1 .. Len(u.early) : \/ u.early[i].number = s.emitted
                                    \/ \E l \in 1 .. Len(s.early) : u.early[i] = s.early[l]
    BY <2>1 DEF WaitedWell
  <2>3. \A i \in 1 .. Len(y.queue) : QueuedFrame(y, y.queue[i], e) BY <1>8, <1>12, <1>14, <2>2
  <2>4. InTurn(y.queue) BY <1>3, <1>14 DEF QueuedWell
  <2>5. Slack(u, k, NoKey) = MaxEarly BY <1>2, <1>14, SlackIs DEF Hunting, Server
  <2>6. ASSUME NEW n \in Int, Waiting(n, s) PROVE Waiting(n, u) \/ n < u.emitted - Slack(u, k, NoKey)
    <3>1. PICK i \in 1 .. Len(s.early) : s.early[i].number = n BY <2>6 DEF Waiting
    <3>2. (\E h \in 1 .. Len(u.early) : u.early[h] = s.early[i]) \/ s.early[i].number < u.emitted - MaxEarly
      BY <2>1 DEF WaitedWell
    <3> QED BY <2>5, <3>1, <3>2 DEF Waiting
  <2>7. Waiting(s.emitted, u) /\ WaitsOn(u, k, x.config) BY <2>1 DEF WaitedWell, Waiting
  <2>8. \A n : Queued(n, s, x.queue) => Queued(n, u, y.queue) BY <1>2, <1>14 DEF Queued
  <2> QED BY <1>2, <1>10, <1>11, <1>14, <2>3, <2>4, <2>6, <2>7, <2>8
<1>15. CASE /\ u.emitted = s.emitted + 1
            /\ \/ s.dir = Server
               \/ s.dir = Client /\ x.config.emitClient
               \/ s.dir = Hunting /\ x.config.emitUnlocked
            /\ u.early = s.early /\ y.queue = Append(x.queue, frame)
  <2>1. s.early = <<>> /\ Len(s.early) = 0 /\ Len(u.early) = 0
    BY <1>5, <1>6, <1>15 DEF WaitsOn, Client, Hunting, Server
  <2>2. WaitsOn(u, k, x.config) BY <1>2, <1>15, <2>1, SlackIs DEF WaitsOn
  <2>3. /\ Len(y.queue) = Len(x.queue) + 1 /\ y.queue[Len(x.queue) + 1] = frame
        /\ \A i \in 1 .. Len(x.queue) : y.queue[i] = x.queue[i]
    BY <1>5, <1>7, <1>15
  <2>4. Len(x.queue) \in Nat BY <1>5
  <2>5. QueuedFrame(y, frame, e)
    <3>1. Allowed(frame, x.config) BY <1>7, <1>15 DEF Allowed
    <3>2. ASSUME NEW j \in DOMAIN y.streams PROVE Ahead(frame, y.streams[j])
      <4>1. CASE j = k BY <1>1, <1>5, <1>7, <1>15, <2>1, <4>1 DEF Ahead
      <4>2. CASE j # k
        <5>1. j \in DOMAIN x.streams /\ y.streams[j] = x.streams[j] BY <1>2, <4>2
        <5>2. x.streams[j].born # x.streams[k].born BY <1>3, <4>2, <5>1 DEF BornApart
        <5> QED BY <1>1, <1>7, <5>1, <5>2 DEF Ahead
      <4> QED BY <4>1, <4>2
    <3> QED BY <1>4, <1>5, <1>7, <3>1, <3>2 DEF QueuedFrame
  <2>6. \A i \in 1 .. Len(y.queue) : QueuedFrame(y, y.queue[i], e)
    <3> SUFFICES ASSUME NEW i \in 1 .. Len(y.queue) PROVE QueuedFrame(y, y.queue[i], e) OBVIOUS
    <3>1. CASE i = Len(x.queue) + 1 BY <2>3, <2>5, <3>1
    <3>2. CASE i # Len(x.queue) + 1
      <4>1. i \in 1 .. Len(x.queue) BY <2>3, <2>4, <3>2
      <4> QED BY <1>8, <1>12, <1>15, <2>1, <2>3, <4>1
    <3> QED BY <3>1, <3>2
  <2>7. InTurn(y.queue)
    <3> SUFFICES ASSUME NEW i \in 1 .. Len(y.queue), NEW j \in 1 .. Len(y.queue), i < j,
                        y.queue[i].born = y.queue[j].born
                 PROVE  y.queue[i].number < y.queue[j].number
      BY DEF InTurn
    <3>1. i \in 1 .. Len(x.queue) /\ y.queue[i] = x.queue[i] BY <2>3, <2>4
    <3>2. CASE j = Len(x.queue) + 1
      <4>1. Ahead(x.queue[i], s) BY <1>1, <1>8, <3>1 DEF QueuedFrame
      <4> QED BY <1>7, <2>3, <3>1, <3>2, <4>1 DEF Ahead
    <3>3. CASE j # Len(x.queue) + 1
      <4>1. j \in 1 .. Len(x.queue) /\ y.queue[j] = x.queue[j] BY <2>3, <2>4, <3>3
      <4> QED BY <1>3, <3>1, <4>1 DEF QueuedWell, InTurn
    <3> QED BY <3>2, <3>3
  <2>8. \A n : \A w : Queued(n, w, x.queue) => Queued(n, w, y.queue)
    <3>1. \A i \in 1 .. Len(x.queue) : i \in 1 .. Len(y.queue) /\ y.queue[i] = x.queue[i] BY <2>3, <2>4
    <3> QED BY <3>1 DEF Queued
  <2>9. \A n : Queued(n, s, x.queue) => Queued(n, u, y.queue)
    <3>1. \A n : Queued(n, s, y.queue) => Queued(n, u, y.queue) BY <1>2 DEF Queued
    <3> QED BY <2>8, <3>1
  <2>10. \A n \in Int : Waiting(n, s) => Waiting(n, u) BY <1>15 DEF Waiting
  <2>11. Queued(s.emitted, u, y.queue)
    <3>1. Len(x.queue) + 1 \in 1 .. Len(y.queue) BY <2>3, <2>4
    <3> QED BY <1>2, <1>7, <2>3, <3>1 DEF Queued
  <2> QED BY <1>10, <1>11, <1>15, <2>2, <2>6, <2>7, <2>8, <2>9, <2>10, <2>11
<1> QED BY <1>2, <1>9, <1>13, <1>14, <1>15

-----------------------------------------------------------------------------
\* The lock: the frames that waited for it leave.

LEMMA ConnectionIs ==
    ASSUME NEW e, NEW k \in Keys, k \in Connection(e), e \in Keys
    PROVE  Reverse(k) \in Connection(e) /\ Connection(k) = Connection(e) /\ Reverse(k) \in Keys
<1>1. Reverse(Reverse(e)) = e /\ Reverse(k) \in Keys /\ Reverse(Reverse(k)) = k BY DecoderAssumption
<1>2. k = e \/ k = Reverse(e) BY DEF Connection
<1> QED BY <1>1, <1>2 DEF Connection

\* What waited, with the direction told.
LEMMA ToldIs ==
    ASSUME NEW s, s.early \in Seq(Frame), NEW D \in {Server, Client, Hunting}
    PROVE  /\ Told(s, D) \in Seq(Frame) /\ Len(Told(s, D)) = Len(s.early)
           /\ \A i \in 1 .. Len(s.early) :
                 /\ Told(s, D)[i].key = s.early[i].key /\ Told(s, D)[i].born = s.early[i].born
                 /\ Told(s, D)[i].number = s.early[i].number /\ Told(s, D)[i].dir = D
<1> DEFINE N == Len(s.early)
           T == [i \in 1 .. N |-> [s.early[i] EXCEPT !.dir = D]]
<1>1. N \in Nat /\ DOMAIN s.early = 1 .. N OBVIOUS
<1>2. Told(s, D) = T BY <1>1 DEF Told
<1>3. ASSUME NEW i \in 1 .. N
      PROVE  /\ T[i] \in Frame /\ T[i].key = s.early[i].key /\ T[i].born = s.early[i].born
             /\ T[i].number = s.early[i].number /\ T[i].dir = D
  <2>1. s.early[i] \in Frame OBVIOUS
  <2>2. PICK f : f = s.early[i] OBVIOUS
  <2>3. T[i] = [f EXCEPT !.dir = D] BY <2>2
  <2> HIDE DEF T, N
  <2> QED BY <2>1, <2>2, <2>3 DEF Frame
<1>4. T \in Seq(Frame) /\ Len(T) = N
  <2>1. \A i \in 1 .. N : T[i] \in Frame BY <1>3
  <2>2. T \in [1 .. N -> Frame] BY <2>1
  <2>3. T \in Seq(Frame) BY <1>1, <2>2
  <2> QED BY <1>1, <2>3
<1> QED BY <1>2, <1>3, <1>4

\* The stream of j is told its direction D, and what waited on it leaves.
Tells(x, y, j, D) ==
    /\ y.config = x.config /\ y.born = x.born /\ DOMAIN y.streams = DOMAIN x.streams
    /\ \A i \in DOMAIN x.streams :
          /\ y.streams[i].born = x.streams[i].born /\ y.streams[i].emitted = x.streams[i].emitted
          /\ i # j => y.streams[i].dir = x.streams[i].dir /\ y.streams[i].early = x.streams[i].early
    /\ y.streams[j].dir = D /\ y.streams[j].early = <<>>
    /\ y.queue = IF D = Server \/ x.config.emitClient THEN x.queue \o Told(x.streams[j], D) ELSE x.queue

Carries(x, y, j, D) ==
    /\ \A n, s : Queued(n, s, x.queue) => Queued(n, s, y.queue)
    /\ \A n : Waiting(n, x.streams[j]) /\ (D = Server \/ x.config.emitClient) =>
                 Queued(n, y.streams[j], y.queue)

LEMMA TellWaits ==
    ASSUME NEW b, NEW x, NEW e, Waits(b, x, e), NEW j \in DOMAIN x.streams, j \in Connection(e),
           NEW D \in {Server, Client}, NEW y, Framed(y), Tells(x, y, j, D)
    PROVE  Waits(b, y, e) /\ Carries(x, y, j, D)
<1>1. PICK s, u : s = x.streams[j] /\ u = y.streams[j] OBVIOUS
<1>2. /\ y.config = x.config /\ y.born = x.born /\ DOMAIN y.streams = DOMAIN x.streams
      /\ \A i \in DOMAIN x.streams :
            /\ y.streams[i].born = x.streams[i].born /\ y.streams[i].emitted = x.streams[i].emitted
            /\ i # j => y.streams[i].dir = x.streams[i].dir /\ y.streams[i].early = x.streams[i].early
      /\ u.dir = D /\ u.early = <<>> /\ Len(u.early) = 0 /\ u.born = s.born /\ u.emitted = s.emitted
  BY <1>1 DEF Tells
<1>3. y.queue = IF D = Server \/ x.config.emitClient THEN x.queue \o Told(s, D) ELSE x.queue
  BY <1>1 DEF Tells
<1>4. /\ Framed(x) /\ BornApart(x) /\ WaitsWell(x) /\ QueuedWell(x, e) /\ b.born <= x.born
      /\ x.config = b.config
  BY DEF Waits
<1>5. /\ x.queue \in Seq(Frame) /\ s.early \in Seq(Frame) /\ s.emitted \in Nat /\ s.born \in Nat
      /\ s.born < x.born /\ x.born \in Nat /\ MaxEarly \in Nat
  BY <1>1, <1>4, DecoderAssumption DEF Framed
<1>6. WaitsOn(s, j, x.config) BY <1>1, <1>4 DEF WaitsWell
<1>7. BornApart(y) BY <1>2, <1>4 DEF BornApart
<1>8. WaitsWell(y)
  <2> SUFFICES ASSUME NEW i \in DOMAIN x.streams PROVE WaitsOn(y.streams[i], i, x.config)
    BY <1>2 DEF WaitsWell
  <2>1. CASE i = j BY <1>1, <1>2, <1>5, <2>1 DEF WaitsOn
  <2>2. CASE i # j
    <3>1. WaitsOn(x.streams[i], i, x.config) BY <1>4 DEF WaitsWell
    <3> QED BY <1>2, <2>2, <3>1 DEF WaitsOn
  <2> QED BY <2>1, <2>2
\* A frame already queued stays ahead of every stream.
<1>9. ASSUME NEW f \in Frame, QueuedFrame(x, f, e) PROVE QueuedFrame(y, f, e)
  <2>1. ASSUME NEW i \in DOMAIN x.streams PROVE Ahead(f, y.streams[i])
    <3>1. Ahead(f, x.streams[i]) BY <1>9 DEF QueuedFrame
    <3>2. CASE i = j BY <1>1, <1>2, <3>1, <3>2 DEF Ahead
    <3>3. CASE i # j BY <1>2, <3>1, <3>3 DEF Ahead
    <3> QED BY <3>2, <3>3
  <2> QED BY <1>2, <1>9, <2>1 DEF QueuedFrame
<1>10. \A i \in 1 .. Len(x.queue) : x.queue[i] \in Frame /\ QueuedFrame(y, x.queue[i], e)
  BY <1>4, <1>5, <1>9 DEF QueuedWell
<1>11. CASE ~(D = Server \/ x.config.emitClient)
  <2>1. y.queue = x.queue BY <1>3, <1>11
  <2>2. QueuedWell(y, e) BY <1>4, <1>10, <2>1 DEF QueuedWell
  <2> QED BY <1>2, <1>4, <1>7, <1>8, <1>11, <2>1, <2>2 DEF Waits, Carries
<1>12. CASE D = Server \/ x.config.emitClient
  <2>1. PICK T, N, M : T = Told(s, D) /\ N = Len(x.queue) /\ M = Len(s.early) OBVIOUS
  <2>2. /\ T \in Seq(Frame) /\ Len(T) = M /\ N \in Nat /\ M \in Nat
        /\ \A i \in 1 .. M : /\ T[i].key = s.early[i].key /\ T[i].born = s.early[i].born
                             /\ T[i].number = s.early[i].number /\ T[i].dir = D
    BY <1>5, <2>1, ToldIs
  <2>3. y.queue = x.queue \o T BY <1>3, <1>12, <2>1
  <2>4. /\ Len(y.queue) = N + M
        /\ \A i \in 1 .. N : y.queue[i] = x.queue[i]
        /\ \A i \in 1 .. M : y.queue[N + i] = T[i]
    <3>1. PICK X : X = x.queue OBVIOUS
    <3>2. /\ Len(X \o T) = N + M
          /\ \A i \in 1 .. N + M : (X \o T)[i] = IF i <= N THEN X[i] ELSE T[i - N]
      <4>1. X \in Seq(Frame) /\ T \in Seq(Frame) /\ Len(X) = N /\ Len(T) = M BY <1>5, <2>1, <2>2, <3>1
      <4>2. /\ Len(X \o T) = Len(X) + Len(T)
            /\ \A i \in 1 .. Len(X) + Len(T) : (X \o T)[i] = IF i <= Len(X) THEN X[i] ELSE T[i - Len(X)]
        BY <4>1, ConcatProperties
      <4> QED BY <4>1, <4>2
    <3>3. \A i \in 1 .. M : N + i \in 1 .. N + M /\ ~(N + i <= N) /\ (N + i) - N = i BY <2>2
    <3>4. \A i \in 1 .. N : i \in 1 .. N + M /\ i <= N BY <2>2
    <3> QED BY <2>3, <3>1, <3>2, <3>3, <3>4
  <2>5. \A i \in 1 .. N + M : i \in 1 .. N \/ (i - N \in 1 .. M /\ i = N + (i - N)) BY <2>2
  <2>6. \A i \in 1 .. M : /\ T[i].key = j /\ T[i].born = s.born /\ T[i].number \in Nat
                          /\ T[i].number < s.emitted /\ T[i].dir = D
    <3> SUFFICES ASSUME NEW i \in 1 .. M
                 PROVE  /\ T[i].key = j /\ T[i].born = s.born /\ T[i].number \in Nat
                        /\ T[i].number < s.emitted /\ T[i].dir = D
      OBVIOUS
    <3>1. s.early[i].key = j /\ s.early[i].born = s.born /\ s.early[i].number + (M - i) < s.emitted
      BY <1>6, <2>1 DEF WaitsOn
    <3>2. s.early[i] \in Frame BY <1>5, <2>1
    <3>3. s.early[i].number \in Nat BY <3>2 DEF Frame
    <3> QED BY <1>5, <2>2, <3>1, <3>3
  <2>7. ASSUME NEW f, f.key = j, f.born = s.born, f.number \in Nat, f.number < s.emitted, f.dir = D
        PROVE  QueuedFrame(y, f, e)
    <3>1. ASSUME NEW i \in DOMAIN x.streams PROVE Ahead(f, y.streams[i])
      <4>1. CASE i = j BY <1>1, <1>2, <2>7, <4>1 DEF Ahead
      <4>2. CASE i # j
        <5>1. x.streams[i].born # s.born BY <1>1, <1>4, <4>2 DEF BornApart
        <5> QED BY <1>2, <2>7, <5>1 DEF Ahead
      <4> QED BY <4>1, <4>2
    <3>2. Allowed(f, y.config) BY <1>2, <1>12, <2>7 DEF Allowed
    <3> QED BY <1>2, <1>5, <2>7, <3>1, <3>2 DEF QueuedFrame
  <2>8. \A i \in 1 .. Len(y.queue) : QueuedFrame(y, y.queue[i], e)
    <3> SUFFICES ASSUME NEW i \in 1 .. N + M PROVE QueuedFrame(y, y.queue[i], e) BY <2>4
    <3>1. CASE i \in 1 .. N BY <1>10, <2>1, <2>4, <3>1
    <3>2. CASE i - N \in 1 .. M /\ i = N + (i - N)
      <4>1. y.queue[i] = T[i - N] BY <2>4, <3>2
      <4> QED BY <2>6, <2>7, <3>2, <4>1
    <3> QED BY <2>5, <3>1, <3>2
  <2>9. InTurn(y.queue)
    <3> SUFFICES ASSUME NEW h \in 1 .. N + M, NEW i \in 1 .. N + M, h < i, y.queue[h].born = y.queue[i].born
                 PROVE  y.queue[h].number < y.queue[i].number
      BY <2>4 DEF InTurn
    <3>1. CASE i \in 1 .. N
      <4>1. h \in 1 .. N BY <2>2, <3>1
      <4> QED BY <1>4, <2>1, <2>4, <3>1, <4>1 DEF QueuedWell, InTurn
    <3>2. CASE h \in 1 .. N /\ i - N \in 1 .. M /\ i = N + (i - N)
      <4>1. y.queue[i] = T[i - N] /\ y.queue[h] = x.queue[h] BY <2>4, <3>2
      <4>2. Ahead(x.queue[h], s) BY <1>1, <1>4, <2>1, <3>2 DEF QueuedWell, QueuedFrame
      <4>3. x.queue[h].number < s.early[i - N].number BY <2>1, <2>6, <3>2, <4>1, <4>2 DEF Ahead
      <4> QED BY <2>2, <3>2, <4>1, <4>3
    <3>3. CASE /\ h - N \in 1 .. M /\ h = N + (h - N)
               /\ i - N \in 1 .. M /\ i = N + (i - N)
      <4>1. y.queue[i] = T[i - N] /\ y.queue[h] = T[h - N] BY <2>4, <3>3
      <4>2. h - N < i - N BY <2>2, <3>3
      <4>3. s.early[h - N].number < s.early[i - N].number BY <1>6, <2>1, <3>3, <4>2 DEF WaitsOn
      <4> QED BY <2>2, <3>3, <4>1, <4>3
    <3> QED BY <2>5, <3>1, <3>2, <3>3
  <2>10. ASSUME NEW n, NEW w, Queued(n, w, x.queue) PROVE Queued(n, w, y.queue)
    <3>1. PICK i \in 1 .. N : x.queue[i].born = w.born /\ x.queue[i].number = n BY <2>1, <2>10 DEF Queued
    <3>2. i \in 1 .. Len(y.queue) /\ y.queue[i] = x.queue[i] BY <2>2, <2>4
    <3> QED BY <3>1, <3>2 DEF Queued
  <2>11. ASSUME NEW n, Waiting(n, s) PROVE Queued(n, u, y.queue)
    <3>1. PICK i \in 1 .. M : s.early[i].number = n BY <2>1, <2>11 DEF Waiting
    <3>2. N + i \in 1 .. Len(y.queue) /\ y.queue[N + i] = T[i] BY <2>2, <2>4
    <3>3. T[i].number = n /\ T[i].born = u.born BY <1>2, <2>2, <2>6, <3>1
    <3> QED BY <3>2, <3>3 DEF Queued
  <2> QED BY <1>1, <1>2, <1>4, <1>7, <1>8, <2>8, <2>9, <2>10, <2>11 DEF Waits, QueuedWell, Carries
<1> QED BY <1>11, <1>12

\* The server's frames first: the stream that earned the lock was hunting, and what it had found waited
\* or gave way.
LEMMA TellFlows ==
    ASSUME NEW b, Framed(b), NEW x, NEW e, NEW g, Flows(b, x, e, g),
           NEW j \in DOMAIN x.streams, j \in Connection(e),
           NEW D, (D = Server /\ g = NoKey /\ x.streams[j].dir = Hunting) \/ (D = Client /\ j # g),
           NEW y, Framed(y), Tells(x, y, j, D), NEW h, h = IF D = Server THEN j ELSE g
    PROVE  Flows(b, y, e, h)
<1>1. PICK s, u : s = x.streams[j] /\ u = y.streams[j] OBVIOUS
<1>2. /\ y.config = x.config /\ DOMAIN y.streams = DOMAIN x.streams
      /\ \A i \in DOMAIN x.streams :
            /\ y.streams[i].born = x.streams[i].born /\ y.streams[i].emitted = x.streams[i].emitted
            /\ i # j => y.streams[i].dir = x.streams[i].dir /\ y.streams[i].early = x.streams[i].early
      /\ u.dir = D /\ u.born = s.born /\ u.emitted = s.emitted
  BY <1>1 DEF Tells
<1>3. Framed(x) /\ Waits(b, x, e) /\ Reached(b, x, g) BY DEF Flows, Waits
<1>4. D \in {Server, Client} /\ Server # Client /\ Server # Hunting /\ Client # Hunting
  BY DEF Server, Client, Hunting
<1>5. /\ Waits(b, y, e)
      /\ \A n, w : Queued(n, w, x.queue) => Queued(n, w, y.queue)
      /\ \A n : Waiting(n, s) /\ (D = Server \/ x.config.emitClient) => Queued(n, u, y.queue)
  <2>1. Waits(b, y, e) /\ Carries(x, y, j, D) BY <1>3, <1>4, TellWaits
  <2> QED BY <1>1, <2>1 DEF Carries
<1>6. \A i \in DOMAIN x.streams : x.streams[i].emitted \in Nat /\ i # NoKey BY <1>3, DecoderAssumption DEF Framed
<1>7. ASSUME NEW i \in DOMAIN y.streams, NEW n \in Due(b, y.streams[i], i)
      PROVE  Settled(n, y.streams[i], y.queue, y.config, i, h)
  <2>1. /\ y.streams[i].born = x.streams[i].born /\ y.streams[i].emitted = x.streams[i].emitted
        /\ x.streams[i].emitted \in Nat /\ x.streams[i].emitted # x.streams[i].emitted + 1
    BY <1>2, <1>6
  <2>2. n \in Int /\ n \in Due(b, x.streams[i], i) BY <2>1, DueOn
  <2>3. Settled(n, x.streams[i], x.queue, x.config, i, g) BY <1>2, <1>3, <2>2 DEF Reached
  <2>4. Queued(n, x.streams[i], x.queue) => Queued(n, y.streams[i], y.queue)
    <3>1. Queued(n, x.streams[i], x.queue) => Queued(n, x.streams[i], y.queue) BY <1>5
    <3>2. Queued(n, x.streams[i], y.queue) => Queued(n, y.streams[i], y.queue) BY <2>1 DEF Queued
    <3> QED BY <3>1, <3>2
  <2>5. CASE i # j
    <3>1. y.streams[i].dir = x.streams[i].dir /\ y.streams[i].early = x.streams[i].early BY <1>2, <2>5
    <3>2. Slack(y.streams[i], i, h) = Slack(x.streams[i], i, g) BY <1>2, <1>4, <1>6, <2>5, <3>1 DEF Slack
    <3> QED BY <1>2, <2>1, <2>3, <2>4, <3>1, <3>2 DEF Settled, Waiting
  <2>6. CASE i = j /\ D = Server
    <3>1. Slack(s, j, g) = MaxEarly /\ Slack(u, j, h) = MaxEarly BY <1>1, <1>4, <2>6, SlackIs
    <3>2. Settled(n, s, x.queue, x.config, j, g) BY <1>1, <2>3, <2>6
    <3>3. s.dir # Client BY <1>1, <1>4, <2>6
    <3>4. Queued(n, u, y.queue) \/ n < u.emitted - Slack(u, j, h)
      BY <1>1, <1>2, <1>5, <2>4, <2>6, <3>1, <3>2, <3>3 DEF Settled
    <3> QED BY <1>1, <2>6, <3>4 DEF Settled
  <2>7. CASE i = j /\ D = Client
    <3>1. Slack(u, j, h) = MaxEarly /\ Slack(s, j, g) \in {MaxEarly, MaxEarly + 1} /\ MaxEarly \in Nat
      BY <1>2, <1>4, <2>7, SlackIs
    <3>2. Settled(n, s, x.queue, x.config, j, g) BY <1>1, <2>3, <2>7
    <3>3. n < s.emitted - Slack(s, j, g) => n < u.emitted - Slack(u, j, h)
      BY <1>1, <1>2, <2>1, <2>2, <2>7, <3>1
    <3>4. Queued(n, u, y.queue) \/ n < u.emitted - Slack(u, j, h) \/ ~x.config.emitClient
      BY <1>1, <1>5, <2>4, <2>7, <3>2, <3>3 DEF Settled
    <3> QED BY <1>1, <1>2, <2>7, <3>4 DEF Settled
  <2> QED BY <1>4, <2>5, <2>6, <2>7
<1> QED BY <1>5, <1>7 DEF Flows, Reached

\* The lock's drop takes the streams of other connections, and no more.
LEMMA DropFlows ==
    ASSUME NEW b, Framed(b), NEW x, IsDecoder(x), PointersHold(x), NEW e, NEW g, Flows(b, x, e, g),
           NEW S, ~PointsInto(x, x.srv, S), NEW y, Framed(y), y = Drop(x, S)
    PROVE  Flows(b, y, e, g)
<1>1. PICK u : u = Loosed(x, S) OBVIOUS
<1>2. u = x BY <1>1 DEF Loosed
<1>3. Quiet(x, y) /\ DOMAIN y.streams = DOMAIN x.streams \ S BY <1>1, DropEffect
<1>4. \A k \in DOMAIN y.streams : Remains(x.streams[k], y.streams[k]) /\ y.streams[k].dir = u.streams[k].dir
  BY <1>1, DropEffect
<1>5. Passive(x, y, NoKey) /\ SameDirs(x, y)
  <2>1. x.born >= x.born
    <3>1. x.born \in Nat BY DEF Flows, Waits, Framed
    <3> QED BY <3>1
  <2> QED BY <1>2, <1>3, <1>4, <2>1 DEF Passive, SameDirs, Quiet, Remains, Went
<1> QED BY <1>5, PassiveFlows

LEMMA LockFlows ==
    ASSUME NEW b, Framed(b), NEW x, Apt(x), NEW e \in Keys, Flows(b, x, e, NoKey), NEW k \in DOMAIN x.streams,
           k \in Connection(e), x.streams[k].dir = Hunting, x.srv = Nil, NEW y, y = Lock(x, k)
    PROVE  Flows(b, y, e, k)
<1>1. PICK r, t, S : r = Reverse(k) /\ t = Both(x, k) /\ S = DOMAIN x.streams \ {k, Reverse(k)} OBVIOUS
<1>2. IsDecoder(x) /\ PointersHold(x) /\ Apt(y) BY LockKind DEF Apt, Sound, Paired
<1>3. Framed(x) /\ Framed(y) BY <1>2, AptFramed
<1>4. k \in Keys /\ r \in Connection(e) /\ r # k /\ r \in Keys
  <2>1. k \in Keys BY <1>3 DEF Framed
  <2> QED BY <1>1, <2>1, ConnectionIs, DecoderAssumption
<1>5. /\ IsDecoder(t) /\ PointersHold(t) /\ Steady(x, t) /\ t.srv = Pointer(x, k)
      /\ DOMAIN t.streams = DOMAIN x.streams
      /\ \A j \in DOMAIN x.streams :
            /\ Stays(x.streams[j], t.streams[j])
            /\ t.streams[j].dir = IF j = k THEN Server ELSE IF j = r THEN Client ELSE x.streams[j].dir
            /\ t.streams[j].early = IF j \in {k, r} THEN <<>> ELSE x.streams[j].early
      /\ t.queue = IF r \in DOMAIN x.streams /\ x.config.emitClient
                   THEN (x.queue \o Told(x.streams[k], Server)) \o Told(x.streams[r], Client)
                   ELSE x.queue \o Told(x.streams[k], Server)
  BY <1>1, <1>2, BothEffect
\* First the server is told.
<1> DEFINE told == [dir |-> Server, born |-> x.streams[k].born, emitted |-> x.streams[k].emitted, early |-> <<>>]
           streams == [j \in DOMAIN x.streams |-> IF j = k THEN told ELSE x.streams[j]]
<1>6. PICK z : z = [config |-> x.config, born |-> x.born, queue |-> x.queue \o Told(x.streams[k], Server),
                    streams |-> streams]
  OBVIOUS
<1>7. /\ z.config = x.config /\ z.born = x.born /\ z.queue = x.queue \o Told(x.streams[k], Server)
      /\ DOMAIN z.streams = DOMAIN x.streams
      /\ z.streams[k] = told
      /\ \A j \in DOMAIN x.streams \ {k} : z.streams[j] = x.streams[j]
  BY <1>6
<1> HIDE DEF streams
<1>8. told.dir = Server /\ told.born = x.streams[k].born /\ told.emitted = x.streams[k].emitted /\ told.early = <<>>
  OBVIOUS
<1> HIDE DEF told
<1>9. Framed(z)
  <2>1. x.queue \in Seq(Frame) /\ x.streams[k].early \in Seq(Frame) BY <1>3 DEF Framed
  <2>2. Told(x.streams[k], Server) \in Seq(Frame) BY <2>1, ToldIs
  <2>3. z.queue \in Seq(Frame) BY <1>7, <2>1, <2>2, ConcatProperties
  <2>4. <<>> \in Seq(Frame) OBVIOUS
  <2> QED BY <1>3, <1>7, <1>8, <2>3, <2>4 DEF Framed
<1>10. Tells(x, z, k, Server) BY <1>7, <1>8 DEF Tells
<1>11. Flows(b, z, e, k) BY <1>9, <1>10, TellFlows
<1>12. Framed(t)
  <2>1. t.queue \in Seq(Frame) /\ \A j \in DOMAIN t.streams : t.streams[j] \in AStream BY <1>5 DEF IsDecoder, Fields
  <2>2. \A j \in DOMAIN x.streams : t.streams[j].born = x.streams[j].born BY <1>5 DEF Stays
  <2> QED BY <1>3, <1>5, <2>1, <2>2 DEF Framed, AStream, Steady
<1>13. Flows(b, t, e, k)
  <2>1. CASE r \in DOMAIN x.streams
    <3>1. Tells(z, t, r, Client)
      <4>1. Server # Client BY DEF Server, Client
      <4>2. z.streams[r] = x.streams[r] BY <1>4, <1>7, <2>1
      <4>3. t.queue = IF Client = Server \/ z.config.emitClient THEN z.queue \o Told(z.streams[r], Client)
                      ELSE z.queue
        BY <1>5, <1>7, <2>1, <4>1, <4>2
      <4>4. t.config = z.config /\ t.born = z.born /\ DOMAIN t.streams = DOMAIN z.streams BY <1>5, <1>7 DEF Steady
      <4>5. t.streams[r].dir = Client /\ t.streams[r].early = <<>> BY <1>4, <1>5, <2>1
      <4>6. ASSUME NEW i \in DOMAIN x.streams
            PROVE  /\ t.streams[i].born = z.streams[i].born /\ t.streams[i].emitted = z.streams[i].emitted
                   /\ i # r => t.streams[i].dir = z.streams[i].dir /\ t.streams[i].early = z.streams[i].early
        <5>1. Stays(x.streams[i], t.streams[i]) BY <1>5
        <5>2. CASE i = k BY <1>4, <1>5, <1>7, <1>8, <5>1, <5>2 DEF Stays
        <5>3. CASE i # k BY <1>5, <1>7, <5>1, <5>3 DEF Stays
        <5> QED BY <5>2, <5>3
      <4> QED BY <1>7, <4>3, <4>4, <4>5, <4>6 DEF Tells
    <3>2. r \in DOMAIN z.streams BY <1>7, <2>1
    <3>3. Server # Client BY DEF Server, Client
    <3> QED BY <1>4, <1>11, <1>12, <3>1, <3>2, <3>3, TellFlows
  <2>2. CASE r \notin DOMAIN x.streams
    <3>1. t.queue = z.queue /\ t.config = z.config /\ t.born = z.born BY <1>5, <1>7, <2>2 DEF Steady
    <3>2. ASSUME NEW i \in DOMAIN x.streams
          PROVE  Went(z.streams[i], t.streams[i]) /\ t.streams[i].dir = z.streams[i].dir
      <4>1. Stays(x.streams[i], t.streams[i]) BY <1>5
      <4>2. CASE i = k BY <1>4, <1>5, <1>7, <1>8, <4>1, <4>2 DEF Stays, Went
      <4>3. CASE i # k BY <1>5, <1>7, <2>2, <4>1, <4>3 DEF Stays, Went
      <4> QED BY <4>2, <4>3
    <3>3. z.born >= z.born
      <4>1. z.born \in Nat BY <1>9 DEF Framed
      <4> QED BY <4>1
    <3>4. Passive(z, t, NoKey) /\ SameDirs(z, t) BY <1>5, <1>7, <3>1, <3>2, <3>3 DEF Passive, SameDirs
    <3> QED BY <1>11, <1>12, <3>4, PassiveFlows
  <2> QED BY <2>1, <2>2
<1>14. y = Drop(t, S) BY <1>1, LockIs
<1>15. ~PointsInto(t, t.srv, S) BY <1>1, <1>5 DEF PointsInto, Pointer
<1> QED BY <1>3, <1>5, <1>13, <1>14, <1>15, DropFlows

-----------------------------------------------------------------------------
\* The methods of a segment, with what a step says of the pair.

\* What a step says with a direction it says of the pair that its lock is on, or was on.
Voice(x) == \E i \in 1 .. Len(x.queue) : x.queue[i].dir # Hunting

Speech(b, x, e) == Voice(x) => /\ x.pair \in Connection(e)
                               /\ \/ Directed(x) # {}
                                  \/ Directed(b) # {} /\ b.pair \in Connection(e)

\* While no lock is taken, the pair is the one that the step began with.
Heirs(b, x) == /\ x.locks >= b.locks
               /\ x.locks = b.locks => x.pair = b.pair /\ (Directed(x) # {} => Directed(b) # {})

Utters(x, y, j) == /\ y.locks >= x.locks
                   /\ y.locks = x.locks => y.pair = x.pair /\ (Directed(y) # {} <=> Directed(x) # {})
                   /\ Voice(y) => j \in Directed(y) \/ (y.locks = x.locks /\ Voice(x))

LEMMA Locks == ASSUME NEW x, Apt(x) PROVE x.locks \in Nat
BY DEF Apt, Sound, IsDecoder, Fields

LEMMA SpeechStep ==
    ASSUME NEW b, Apt(b), NEW x, Apt(x), NEW y, Apt(y), NEW e \in Keys, NEW j \in Connection(e),
           Speech(b, x, e), Heirs(b, x), Utters(x, y, j)
    PROVE  Speech(b, y, e) /\ Heirs(b, y)
<1>1. b.locks \in Nat /\ x.locks \in Nat /\ y.locks \in Nat BY Locks
<1>2. /\ y.locks >= x.locks
      /\ y.locks = x.locks => y.pair = x.pair /\ (Directed(y) # {} <=> Directed(x) # {})
      /\ Voice(y) => j \in Directed(y) \/ (y.locks = x.locks /\ Voice(x))
  BY DEF Utters
<1>3. Heirs(b, y) BY <1>1, <1>2 DEF Heirs
<1>4. CASE j \in Directed(y)
  <2>1. IsDecoder(y) /\ (j = y.pair \/ Reverse(j) = y.pair) BY <1>4 DEF Apt, Sound, Paired
  <2>2. j \in Keys BY <1>4, <2>1 DEF Directed, IsDecoder
  <2>3. y.pair \in Connection(e) BY <2>1, <2>2, ConnectionIs
  <2> QED BY <1>3, <1>4, <2>3 DEF Speech
<1>5. CASE y.locks = x.locks /\ Voice(x) BY <1>2, <1>3, <1>5 DEF Speech
<1>6. CASE ~Voice(y) BY <1>3, <1>6 DEF Speech
<1> QED BY <1>2, <1>4, <1>5, <1>6

Running(b, x, e) == Apt(x) /\ Flows(b, x, e, NoKey) /\ Speech(b, x, e) /\ Heirs(b, x)

\* Whatever queues nothing and leaves the lock and the directions of what stays as they are.
Mute(x, y) == /\ SameDirs(x, y) /\ y.locks = x.locks /\ y.pair = x.pair
              /\ Directed(y) # {} <=> Directed(x) # {}

LEMMA MuteRuns ==
    ASSUME NEW b, Apt(b), NEW x, NEW e \in Keys, Running(b, x, e), NEW y, Apt(y), NEW k, Passive(x, y, k),
           Mute(x, y)
    PROVE  Running(b, y, e)
<1>1. Apt(x) /\ Flows(b, x, e, NoKey) /\ Speech(b, x, e) /\ Heirs(b, x) BY DEF Running
<1>2. Framed(b) /\ Framed(y) BY AptFramed
<1>3. Flows(b, y, e, NoKey) BY <1>1, <1>2, PassiveFlows DEF Mute
<1>4. Utters(x, y, e)
  <2>1. x.locks \in Nat BY <1>1, Locks
  <2>2. Voice(y) <=> Voice(x) BY DEF Voice, Passive
  <2> QED BY <2>1, <2>2 DEF Utters, Mute
<1>5. e \in Connection(e) BY DEF Connection
<1>6. Speech(b, y, e) /\ Heirs(b, y) BY <1>1, <1>4, <1>5, SpeechStep
<1> QED BY <1>3, <1>6 DEF Running

\* A stream for each, with all that flows by it.
Unsaid(x, y) == /\ y.config = x.config /\ y.queue = x.queue /\ y.born = x.born
                /\ y.locks = x.locks /\ y.pair = x.pair
                /\ DOMAIN y.streams = DOMAIN x.streams
                /\ \A j \in DOMAIN x.streams : /\ Went(x.streams[j], y.streams[j])
                                               /\ y.streams[j].dir = x.streams[j].dir

LEMMA MuteIs ==
    ASSUME NEW x, Apt(x), NEW y, Unsaid(x, y)
    PROVE  Passive(x, y, NoKey) /\ Mute(x, y)
<1>1. x.born \in Nat BY Borns
<1>2. Passive(x, y, NoKey) /\ SameDirs(x, y) BY <1>1 DEF Unsaid, Passive, SameDirs
<1>3. Directed(y) = Directed(x) BY DEF Directed, Unsaid
<1> QED BY <1>2, <1>3 DEF Mute, Unsaid

LEMMA SortUtters ==
    ASSUME NEW x, Apt(x), NEW k \in DOMAIN x.streams, NEW f, NEW y, y = Sort(x, k, f)
    PROVE  Utters(x, y, k) /\ DOMAIN y.streams = DOMAIN x.streams
<1>1. PICK s, u, frame : s = x.streams[k] /\ u = y.streams[k] /\ frame = Numbered(s, k) OBVIOUS
<1>2. /\ SameLock(x, y) /\ DOMAIN y.streams = DOMAIN x.streams
      /\ \A j \in DOMAIN x.streams : j # k => y.streams[j] = x.streams[j]
      /\ u.dir = s.dir
      /\ y = x \/ y.queue = x.queue \/ y.queue = Append(x.queue, frame)
  BY <1>1, SortEffect DEF Apt
<1>3. Directed(y) = Directed(x) BY <1>1, <1>2 DEF Directed
<1>4. x.locks \in Nat BY Locks
<1>5. ASSUME Voice(y), ~Voice(x) PROVE k \in Directed(y)
  <2>1. y.queue # x.queue BY <1>5 DEF Voice
  <2>2. y.queue = Append(x.queue, frame) BY <1>2, <2>1
  <2>3. PICK i \in 1 .. Len(y.queue) : y.queue[i].dir # Hunting BY <1>5 DEF Voice
  <2>4. x.queue \in Seq(Frame) BY DEF Apt, Sound, IsDecoder, Fields
  <2>5. i \in 1 .. Len(x.queue) => y.queue[i] = x.queue[i] BY <2>2, <2>4
  <2>6. i = Len(x.queue) + 1 /\ y.queue[i] = frame BY <1>5, <2>2, <2>3, <2>4, <2>5 DEF Voice
  <2>7. frame.dir = s.dir BY <1>1 DEF Numbered
  <2> QED BY <1>1, <1>2, <2>3, <2>6, <2>7 DEF Directed
<1> QED BY <1>2, <1>3, <1>4, <1>5 DEF Utters, SameLock

LEMMA KeptItself ==
    ASSUME NEW x, Apt(x), NEW t
    PROVE  Kept(x, x, t) /\ LockStands(x, x)
<1>1. Calm(x, x) BY CalmItself
<1> QED BY <1>1 DEF Calm, Kept, LockStands, ServerKept, DirsKept, TotalsKept

LEMMA SortRuns ==
    ASSUME NEW b, Apt(b), NEW x, Apt(x), NEW k \in DOMAIN x.streams, NEW e \in Keys, k \in Connection(e),
           NEW g, g = NoKey \/ g = k, NEW f, f.op = "other" => g = NoKey, Flows(b, x, e, g),
           Speech(b, x, e), Heirs(b, x), NEW y, y = Sort(x, k, f), Apt(y)
    PROVE  Running(b, y, e)
<1>1. Framed(b) BY AptFramed
<1>2. Flows(b, y, e, NoKey) BY <1>1, SortFlows
<1>3. Utters(x, y, k) BY SortUtters
<1>4. Speech(b, y, e) /\ Heirs(b, y) BY <1>3, SpeechStep
<1> QED BY <1>2, <1>4 DEF Running

LEMMA EmitRuns ==
    ASSUME NEW b, Apt(b), NEW x, NEW k \in DOMAIN x.streams, NEW e \in Keys, k \in Connection(e), NEW f,
           Running(b, x, e), NEW y, y = Emit(x, k, f)
    PROVE  Running(b, y, e) /\ k \in DOMAIN y.streams
<1>1. Apt(x) /\ Sound(x) /\ Flows(b, x, e, NoKey) /\ Speech(b, x, e) /\ Heirs(b, x) BY DEF Running, Apt
<1>2. Apt(y) /\ k \in DOMAIN y.streams
  <2>1. Kept(x, x, 0) /\ LockStands(x, x) BY <1>1, KeptItself
  <2> QED BY <1>1, <2>1, EmitKeeps
<1> DEFINE h == IF x.srv = Nil THEN Hunt(x, k, f) ELSE x
           c == Counting(x, k, f)
<1>3. h = x \/ (x.srv = Nil /\ h = Hunt(x, k, f)) OBVIOUS
<1>4. y = Sort(h, k, f) BY DEF Emit
<1>5. CASE h = x
  <2> HIDE DEF h, c
  <2>1. f.op = "other" => NoKey = NoKey OBVIOUS
  <2> QED BY <1>1, <1>2, <1>4, <1>5, <2>1, SortRuns
<1>6. CASE x.srv = Nil /\ h = Hunt(x, k, f) /\ h # x
  <2>1. /\ Sound(c) /\ Steady(x, c) /\ SameLock(x, c) /\ c.queue = x.queue /\ DOMAIN c.streams = DOMAIN x.streams
        /\ \A j \in DOMAIN x.streams : j # k => c.streams[j] = x.streams[j]
        /\ Remains(x.streams[k], c.streams[k])
        /\ c.streams[k].dir = x.streams[k].dir /\ c.streams[k].resyncs = x.streams[k].resyncs
        /\ x.streams[k].dir = Hunting /\ (h = c \/ (h = Lock(c, k) /\ f.op # "other"))
    BY <1>1, <1>6, HuntEffect
  <2> HIDE DEF h, c
  <2>2. \A j \in DOMAIN x.streams : SameMarks(x.streams[j], c.streams[j]) BY <2>1 DEF SameMarks, Remains
  <2>3. Apt(c) BY <1>1, <2>1, <2>2, Unmoved DEF Steady
  <2>4. Unsaid(x, c) BY <2>1 DEF Unsaid, Steady, SameLock, Remains, Went
  <2>5. Running(b, c, e) BY <1>1, <2>3, <2>4, MuteIs, MuteRuns
  <2>6. Flows(b, c, e, NoKey) /\ Speech(b, c, e) /\ Heirs(b, c) /\ k \in DOMAIN c.streams
    BY <2>1, <2>5 DEF Running
  <2>7. CASE h = c
    <3>1. f.op = "other" => NoKey = NoKey OBVIOUS
    <3> QED BY <1>2, <1>4, <2>3, <2>6, <2>7, <3>1, SortRuns
  <2>8. CASE h = Lock(c, k) /\ f.op # "other"
    <3>1. c.srv = Nil /\ c.streams[k].dir = Hunting BY <1>6, <2>1 DEF SameLock
    <3>2. h = Lock(c, k) BY <2>8
    <3>3. Apt(h) /\ Locked(c, h) /\ h.srv.key = k /\ k \in DOMAIN h.streams BY <2>3, <2>6, <3>1, <3>2, LockKind
    <3>4. Flows(b, h, e, k)
      <4>1. Framed(b) BY AptFramed
      <4> QED BY <2>3, <2>6, <3>1, <3>2, <4>1, LockFlows
    <3>5. Utters(c, h, k)
      <4>1. h.srv # Nil /\ h.locks = c.locks + 1 /\ c.locks \in Nat BY <2>3, <3>3, Locks DEF Locked
      <4>2. h.streams[k].dir = Server BY <3>3, <4>1 DEF Apt, Sound, Paired, PairHolds
      <4>3. k \in Directed(h) BY <3>3, <4>2 DEF Directed, Server, Hunting
      <4> QED BY <4>1, <4>3 DEF Utters
    <3>6. Speech(b, h, e) /\ Heirs(b, h) BY <2>3, <2>6, <3>3, <3>5, SpeechStep
    <3>7. f.op = "other" => k = NoKey BY <2>8
    <3> QED BY <1>2, <1>4, <3>3, <3>4, <3>6, <3>7, SortRuns
  <2> QED BY <2>1, <2>7, <2>8
<1> QED BY <1>2, <1>3, <1>5, <1>6

LEMMA TakeRuns ==
    ASSUME NEW b, Apt(b), NEW x, NEW k \in DOMAIN x.streams, NEW e \in Keys, k \in Connection(e), NEW o,
           o.resyncs \in Nat, o.held \in Nat, Running(b, x, e), NEW y, y = Take(x, k, o)
    PROVE  Running(b, y, e) /\ k \in DOMAIN y.streams /\ LocksOnly(x, y, k)
<1> DEFINE z == Taking(x, k, o)
           m == Emit(z, k, o.frames[1])
<1>1. y = EmitAll(z, k, o.frames) BY TakeIs
<1>2. Apt(x) BY DEF Running
<1>3. /\ Apt(z) /\ SameLock(x, z) /\ z.config = x.config /\ z.queue = x.queue /\ z.born = x.born
      /\ DOMAIN z.streams = DOMAIN x.streams
      /\ \A j \in DOMAIN x.streams : /\ z.streams[j].born = x.streams[j].born
                                     /\ z.streams[j].dir = x.streams[j].dir
                                     /\ z.streams[j].early = x.streams[j].early
                                     /\ z.streams[j].emitted = x.streams[j].emitted
  BY <1>2, TakingKind
<1> HIDE DEF z
<1>4. Unsaid(x, z) BY <1>3 DEF Unsaid, SameLock, Went
<1>5. Running(b, z, e) /\ k \in DOMAIN z.streams BY <1>2, <1>3, <1>4, MuteIs, MuteRuns
<1>6. Running(b, m, e) /\ k \in DOMAIN m.streams BY <1>5, EmitRuns
<1>7. y = z \/ y = m \/ y = Emit(m, k, o.frames[2]) BY <1>1 DEF EmitAll
<1> HIDE DEF m
<1>8. Running(b, y, e) /\ k \in DOMAIN y.streams
  <2>1. CASE y = Emit(m, k, o.frames[2]) BY <1>6, <2>1, EmitRuns
  <2> QED BY <1>5, <1>6, <1>7, <2>1
<1>9. LocksOnly(x, y, k)
  <2>1. Kept(x, x, 0) /\ LockStands(x, x) BY <1>2, KeptItself
  <2>2. Earning(x, x, y, k, 0) BY <1>2, <2>1, TakeKeeps
  <2> QED BY <2>2 DEF Earning, LocksOnly
<1> QED BY <1>8, <1>9

LEMMA AckedRuns ==
    ASSUME NEW b, Apt(b), NEW x, NEW k, NEW e \in Keys, k \in Connection(e), NEW o,
           o.resyncs \in Nat, o.held \in Nat, Running(b, x, e), NEW y, y = Acked(x, k, o)
    PROVE  Running(b, y, e) /\ LocksOnly(x, y, k)
<1>1. CASE y = x BY <1>1 DEF SameLock, LocksOnly
<1>2. CASE k \in DOMAIN x.streams /\ y = Take(x, k, o)
  <2>1. k \in DOMAIN x.streams BY <1>2
  <2>2. y = Take(x, k, o) BY <1>2
  <2> QED BY <2>1, <2>2, TakeRuns
<1> QED BY <1>1, <1>2 DEF Acked

LEMMA DropPassive ==
    ASSUME NEW x, Apt(x), NEW S, NEW y, y = Drop(x, S)
    PROVE  Passive(x, y, NoKey) /\ DOMAIN y.streams = DOMAIN x.streams \ S
<1>1. PICK u : u = Loosed(x, S) OBVIOUS
<1>2. IsDecoder(x) /\ PointersHold(x) BY DEF Apt, Sound, Paired
<1>3. /\ Quiet(x, y) /\ DOMAIN y.streams = DOMAIN x.streams \ S
      /\ \A k \in DOMAIN y.streams : Remains(x.streams[k], y.streams[k]) /\ y.streams[k].dir = u.streams[k].dir
  BY <1>1, <1>2, DropEffect
<1>4. \A k \in DOMAIN x.streams : u.streams[k].dir \in {x.streams[k].dir, Hunting}
  <2>1. CASE u = x BY <2>1
  <2>2. CASE u = Unlock(x)
    <3>1. \A k \in DOMAIN x.streams : u.streams[k].dir = Hunting BY <1>2, <2>2, UnlockEffect
    <3> QED BY <3>1
  <2> QED BY <1>1, <2>1, <2>2 DEF Loosed
<1>5. x.born \in Nat BY Borns
<1>6. \A k \in DOMAIN y.streams : k \in DOMAIN x.streams /\ Went(x.streams[k], y.streams[k])
  BY <1>3, <1>4 DEF Remains, Went
<1> QED BY <1>3, <1>5, <1>6 DEF Quiet, Passive

LEMMA RoomRuns ==
    ASSUME NEW b, Apt(b), NEW x, NEW e \in Keys, Running(b, x, e), NEW y, y = MakeRoom(x)
    PROVE  Running(b, y, e)
<1>1. Apt(x) BY DEF Running
<1>2. Apt(y) /\ Calm(x, y) BY <1>1, MakeRoomKind
<1>3. CASE Cardinality(DOMAIN x.streams) >= MaxStreams
  <2>1. PICK h \in DOMAIN x.streams : x.streams[h].dir = Hunting BY <1>1, <1>3, SomeHunt DEF Apt
  <2>2. Stalest(x) \in DOMAIN x.streams /\ x.streams[Stalest(x)].dir = Hunting BY <1>1, <2>1, StalestHunts DEF Apt
  <2>3. PICK S : S = {Stalest(x)} OBVIOUS
  <2>4. y = Drop(x, S) BY <1>3, <2>3 DEF MakeRoom
  <2>5. Passive(x, y, NoKey) /\ DOMAIN y.streams = DOMAIN x.streams \ S BY <1>1, <2>4, DropPassive
  <2>6. \A j \in DOMAIN y.streams : y.streams[j].born = x.streams[j].born
    <3>1. NoKey \notin DOMAIN y.streams
      <4>1. Framed(y) BY <1>2, AptFramed
      <4> QED BY <4>1, DecoderAssumption DEF Framed
    <3> QED BY <2>5, <3>1 DEF Passive, Went
  <2>7. \A j \in DOMAIN y.streams : y.streams[j].dir = x.streams[j].dir
    BY <1>2, <2>5, <2>6 DEF Calm, SameDirs
  <2>8. Directed(y) = Directed(x) BY <2>2, <2>3, <2>5, <2>7 DEF Directed
  <2>9. Mute(x, y) BY <1>2, <2>8 DEF Mute, Calm
  <2> QED BY <1>2, <2>5, <2>9, MuteRuns
<1>4. CASE ~(Cardinality(DOMAIN x.streams) >= MaxStreams) BY <1>4 DEF MakeRoom
<1> QED BY <1>3, <1>4

LEMMA StreamRuns ==
    ASSUME NEW b, Apt(b), NEW x, NEW k \in Keys, NEW t \in Times, Fits(x, k), NEW e \in Keys, Running(b, x, e),
           NEW y, y = Stream(x, k, t)
    PROVE  Running(b, y, e) /\ k \in DOMAIN y.streams /\ Calm(x, y)
<1>1. Apt(x) BY DEF Running
<1>2. Apt(y) /\ Calm(x, y) /\ k \in DOMAIN y.streams BY <1>1, StreamKind
<1>3. CASE y = x BY <1>2, <1>3
<1>4. CASE k \in DOMAIN x.streams /\ y = [x EXCEPT !.last = Pointer(x, k)]
  <2>1. /\ y.streams = x.streams /\ y.born = x.born /\ y.config = x.config /\ y.queue = x.queue
        /\ y.locks = x.locks /\ y.pair = x.pair
    BY <1>1, <1>4 DEF Apt, Sound, IsDecoder, Fields
  <2>2. Unsaid(x, y) BY <2>1 DEF Unsaid, Went
  <2> QED BY <1>1, <1>2, <2>2, MuteIs, MuteRuns
<1>5. CASE k \notin DOMAIN x.streams /\ y = Make(MakeRoom(x), k, t)
  <2>1. PICK m : m = MakeRoom(x) OBVIOUS
  <2>2. Apt(m) /\ Calm(x, m) /\ DOMAIN m.streams \subseteq DOMAIN x.streams BY <1>1, <2>1, MakeRoomKind
  <2>3. Fits(m, k) /\ y = Make(m, k, t) /\ k \notin DOMAIN m.streams BY <1>5, <2>1, <2>2 DEF Fits, InPair, Calm
  <2>4. Running(b, m, e) BY <2>1, RoomRuns
  <2>5. /\ SameLock(m, y) /\ y.config = m.config /\ y.queue = m.queue /\ y.born = m.born + 1
        /\ DOMAIN y.streams = DOMAIN m.streams \cup {k}
        /\ \A j \in DOMAIN m.streams \ {k} : y.streams[j] = m.streams[j]
        /\ y.streams[k] = NewStream(m, t)
    BY <2>2, <2>3, MakeEffect DEF Apt, Sound
  <2>6. m.born \in Nat BY <2>2, Borns
  <2>7. /\ Fresh(m, y.streams[k])
        /\ y.streams[k].dir = IF m.srv = Nil THEN Hunting ELSE Client
    BY <2>5 DEF NewStream, Fresh
  <2>8. Passive(m, y, k)
    <3>1. y.born >= m.born BY <2>5, <2>6
    <3>2. \A j \in DOMAIN y.streams : j = k \/ (j \in DOMAIN m.streams /\ Went(m.streams[j], y.streams[j]))
      BY <2>5 DEF Went
    <3> QED BY <2>5, <2>7, <3>1, <3>2 DEF Passive
  <2>9. SameDirs(m, y) BY <2>3, <2>5 DEF SameDirs
  <2>10. Directed(y) # {} <=> Directed(m) # {}
    <3>1. m.srv # Nil => m.srv.key \in Directed(m)
      BY <2>2 DEF Apt, Sound, Paired, PairHolds, Directed, Server, Hunting
    <3>2. \A j \in Directed(m) : j \in Directed(y) BY <2>3, <2>5 DEF Directed
    <3>3. \A j \in Directed(y) : j \in Directed(m) \/ m.srv # Nil BY <2>5, <2>7 DEF Directed
    <3> QED BY <3>1, <3>2, <3>3
  <2>11. Mute(m, y) BY <2>5, <2>9, <2>10 DEF Mute, SameLock
  <2> QED BY <1>2, <2>4, <2>8, <2>11, MuteRuns
<1>6. x.last.key = k => y = x BY DEF Stream
<1> QED BY <1>3, <1>4, <1>5, <1>6 DEF Stream

-----------------------------------------------------------------------------
\* Sweep and admit.

\* Where a step begins, and what its sweep and admit leave: an empty queue, and what waited waits.
Begun(b, x) == /\ x.queue = <<>> /\ x.config = b.config /\ x.born = b.born
               /\ x.locks = b.locks /\ x.pair = b.pair
               /\ \A j \in DOMAIN x.streams : j \in DOMAIN b.streams /\ Went(b.streams[j], x.streams[j])

LEMMA BegunRuns ==
    ASSUME NEW b, Apt(b), BornApart(b), WaitsWell(b), NEW x, Apt(x), Begun(b, x), NEW e
    PROVE  Running(b, x, e)
<1>1. /\ x.queue = <<>> /\ x.config = b.config /\ x.born = b.born /\ x.locks = b.locks /\ x.pair = b.pair
      /\ \A j \in DOMAIN x.streams : j \in DOMAIN b.streams /\ Went(b.streams[j], x.streams[j])
  BY DEF Begun
<1>2. Framed(b) /\ Framed(x) BY AptFramed
<1>3. b.born \in Nat /\ b.locks \in Nat BY Borns, Locks
<1>4. BornApart(x) BY <1>1 DEF BornApart, Went
<1>5. WaitsWell(x)
  <2> SUFFICES ASSUME NEW j \in DOMAIN x.streams PROVE WaitsOn(x.streams[j], j, x.config) BY DEF WaitsWell
  <2>1. WaitsOn(b.streams[j], j, b.config) /\ Went(b.streams[j], x.streams[j]) BY <1>1 DEF WaitsWell
  <2> QED BY <1>1, <2>1 DEF WaitsOn, Went
<1>6. Len(x.queue) = 0 BY <1>1
<1>7. QueuedWell(x, e) BY <1>6 DEF QueuedWell, InTurn
<1>8. b.born <= x.born BY <1>1, <1>3
<1>9. Waits(b, x, e) BY <1>1, <1>2, <1>4, <1>5, <1>7, <1>8 DEF Waits
<1>10. Reached(b, x, NoKey)
  <2> SUFFICES ASSUME NEW j \in DOMAIN x.streams, NEW n \in Due(b, x.streams[j], j)
               PROVE  Settled(n, x.streams[j], x.queue, x.config, j, NoKey)
    BY DEF Reached
  <2>1. PICK s, u : s = b.streams[j] /\ u = x.streams[j] OBVIOUS
  <2>2. j \in DOMAIN b.streams /\ u.born = s.born /\ u.early = s.early /\ u.emitted = s.emitted
    BY <1>1, <2>1 DEF Went
  <2>3. s.emitted \in Nat BY <1>2, <2>1, <2>2 DEF Framed
  <2>4. Base(b, u, j) = s BY <2>1, <2>2 DEF Base
  <2>5. n \in s.emitted .. u.emitted - 1 \/ \E i \in 1 .. Len(s.early) : n = s.early[i].number
    BY <1>2, <2>1, <2>2, <2>3, <2>4, DueNumbers
  <2>6. \E i \in 1 .. Len(u.early) : u.early[i].number = n BY <2>2, <2>3, <2>5
  <2> QED BY <2>1, <2>6 DEF Settled, Waiting
<1>11. Speech(b, x, e) BY <1>6 DEF Speech, Voice
<1>12. Directed(x) # {} => Directed(b) # {} BY <1>1 DEF Directed, Went
<1>13. Heirs(b, x) BY <1>1, <1>3, <1>12 DEF Heirs
<1> QED BY <1>9, <1>10, <1>11, <1>13 DEF Running, Flows

LEMMA DropBegun ==
    ASSUME NEW b, Apt(b), NEW x, Apt(x), Begun(b, x), NEW S, S \subseteq DOMAIN x.streams, NEW y, y = Drop(x, S)
    PROVE  Apt(y) /\ Begun(b, y)
<1>1. Apt(y) /\ y.locks = x.locks /\ (Calm(x, y) \/ Loose(x, y)) /\ DOMAIN y.streams = DOMAIN x.streams \ S
  BY DropKind
<1>2. Passive(x, y, NoKey) BY DropPassive
<1>3. y.pair = x.pair BY <1>1 DEF Calm, Loose
<1>4. NoKey \notin DOMAIN y.streams
  <2>1. Framed(y) BY <1>1, AptFramed
  <2> QED BY <2>1, DecoderAssumption DEF Framed
<1>5. \A j \in DOMAIN y.streams : j \in DOMAIN x.streams /\ Went(x.streams[j], y.streams[j])
  BY <1>2, <1>4 DEF Passive
<1>6. PICK u : u = Loosed(x, S) OBVIOUS
<1>7. IsDecoder(x) /\ PointersHold(x) BY DEF Apt, Sound, Paired
<1>8. y.born = x.born BY <1>6, <1>7, DropEffect DEF Quiet
<1>9. \A j \in DOMAIN y.streams : j \in DOMAIN b.streams /\ Went(b.streams[j], y.streams[j])
  BY <1>5 DEF Begun, Went
<1> QED BY <1>1, <1>2, <1>3, <1>8, <1>9 DEF Begun, Passive

LEMMA DrainedBegun ==
    ASSUME Apt(d), NEW x, x = Drained
    PROVE  Apt(x) /\ Begun(d, x)
<1>1. Apt(x) /\ x.streams = d.streams /\ x.locks = d.locks BY DrainedKeeps
<1>2. x.queue = <<>> /\ x.config = d.config /\ x.born = d.born /\ x.pair = d.pair
  BY DEF Drained, Apt, Sound, IsDecoder, Fields
<1> QED BY <1>1, <1>2 DEF Begun, Went

LEMMA SweptBegun ==
    ASSUME Apt(d), NEW t, NEW y, y = Swept(t)
    PROVE  Apt(y) /\ Begun(d, y)
<1>1. PICK b, x : b = d /\ x = Drained OBVIOUS
<1> DEFINE S == {k \in DOMAIN x.streams : x.streams[k].closed # Open /\ t - x.streams[k].closed >= CloseGrace}
<1>2. Apt(b) /\ Apt(x) /\ Begun(b, x) BY <1>1, DrainedBegun
<1>3. y = x \/ y = Drop(x, S) BY <1>1 DEF Swept, Sweep
<1>4. S \subseteq DOMAIN x.streams OBVIOUS
<1> HIDE DEF S
<1>5. Apt(y) /\ Begun(b, y) BY <1>2, <1>3, <1>4, DropBegun
<1> QED BY <1>1, <1>5

LEMMA AdmittedBegun ==
    ASSUME Apt(d), NEW k \in Keys, NEW t \in Times, Admits(Swept(t), k, t), NEW a, a = Admit(Swept(t), k, t)
    PROVE  Apt(a) /\ Begun(d, a) /\ Fits(a, k)
<1>1. PICK b, x : b = d /\ x = Swept(t) OBVIOUS
<1>2. Apt(b) /\ Apt(x) /\ Begun(b, x) BY <1>1, SweptBegun
<1>3. Apt(a) /\ Fits(a, k) BY AdmittedKeeps
<1>4. IsDecoder(x) BY <1>2 DEF Apt, Sound
<1>5. Begun(b, a)
  <2>1. CASE a = x BY <1>2, <2>1
  <2>2. CASE a = Unlock(x)
    <3>1. /\ Quiet(x, a) /\ DOMAIN a.streams = DOMAIN x.streams
          /\ \A j \in DOMAIN x.streams : Remains(x.streams[j], a.streams[j]) /\ a.streams[j].dir = Hunting
      BY <1>4, <2>2, UnlockEffect
    <3> QED BY <1>2, <3>1 DEF Begun, Quiet, Remains, Went
  <2>3. CASE a = [x EXCEPT !.lockAt = IF t > @ THEN t ELSE @]
    <3>1. PICK v : v = IF t > x.lockAt THEN t ELSE x.lockAt OBVIOUS
    <3>2. a = [x EXCEPT !.lockAt = v] BY <1>4, <2>3, <3>1 DEF IsDecoder, Fields
    <3>3. /\ a.queue = x.queue /\ a.config = x.config /\ a.born = x.born /\ a.locks = x.locks
          /\ a.pair = x.pair /\ a.streams = x.streams
      BY <1>4, <3>2 DEF IsDecoder, Fields
    <3> QED BY <1>2, <3>3 DEF Begun
  <2> QED BY <1>1, <2>1, <2>2, <2>3 DEF Admit
<1> QED BY <1>1, <1>3, <1>5

-----------------------------------------------------------------------------
\* The end of a segment.

\* What a step has brought at its end: all that is due of the streams whose frames are asked for.
Asked(s, c) == s.dir = Server \/ (s.dir = Client /\ c.emitClient)

Delivered(b, x) ==
    \A j \in DOMAIN x.streams : Asked(x.streams[j], x.config) =>
        \A n \in Due(b, x.streams[j], j) :
            n >= x.streams[j].emitted - MaxEarly - (IF x.streams[j].dir = Server THEN 1 ELSE 0)
                => Queued(n, x.streams[j], x.queue)

Brought(b, x, e) == Waits(b, x, e) /\ Delivered(b, x) /\ Speech(b, x, e)

LEMMA RunningBrings ==
    ASSUME NEW b, Apt(b), NEW x, NEW e, Running(b, x, e)
    PROVE  Brought(b, x, e)
<1>1. Waits(b, x, e) /\ Reached(b, x, NoKey) /\ Speech(b, x, e) BY DEF Running, Flows
<1>2. Framed(x) /\ WaitsWell(x) BY <1>1 DEF Waits
<1>3. Framed(b) BY AptFramed
<1>4. Delivered(b, x)
  <2> SUFFICES ASSUME NEW j \in DOMAIN x.streams, Asked(x.streams[j], x.config),
                      NEW n \in Due(b, x.streams[j], j),
                      n >= x.streams[j].emitted - MaxEarly - (IF x.streams[j].dir = Server THEN 1 ELSE 0)
               PROVE  Queued(n, x.streams[j], x.queue)
    BY DEF Delivered
  <2>1. PICK s : s = x.streams[j] OBVIOUS
  <2>2. s.emitted \in Nat /\ j \in Keys BY <1>2, <2>1 DEF Framed
  <2>3. n \in Int /\ MaxEarly \in Nat BY <1>3, <2>1, <2>2, DueNumbers, DecoderAssumption
  <2>4. j # NoKey BY <2>2, DecoderAssumption
  <2>5. Settled(n, s, x.queue, x.config, j, NoKey) BY <1>1, <2>1 DEF Reached
  <2>6. s.early = <<>>
    <3>1. WaitsOn(s, j, x.config) BY <1>2, <2>1 DEF WaitsWell
    <3>2. s.dir # Hunting BY <2>1 DEF Asked, Server, Client, Hunting
    <3> QED BY <3>1, <3>2 DEF WaitsOn
  <2>7. ~Waiting(n, s)
    <3>1. Len(s.early) = 0 BY <2>6
    <3> QED BY <3>1 DEF Waiting
  <2>8. ~(n < s.emitted - Slack(s, j, NoKey)) BY <2>1, <2>2, <2>3, <2>4 DEF Slack
  <2>9. ~(s.dir = Client /\ ~x.config.emitClient) BY <2>1 DEF Asked, Server, Client
  <2> QED BY <2>1, <2>5, <2>7, <2>8, <2>9 DEF Settled
<1> QED BY <1>1, <1>4 DEF Brought

\* Dropping, making and noting streams takes nothing back.
LEMMA PassiveBrings ==
    ASSUME NEW b, Apt(b), NEW x, NEW y, Apt(y), NEW k, NEW e, Waits(b, x, e), Delivered(b, x), Passive(x, y, k)
    PROVE  Waits(b, y, e) /\ Delivered(b, y)
<1>1. Framed(b) /\ Framed(y) /\ b.born \in Nat BY AptFramed, Borns
<1>2. Waits(b, y, e) BY <1>1, PassiveWaits
<1>3. Framed(x) /\ b.born <= x.born /\ x.born \in Nat BY DEF Waits, Framed
<1>4. Delivered(b, y)
  <2> SUFFICES ASSUME NEW j \in DOMAIN y.streams, Asked(y.streams[j], y.config),
                      NEW n \in Due(b, y.streams[j], j),
                      n >= y.streams[j].emitted - MaxEarly - (IF y.streams[j].dir = Server THEN 1 ELSE 0)
               PROVE  Queued(n, y.streams[j], y.queue)
    BY DEF Delivered
  <2>1. PICK u : u = y.streams[j] OBVIOUS
  <2>2. y.config = x.config /\ y.queue = x.queue BY DEF Passive
  <2>3. CASE j \in DOMAIN x.streams /\ Went(x.streams[j], u)
    <3>1. PICK s : s = x.streams[j] OBVIOUS
    <3>2. u.born = s.born /\ u.emitted = s.emitted /\ u.dir \in {s.dir, Hunting} BY <2>3, <3>1 DEF Went
    <3>3. s.emitted \in Nat /\ u.emitted # s.emitted + 1 BY <1>3, <2>3, <3>1, <3>2 DEF Framed
    <3>4. n \in Due(b, s, j) BY <1>1, <2>1, <3>2, <3>3, DueOn
    <3>5. u.dir = s.dir BY <2>1, <3>2 DEF Asked, Server, Client, Hunting
    <3>6. Asked(s, x.config) BY <2>1, <2>2, <3>5 DEF Asked
    <3>7. n >= s.emitted - MaxEarly - (IF s.dir = Server THEN 1 ELSE 0) BY <2>1, <3>2, <3>5
    <3>8. Queued(n, s, x.queue) BY <2>3, <3>1, <3>4, <3>6, <3>7 DEF Delivered
    <3> QED BY <2>1, <2>2, <3>2, <3>8 DEF Queued
  <2>4. CASE Fresh(x, u)
    <3>1. u.emitted = 0 /\ u.born >= b.born /\ u.born \in Nat BY <1>1, <1>3, <2>4 DEF Fresh
    <3>2. Due(b, u, j) = {} BY <1>1, <3>1, NothingDue
    <3> QED BY <2>1, <3>2
  <2> QED BY <2>1, <2>3, <2>4 DEF Passive
<1> QED BY <1>2, <1>4

\* What was said stands, though the pair's streams are dropped.
LEMMA StillSaid ==
    ASSUME NEW b, NEW x, NEW y, NEW e, Speech(b, x, e), Heirs(b, x), y.queue = x.queue, y.pair = x.pair,
           x.locks = b.locks \/ Directed(y) # {}
    PROVE  Speech(b, y, e)
BY DEF Speech, Heirs, Voice

LEMMA StreamBrings ==
    ASSUME NEW b, Apt(b), NEW x, Apt(x), NEW k \in Keys, NEW t \in Times, Fits(x, k), NEW e,
           Waits(b, x, e), Delivered(b, x), NEW y, y = Stream(x, k, t)
    PROVE  /\ Apt(y) /\ Calm(x, y) /\ k \in DOMAIN y.streams /\ y.queue = x.queue
           /\ Waits(b, y, e) /\ Delivered(b, y)
<1>1. Apt(y) /\ Calm(x, y) /\ k \in DOMAIN y.streams BY StreamKind
<1>2. CASE y = x BY <1>1, <1>2
<1>3. CASE k \in DOMAIN x.streams /\ y = [x EXCEPT !.last = Pointer(x, k)]
  <2>1. /\ y.streams = x.streams /\ y.born = x.born /\ y.config = x.config /\ y.queue = x.queue
        /\ y.locks = x.locks /\ y.pair = x.pair
    BY <1>3 DEF Apt, Sound, IsDecoder, Fields
  <2>2. Unsaid(x, y) BY <2>1 DEF Unsaid, Went
  <2>3. Passive(x, y, NoKey) BY <2>2, MuteIs
  <2> QED BY <1>1, <2>1, <2>3, PassiveBrings
<1>4. CASE k \notin DOMAIN x.streams /\ y = Make(MakeRoom(x), k, t)
  <2>1. PICK m : m = MakeRoom(x) OBVIOUS
  <2>2. Apt(m) /\ Calm(x, m) /\ DOMAIN m.streams \subseteq DOMAIN x.streams BY <2>1, MakeRoomKind
  <2>3. y = Make(m, k, t) /\ k \notin DOMAIN m.streams BY <1>4, <2>1, <2>2
  <2>4. m.queue = x.queue /\ Waits(b, m, e) /\ Delivered(b, m)
    <3>1. CASE m = x BY <3>1
    <3>2. CASE m = Drop(x, {Stalest(x)})
      <4>1. PICK S : S = {Stalest(x)} OBVIOUS
      <4>2. Passive(x, m, NoKey) BY <3>2, <4>1, DropPassive
      <4>3. m.queue = x.queue BY <4>2 DEF Passive
      <4> QED BY <2>2, <4>2, <4>3, PassiveBrings
    <3> QED BY <2>1, <3>1, <3>2 DEF MakeRoom
  <2>5. /\ y.config = m.config /\ y.queue = m.queue /\ y.born = m.born + 1
        /\ DOMAIN y.streams = DOMAIN m.streams \cup {k}
        /\ \A j \in DOMAIN m.streams \ {k} : y.streams[j] = m.streams[j]
        /\ y.streams[k] = NewStream(m, t)
    BY <2>2, <2>3, MakeEffect DEF Apt, Sound
  <2>6. m.born \in Nat BY <2>2, Borns
  <2>7. Fresh(m, y.streams[k]) BY <2>5 DEF NewStream, Fresh
  <2>8. Passive(m, y, k)
    <3>1. y.born >= m.born BY <2>5, <2>6
    <3>2. \A j \in DOMAIN y.streams : j = k \/ (j \in DOMAIN m.streams /\ Went(m.streams[j], y.streams[j]))
      BY <2>5 DEF Went
    <3> QED BY <2>5, <2>7, <3>1, <3>2 DEF Passive
  <2> QED BY <1>1, <2>4, <2>5, <2>8, PassiveBrings
<1> QED BY <1>2, <1>3, <1>4 DEF Stream

\* The time and the flags of a segment, and the end of the lock.
LEMMA HeardUnsaid ==
    ASSUME NEW x, Apt(x), NEW k \in DOMAIN x.streams, NEW t \in Times,
           NEW y, y = Heard(x, k, t) \/ y = Synced(x, k, t)
    PROVE  Unsaid(x, y)
<1>1. PICK s, u : s = x.streams[k] /\ u = y.streams[k] OBVIOUS
<1>2. /\ Steady(x, y) /\ SameLock(x, y) /\ y.queue = x.queue /\ DOMAIN y.streams = DOMAIN x.streams
      /\ \A j \in DOMAIN x.streams : j # k => y.streams[j] = x.streams[j]
      /\ u.born = s.born /\ u.early = s.early /\ u.emitted = s.emitted /\ u.dir = s.dir
  BY <1>1, HeardEffect DEF Apt
<1> QED BY <1>1, <1>2 DEF Unsaid, Steady, SameLock, Went

LEMMA CloseUnsaid ==
    ASSUME NEW x, Sound(x), NEW k \in DOMAIN x.streams, NEW t \in Times, NEW y, y = Close(x, k, t)
    PROVE  Unsaid(x, y)
<1>1. PICK s, u : s = x.streams[k] /\ u = y.streams[k] OBVIOUS
<1>2. /\ y.config = x.config /\ y.born = x.born /\ SameLock(x, y) /\ y.queue = x.queue
      /\ DOMAIN y.streams = DOMAIN x.streams
      /\ \A j \in DOMAIN x.streams : j # k => y.streams[j] = x.streams[j]
      /\ u.born = s.born /\ u.early = s.early /\ u.emitted = s.emitted /\ u.dir = s.dir
  BY <1>1, CloseEffect
<1> QED BY <1>1, <1>2 DEF Unsaid, SameLock, Went

LEMMA UnsaidOn ==
    ASSUME NEW x, NEW y, NEW z, Unsaid(x, y), Unsaid(y, z)
    PROVE  Unsaid(x, z)
BY DEF Unsaid, Went

LEMMA MarkUnsaid ==
    ASSUME NEW x, Apt(x), NEW k \in DOMAIN x.streams, NEW t \in Times, Timely(x, k, t), NEW ctl,
           NEW y, y = Mark(x, k, t, ctl)
    PROVE  Unsaid(x, y)
<1>1. PICK m : m = Synced(x, k, t) OBVIOUS
<1>2. Apt(m) /\ Unsaid(x, m) /\ DOMAIN m.streams = DOMAIN x.streams BY <1>1, HeardKeeps, HeardUnsaid
<1>3. y = IF ctl = "fin" THEN Close(m, k, t) ELSE m BY <1>1, MarkIs
<1>4. CASE y = Close(m, k, t) BY <1>2, <1>4, CloseUnsaid, UnsaidOn DEF Apt
<1> QED BY <1>2, <1>3, <1>4

LEMMA LetGoUnsaid ==
    ASSUME NEW x, Apt(x), NEW k, NEW t \in Times, NEW y, y = LetGo(x, k, t)
    PROVE  Unsaid(x, y)
<1>1. PICK z, r : z = Unset(x) /\ r = Reverse(k) OBVIOUS
<1>2. /\ Sound(z) /\ Steady(x, z) /\ z.queue = x.queue /\ z.streams = x.streams
      /\ z.locks = x.locks /\ z.pair = x.pair
  BY <1>1, UnsetEffect DEF Apt
<1>3. Unsaid(x, z) BY <1>2 DEF Unsaid, Steady, Went
<1>4. y = IF r \in DOMAIN z.streams /\ z.streams[r].closed = Open THEN Close(z, r, t) ELSE z BY <1>1, LetGoIs
<1>5. CASE r \in DOMAIN z.streams /\ y = Close(z, r, t)
  <2>1. r \in DOMAIN z.streams BY <1>5
  <2>2. y = Close(z, r, t) BY <1>5
  <2> QED BY <1>2, <1>3, <2>1, <2>2, CloseUnsaid, UnsaidOn
<1> QED BY <1>3, <1>4, <1>5

LEMMA UnsaidRuns ==
    ASSUME NEW b, Apt(b), NEW x, NEW e \in Keys, Running(b, x, e), NEW y, Apt(y), Unsaid(x, y)
    PROVE  Running(b, y, e)
<1>1. Apt(x) BY DEF Running
<1> QED BY <1>1, MuteIs, MuteRuns

LEMMA FedRuns ==
    ASSUME NEW b, Apt(b), NEW x, NEW k \in DOMAIN x.streams, NEW t \in Times, Timely(x, k, t), NEW ctl, NEW o,
           o.resyncs \in Nat, o.held \in Nat, NEW e \in Keys, k \in Connection(e), Running(b, x, e),
           NEW m, m = Mark(x, k, t, ctl), NEW p, p = m \/ p = Take(m, k, o),
           NEW y, y = p \/ y = LetGo(p, k, t), Apt(y)
    PROVE  Running(b, y, e)
<1>1. Apt(x) BY DEF Running
<1>2. Apt(m) /\ k \in DOMAIN m.streams /\ Unsaid(x, m) BY <1>1, MarkKeeps, MarkUnsaid
<1>3. Running(b, m, e) BY <1>2, UnsaidRuns
<1>4. Running(b, p, e) BY <1>2, <1>3, TakeRuns
<1>5. Apt(p) BY <1>4 DEF Running
<1>6. CASE y = LetGo(p, k, t)
  <2>1. Unsaid(p, y) BY <1>5, <1>6, LetGoUnsaid
  <2> QED BY <1>4, <2>1, UnsaidRuns
<1> QED BY <1>4, <1>6

\* A SYN of a new connection on the same ports: what its ACK released is told, though the stream it is
\* for is made anew.
LEMMA RenewBrings ==
    ASSUME NEW b, Apt(b), NEW a, Apt(a), a.locks = b.locks, NEW k \in Keys, NEW t \in Times,
           NEW x, Running(b, x, k), Fits(x, k), LocksOnly(a, x, Reverse(k)), Timely(x, k, t),
           NEW s, s = Found(x, k, t, "renew"), NEW y, y = Mark(s, k, t, "renew")
    PROVE  Brought(b, y, k)
<1>1. PICK r, S, h : r = Stream(x, k, t) /\ S = {k} /\ h = Drop(r, S) OBVIOUS
<1>2. Apt(x) BY DEF Running
<1>3. Running(b, r, k) /\ k \in DOMAIN r.streams /\ Calm(x, r) BY <1>1, StreamRuns
<1>4. Apt(r) /\ Heirs(b, r) /\ Waits(b, r, k) /\ Delivered(b, r) /\ Speech(b, r, k)
  <2>1. Brought(b, r, k) BY <1>3, RunningBrings
  <2> QED BY <1>3, <2>1 DEF Brought, Running
<1>5. Apt(r) /\ r.lockAt = x.lockAt /\ Fits(r, k) BY <1>1, <1>2, StreamKind
<1>6. /\ Apt(h) /\ h.lockAt = r.lockAt /\ (Calm(r, h) \/ Loose(r, h))
      /\ (r.srv = Nil \/ r.srv.key \notin S) => Calm(r, h)
  <2>1. S \subseteq DOMAIN r.streams BY <1>1, <1>3
  <2> QED BY <1>1, <1>5, <2>1, DropKind
<1>7. Passive(r, h, NoKey) BY <1>1, <1>5, DropPassive
<1>8. Waits(b, h, k) /\ Delivered(b, h) /\ h.queue = r.queue
  <2>1. h.queue = r.queue BY <1>7 DEF Passive
  <2>2. Waits(b, r, k) /\ Delivered(b, r) /\ Apt(h) BY <1>4, <1>6
  <2> QED BY <1>7, <2>1, <2>2, PassiveBrings
<1>9. h.srv = r.srv \/ h.srv = Nil BY <1>6 DEF Calm, Loose
<1>10. Fits(h, k) /\ Timely(h, k, t)
  <2>1. Timely(r, k, t) BY <1>3, <1>5 DEF Timely, Calm
  <2> QED BY <1>5, <1>6, <1>9, <2>1 DEF Fits, InPair, Timely
<1>11. s = Stream(h, k, t) BY <1>1 DEF Found, Renew
<1>12. /\ Apt(s) /\ Calm(h, s) /\ k \in DOMAIN s.streams /\ s.queue = h.queue
       /\ Waits(b, s, k) /\ Delivered(b, s)
  BY <1>6, <1>8, <1>10, <1>11, StreamBrings
<1>13. s.lockAt = h.lockAt BY <1>6, <1>10, <1>11, StreamKind
<1>14. Timely(s, k, t) BY <1>10, <1>12, <1>13 DEF Timely, Calm
<1>15. Apt(y) /\ Calm(s, y) /\ Unsaid(s, y) BY <1>12, <1>14, MarkKeeps, MarkUnsaid
<1>16. Passive(s, y, NoKey) BY <1>12, <1>15, MuteIs
<1>17. Waits(b, y, k) /\ Delivered(b, y) /\ y.queue = s.queue
  <2>1. y.queue = s.queue BY <1>16 DEF Passive
  <2> QED BY <1>12, <1>15, <1>16, <2>1, PassiveBrings
<1>18. y.queue = r.queue /\ y.pair = r.pair
  BY <1>6, <1>8, <1>12, <1>15, <1>17 DEF Calm, Loose
<1>19. r.locks = b.locks \/ Directed(y) # {}
  <2> SUFFICES ASSUME r.locks # b.locks PROVE Directed(y) # {} OBVIOUS
  <2>1. x.srv # Nil /\ x.srv.key = Reverse(k) BY <1>3 DEF LocksOnly, SameLock, Calm
  <2>2. Reverse(k) # k BY DecoderAssumption
  <2>3. Calm(r, h) BY <1>1, <1>3, <1>6, <2>1, <2>2 DEF Calm
  <2>4. y.srv # Nil BY <1>3, <1>12, <1>15, <2>1, <2>3 DEF Calm
  <2> QED BY <1>15, <2>4 DEF Apt, Sound, Paired, PairHolds, Directed, Server, Hunting
<1>20. Speech(b, y, k) BY <1>4, <1>18, <1>19, StillSaid
<1> QED BY <1>17, <1>20 DEF Brought

LEMMA SegmentBrings ==
    ASSUME Apt(d), BornApart(d), WaitsWell(d), NEW k \in Keys, NEW t \in Times, FeedSegment(k, t), Apt(d')
    PROVE  Brought(d, d', k)
<1>1. PICK q, a, y : q = d /\ a = Admit(Swept(t), k, t) /\ y = d' OBVIOUS
<1>2. /\ Apt(q) /\ Apt(a) /\ Begun(q, a) /\ Fits(a, k)
      /\ a.srv = Nil \/ a.lockAt >= t
  <2>1. Admits(Swept(t), k, t) BY DEF FeedSegment
  <2>2. Apt(a) /\ Begun(d, a) /\ Fits(a, k) BY <1>1, <2>1, AdmittedBegun
  <2>3. a.srv = Nil \/ a.lockAt >= t BY <1>1, <2>1, AdmittedKeeps
  <2> QED BY <1>1, <2>2, <2>3
<1>3. PICK o \in AckOutcomes(a, Reverse(k)), ctl \in Controls \ {"feed"} :
         FeedStream(Found(Acked(a, Reverse(k), o), k, t, ctl), k, t, ctl)
  BY <1>1 DEF FeedSegment, FeedAdmitted
<1> DEFINE x == Acked(a, Reverse(k), o)
           s == Found(x, k, t, ctl)
<1>4. o.resyncs \in Nat /\ o.held \in Nat BY <1>2, <1>3, OutcomeType DEF Apt, Sound
<1>5. Running(q, a, k) BY <1>1, <1>2, BegunRuns
<1>6. Running(q, x, k) /\ LocksOnly(a, x, Reverse(k))
  <2>1. Reverse(k) \in Connection(k) BY DEF Connection
  <2> QED BY <1>2, <1>4, <1>5, <2>1, AckedRuns
<1> HIDE DEF x
<1>7. Reverse(k) # k /\ k \in Connection(k) BY DecoderAssumption DEF Connection
<1>8. Fits(x, k) BY <1>2, <1>6, <1>7 DEF Fits, InPair, SameLock, LocksOnly
<1>9. Timely(x, k, t) BY <1>2, <1>6, <1>7 DEF Timely, SameLock, LocksOnly
<1>10. FeedStream(s, k, t, ctl) BY <1>3 DEF x
<1>11. Apt(y) BY <1>1
<1>12. CASE ctl = "renew"
  <2> HIDE DEF s
  <2>1. y = Mark(s, k, t, "renew")
    <3>1. Placed(s, k, ctl) = {} /\ InOrder(s, k, ctl) = {FALSE} BY <1>12 DEF Placed, InOrder
    <3>2. y = Fed(s, k, t, ctl, FALSE, Nothing(s, k), FALSE) BY <1>1, <1>10, <3>1 DEF FeedStream, Becomes
    <3> QED BY <1>12, <3>2 DEF Fed, LetGoIf
  <2>2. s = Found(x, k, t, "renew") BY <1>12 DEF s
  <2>3. a.locks = q.locks BY <1>2 DEF Begun
  <2>4. Brought(q, y, k) BY <1>2, <1>6, <1>8, <1>9, <2>1, <2>2, <2>3, RenewBrings
  <2> QED BY <1>1, <2>4
<1>13. CASE ctl # "renew"
  <2>1. s = Stream(x, k, t) BY <1>13 DEF Found
  <2>2. Apt(x) BY <1>6 DEF Running
  <2> HIDE DEF s
  <2>3. Running(q, s, k) /\ k \in DOMAIN s.streams /\ Calm(x, s) BY <1>2, <1>6, <1>8, <2>1, StreamRuns
  <2>4. Apt(s) /\ s.lockAt = x.lockAt BY <1>8, <2>1, <2>2, StreamKind
  <2>5. Timely(s, k, t) BY <1>9, <2>3, <2>4 DEF Timely, Calm
  <2>6. PICK payload \in BOOLEAN, p \in Placed(s, k, ctl) \cup {Nothing(s, k)}, inOrder \in InOrder(s, k, ctl) :
           y = Fed(s, k, t, ctl, payload, p, inOrder)
    BY <1>1, <1>10 DEF FeedStream, Becomes
  <2>7. p.resyncs \in Nat /\ p.held \in Nat BY <2>4, <2>6, OutcomeType DEF Apt, Sound, Placed
  <2>8. PICK m, z : m = Mark(s, k, t, ctl) /\ z = IF payload THEN Take(m, k, p) ELSE m OBVIOUS
  <2>9. z = m \/ z = Take(m, k, p) BY <2>8
  <2>10. y = z \/ y = LetGo(z, k, t) BY <2>6, <2>8 DEF Fed, LetGoIf
  <2>11. Running(q, y, k) BY <1>2, <1>7, <1>11, <2>3, <2>5, <2>7, <2>8, <2>9, <2>10, FedRuns
  <2>12. Brought(q, y, k) BY <1>2, <2>11, RunningBrings
  <2> QED BY <1>1, <2>12
<1> QED BY <1>12, <1>13

LEMMA PayloadBrings ==
    ASSUME Apt(d), BornApart(d), WaitsWell(d), NEW k \in Keys, NEW t \in Times, Feed(k, t)
    PROVE  Brought(d, d', k)
<1>1. PICK q, a, y : q = d /\ a = Admit(Swept(t), k, t) /\ y = d' OBVIOUS
<1>2. /\ Apt(q) /\ Apt(a) /\ Begun(q, a) /\ Fits(a, k)
      /\ a.srv = Nil \/ a.lockAt >= t
  <2>1. Admits(Swept(t), k, t) BY DEF Feed
  <2>2. Apt(a) /\ Begun(d, a) /\ Fits(a, k) BY <1>1, <2>1, AdmittedBegun
  <2>3. a.srv = Nil \/ a.lockAt >= t BY <1>1, <2>1, AdmittedKeeps
  <2> QED BY <1>1, <2>2, <2>3
<1>3. Running(q, a, k) BY <1>1, <1>2, BegunRuns
<1>4. PICK s, fed : s = Stream(a, k, t) /\ fed = Heard(s, k, t) OBVIOUS
<1>5. Running(q, s, k) /\ k \in DOMAIN s.streams /\ Calm(a, s) BY <1>2, <1>3, <1>4, StreamRuns
<1>6. Apt(s) /\ s.lockAt = a.lockAt BY <1>2, <1>4, StreamKind
<1>7. Timely(s, k, t) BY <1>2, <1>5, <1>6 DEF Timely, Calm
<1>8. Apt(fed) /\ k \in DOMAIN fed.streams /\ Unsaid(s, fed) BY <1>4, <1>5, <1>6, <1>7, HeardKeeps, HeardUnsaid
<1>9. Running(q, fed, k) BY <1>2, <1>5, <1>8, UnsaidRuns
<1>10. PICK o \in Outcomes(0) : y = Take(fed, k, [o EXCEPT !.held = s.streams[k].held])
  BY <1>1, <1>4 DEF Feed, FeedPayload, Becomes, Heard
<1>11. PICK p : p = [o EXCEPT !.held = s.streams[k].held] OBVIOUS
<1>12. p.resyncs \in Nat /\ p.held \in Nat
  <2>1. s.streams[k].held \in Nat BY <1>5, <1>6 DEF Apt, Sound, IsDecoder, AStream
  <2> QED BY <1>11, <2>1 DEF Outcomes
<1>13. y = Take(fed, k, p) /\ k \in Connection(k) BY <1>10, <1>11 DEF Connection
<1>14. Running(q, y, k) BY <1>2, <1>8, <1>9, <1>12, <1>13, TakeRuns
<1>15. Brought(q, y, k) BY <1>2, <1>14, RunningBrings
<1> QED BY <1>1, <1>15

-----------------------------------------------------------------------------
\* Every step.

\* What waits and what is queued, between steps.
FInv == /\ LInv /\ BornApart(d) /\ WaitsWell(d)
        /\ \A i \in 1 .. Len(d.queue) : Allowed(d.queue[i], d.config)
        /\ InTurn(d.queue)

\* A step queues frames of one connection, and loses none.
Brings(b, x) == Apt(b) /\ Apt(x) /\ \E e : Brought(b, x, e) /\ (e \in Keys \/ x.queue = <<>>)

LEMMA InitFrames == Init => FInv
<1> SUFFICES ASSUME Init PROVE FInv OBVIOUS
<1>1. LInv BY InitApt
<1>2. d.streams = <<>> /\ d.queue = <<>> BY DEF Init
<1>3. DOMAIN d.streams = {} /\ Len(d.queue) = 0 BY <1>2
<1> QED BY <1>1, <1>3 DEF FInv, BornApart, WaitsWell, InTurn

LEMMA EndFlushBrings ==
    ASSUME NEW b, Apt(b), NEW x, Apt(x), Begun(b, x), BornApart(b), WaitsWell(b), NEW e,
           NEW y, Apt(y), y = Forgotten(x)
    PROVE  Brought(b, y, e)
<1>1. /\ Steady(x, y) /\ SameLock(x, y) /\ y.queue = x.queue
      /\ DOMAIN y.streams = DOMAIN x.streams
      /\ \A j \in DOMAIN x.streams : /\ Stays(x.streams[j], y.streams[j])
                                     /\ y.streams[j].dir = x.streams[j].dir
                                     /\ y.streams[j].early = <<>>
  BY ForgottenEffect DEF Apt
<1>2. Waits(b, x, e) /\ Delivered(b, x) /\ Speech(b, x, e) /\ Heirs(b, x)
  <2>1. Running(b, x, e) BY BegunRuns
  <2> QED BY <2>1, RunningBrings DEF Brought, Running
<1>3. x.queue = <<>> /\ Len(y.queue) = 0 BY <1>1 DEF Begun
<1>4. Framed(b) /\ Framed(x) /\ Framed(y) BY AptFramed
<1>5. Waits(b, y, e)
  <2>1. y.config = x.config /\ y.born = x.born BY <1>1 DEF Steady
  <2>2. BornApart(y) BY <1>1, <1>2 DEF Waits, BornApart, Stays
  <2>3. WaitsWell(y)
    <3>1. \A j \in DOMAIN y.streams : Len(y.streams[j].early) = 0 BY <1>1
    <3> QED BY <1>1, <3>1, DecoderAssumption DEF WaitsWell, WaitsOn
  <2>4. QueuedWell(y, e) BY <1>3 DEF QueuedWell, InTurn
  <2> QED BY <1>2, <1>4, <2>1, <2>2, <2>3, <2>4 DEF Waits
<1>6. Delivered(b, y)
  <2> SUFFICES ASSUME NEW j \in DOMAIN y.streams, Asked(y.streams[j], y.config), NEW n \in Due(b, y.streams[j], j)
               PROVE  FALSE
    BY DEF Delivered
  <2>1. PICK s, v, u : s = b.streams[j] /\ v = x.streams[j] /\ u = y.streams[j] OBVIOUS
  <2>2. j \in DOMAIN b.streams /\ Went(s, v) BY <1>1, <2>1 DEF Begun
  <2>3. u.born = s.born /\ u.emitted = s.emitted /\ u.dir \in {s.dir, Hunting} BY <1>1, <2>1, <2>2 DEF Stays, Went
  <2>4. s.dir # Hunting BY <2>1, <2>3 DEF Asked, Server, Client, Hunting
  <2>5. s.early = <<>> BY <2>1, <2>2, <2>4 DEF WaitsWell, WaitsOn
  <2>6. s.emitted \in Nat /\ Base(b, u, j) = s BY <1>4, <2>1, <2>2, <2>3 DEF Framed, Base
  <2>7. Len(s.early) = 0 /\ n \in Due(b, u, j) BY <2>1, <2>5
  <2> QED BY <1>4, <2>3, <2>6, <2>7, DueNumbers
<1>7. Speech(b, y, e) BY <1>3 DEF Speech, Voice
<1> QED BY <1>5, <1>6, <1>7 DEF Brought

LEMMA NextBrings == FInv /\ [Next]_vars => UNCHANGED d \/ Brings(d, d')
<1> SUFFICES ASSUME FInv, [Next]_vars PROVE UNCHANGED d \/ Brings(d, d') OBVIOUS
<1>1. LInv /\ Apt(d) /\ IInv /\ BornApart(d) /\ WaitsWell(d) BY DEF FInv, LInv
<1>2. Apt(d') BY <1>1, NextEnds
<1>3. ASSUME NEW e, Brought(d, d', e), e \in Keys \/ d'.queue = <<>> PROVE Brings(d, d')
  BY <1>1, <1>2, <1>3 DEF Brings
<1>4. ASSUME NEW k \in Keys, NEW t \in Times, Refuse(k, t) PROVE Brings(d, d')
  <2>1. PICK q, y : q = d /\ y = d' OBVIOUS
  <2>2. y = Swept(t) BY <1>4, <2>1 DEF Refuse, Becomes
  <2>3. Apt(y) /\ Begun(q, y) BY <1>1, <2>1, <2>2, SweptBegun
  <2>4. Brought(q, y, k) BY <1>1, <2>1, <2>3, BegunRuns, RunningBrings
  <2> QED BY <1>3, <2>1, <2>4
<1>5. ASSUME NEW k \in Keys, NEW t \in Times, BareAck(k, t) PROVE Brings(d, d')
  <2>1. PICK q, a, y : q = d /\ a = Admit(Swept(t), k, t) /\ y = d' OBVIOUS
  <2>2. Apt(q) /\ Apt(a) /\ Begun(q, a)
    <3>1. Admits(Swept(t), k, t) BY <1>5 DEF BareAck
    <3> QED BY <1>1, <2>1, <3>1, AdmittedBegun
  <2>3. PICK o \in AckOutcomes(a, Reverse(k)) : y = Acked(a, Reverse(k), o)
    BY <1>5, <2>1 DEF BareAck, HeedAck, Becomes
  <2>4. o.resyncs \in Nat /\ o.held \in Nat BY <2>2, <2>3, OutcomeType DEF Apt, Sound
  <2>5. Running(q, a, k) /\ Reverse(k) \in Connection(k) BY <1>1, <2>1, <2>2, BegunRuns DEF Connection
  <2>6. Running(q, y, k) BY <2>2, <2>3, <2>4, <2>5, AckedRuns
  <2>7. Brought(q, y, k) BY <2>2, <2>6, RunningBrings
  <2> QED BY <1>3, <2>1, <2>7
<1>6. ASSUME NEW k \in Keys, NEW t \in Times, FeedSegment(k, t) PROVE Brings(d, d')
  BY <1>1, <1>2, <1>3, <1>6, SegmentBrings
<1>7. ASSUME NEW k \in Keys, NEW t \in Times, Feed(k, t) PROVE Brings(d, d')
  BY <1>1, <1>3, <1>7, PayloadBrings
<1>8. PICK q, x, y : q = d /\ x = Drained /\ y = d' OBVIOUS
<1>9. Apt(q) /\ Apt(x) /\ Begun(q, x) /\ x.streams = q.streams BY <1>1, <1>8, DrainedBegun, DrainedKeeps
<1>10. CASE BeginFlush
  <2>1. y = x BY <1>8, <1>10 DEF BeginFlush
  <2>2. Brought(q, y, NoKey) BY <1>1, <1>8, <1>9, <2>1, BegunRuns, RunningBrings
  <2>3. y.queue = <<>> BY <1>9, <2>1 DEF Begun
  <2> QED BY <1>3, <1>8, <2>2, <2>3
<1>11. CASE FlushStream
  <2>1. PICK k \in flushing, o \in Outcomes(0) : y = Take(x, k, o)
    BY <1>8, <1>11 DEF FlushStream, FlushTo, Becomes
  <2>2. k \in DOMAIN x.streams /\ k \in Keys BY <1>1, <1>8, <1>9 DEF IInv, TypeOK, IsDecoder
  <2>3. o.resyncs \in Nat /\ o.held \in Nat /\ k \in Connection(k) BY DEF Outcomes, Connection
  <2>4. Running(q, x, k) BY <1>1, <1>8, <1>9, BegunRuns
  <2>5. Running(q, y, k) BY <1>9, <2>1, <2>2, <2>3, <2>4, TakeRuns
  <2>6. Brought(q, y, k) BY <1>9, <2>5, RunningBrings
  <2> QED BY <1>3, <1>8, <2>2, <2>6
<1>12. CASE EndFlush
  <2>1. y = Forgotten(x) BY <1>8, <1>12 DEF EndFlush
  <2>2. Apt(y) BY <1>2, <1>8
  <2>3. Brought(q, y, NoKey) BY <1>1, <1>8, <1>9, <2>1, <2>2, EndFlushBrings
  <2>4. y.queue = <<>>
    <3>1. y.queue = x.queue BY <1>9, <2>1, ForgottenEffect DEF Apt
    <3> QED BY <1>9, <3>1 DEF Begun
  <2> QED BY <1>3, <1>8, <2>3, <2>4
<1>13. CASE UNCHANGED vars BY <1>13 DEF vars
<1> QED BY <1>4, <1>5, <1>6, <1>7, <1>10, <1>11, <1>12, <1>13 DEF Next

LEMMA NextFrames == FInv /\ [Next]_vars => FInv'
<1> SUFFICES ASSUME FInv, [Next]_vars PROVE FInv' OBVIOUS
<1>1. LInv' BY NextApt DEF FInv
<1>2. CASE UNCHANGED d
  <2>1. PICK q, y : q = d /\ y = d' OBVIOUS
  <2>2. /\ BornApart(y) /\ WaitsWell(y) /\ InTurn(y.queue)
        /\ \A i \in 1 .. Len(y.queue) : Allowed(y.queue[i], y.config)
    BY <1>2, <2>1 DEF FInv
  <2> QED BY <1>1, <2>1, <2>2 DEF FInv, BornApart, WaitsWell, WaitsOn, InTurn, Allowed
<1>3. CASE Brings(d, d')
  <2>1. PICK q, y : q = d /\ y = d' OBVIOUS
  <2>2. PICK e : Waits(q, y, e) BY <1>3, <2>1 DEF Brings, Brought
  <2>3. BornApart(y) /\ WaitsWell(y) /\ QueuedWell(y, e) BY <2>2 DEF Waits
  <2>4. InTurn(y.queue) /\ \A i \in 1 .. Len(y.queue) : Allowed(y.queue[i], y.config)
    BY <2>3 DEF QueuedWell, QueuedFrame
  <2> QED BY <1>1, <2>1, <2>3, <2>4 DEF FInv, BornApart, WaitsWell, WaitsOn, InTurn, Allowed
<1> QED BY <1>2, <1>3, NextBrings

LEMMA FramesHold == Spec => []FInv
BY InitFrames, NextFrames, PTL DEF Spec

\* Frames wait only while hunting, leave in their order, and none is lost by the lock it waits for
\* (emit, queueEarly, hunt, lock).
THEOREM TheFramesAreKept == Spec => FramesAreKept
<1> DEFINE Loses == \A k \in DOMAIN d'.streams :
        LET s == d'.streams[k]
            old == IF Same(k) THEN d.streams[k] ELSE [emitted |-> 0, early |-> <<>>]
            waited == {old.early[i].number : i \in DOMAIN old.early}
            queued == {d'.queue[i].number : i \in {j \in DOMAIN d'.queue : d'.queue[j].born = s.born}}
        IN s.dir = Server \/ (s.dir = Client /\ d.config.emitClient) =>
               \A n \in waited \cup (old.emitted .. s.emitted - 1) :
                   n >= s.emitted - MaxEarly - (IF s.dir = Server THEN 1 ELSE 0) => n \in queued
<1>1. FInv => FramesWaitWhileHunting /\ QueuedInOrder
  <2> SUFFICES ASSUME FInv PROVE FramesWaitWhileHunting /\ QueuedInOrder OBVIOUS
  <2>1. d.queue \in Seq(Frame) /\ DOMAIN d.queue = 1 .. Len(d.queue)
    BY DEF FInv, LInv, Apt, Sound, IsDecoder, Fields
  <2>2. WaitsWell(d) /\ InTurn(d.queue) /\ \A i \in 1 .. Len(d.queue) : Allowed(d.queue[i], d.config)
    BY DEF FInv
  <2>3. FramesWaitWhileHunting BY <2>1, <2>2 DEF FramesWaitWhileHunting, WaitsWell, WaitsOn, Allowed
  <2>4. QueuedInOrder BY <2>1, <2>2 DEF QueuedInOrder, InTurn
  <2> QED BY <2>3, <2>4
<1>2. FInv /\ [Next]_vars => [Loses]_vars
  <2> SUFFICES ASSUME FInv, [Next]_vars, ~UNCHANGED vars PROVE Loses OBVIOUS
  <2>1. PICK b, y : b = d /\ y = d' OBVIOUS
  <2> SUFFICES ASSUME NEW k \in DOMAIN d'.streams
               PROVE  LET s == d'.streams[k]
                          old == IF Same(k) THEN d.streams[k] ELSE [emitted |-> 0, early |-> <<>>]
                          waited == {old.early[i].number : i \in DOMAIN old.early}
                          queued == {d'.queue[i].number : i \in {j \in DOMAIN d'.queue : d'.queue[j].born = s.born}}
                      IN s.dir = Server \/ (s.dir = Client /\ d.config.emitClient) =>
                             \A n \in waited \cup (old.emitted .. s.emitted - 1) :
                                 n >= s.emitted - MaxEarly - (IF s.dir = Server THEN 1 ELSE 0) => n \in queued
    OBVIOUS
  <2> DEFINE s == y.streams[k]
             old == Base(b, s, k)
  <2> SUFFICES ASSUME Asked(s, b.config),
                      NEW n \in {old.early[i].number : i \in DOMAIN old.early} \cup (old.emitted .. s.emitted - 1),
                      n >= s.emitted - MaxEarly - (IF s.dir = Server THEN 1 ELSE 0)
               PROVE  n \in {y.queue[i].number : i \in {j \in DOMAIN y.queue : y.queue[j].born = s.born}}
    BY <2>1 DEF Base, Same, Asked
  <2>0. k \in DOMAIN y.streams BY <2>1
  <2>2. CASE b = y
    <3>1. Apt(b) /\ WaitsWell(b) BY <2>1 DEF FInv, LInv
    <3>2. old = s BY <2>0, <2>2 DEF Base
    <3>3. s.dir # Hunting BY DEF Asked, Server, Client, Hunting
    <3>4. WaitsOn(s, k, b.config) BY <2>0, <2>2, <3>1 DEF WaitsWell
    <3>5. s.early = <<>> BY <3>3, <3>4 DEF WaitsOn
    <3>6. s.emitted \in Nat BY <2>0, <2>2, <3>1, AptFramed DEF Framed
    <3> QED BY <3>2, <3>5, <3>6
  <2>3. CASE Brings(b, y)
    <3>1. PICK e : Waits(b, y, e) /\ Delivered(b, y) BY <2>3 DEF Brings, Brought
    <3>2. y.config = b.config /\ Framed(y) BY <3>1 DEF Waits
    <3>3. Framed(b) BY <2>3, AptFramed DEF Brings
    <3>4. old.early \in Seq(Frame)
      <4>1. CASE k \in DOMAIN b.streams /\ b.streams[k].born = s.born BY <3>3, <4>1 DEF Base, Framed
      <4>2. CASE ~(k \in DOMAIN b.streams /\ b.streams[k].born = s.born)
        <5>1. old = [emitted |-> 0, early |-> <<>>] BY <4>2 DEF Base
        <5> QED BY <5>1
      <4> QED BY <4>1, <4>2
    <3>5. DOMAIN old.early = 1 .. Len(old.early) BY <3>4
    <3>6. s.emitted \in Nat BY <2>0, <3>2 DEF Framed
    <3>7. n \in Due(b, s, k) BY <3>5 DEF Due
    <3>8. Queued(n, s, y.queue) BY <2>0, <3>1, <3>2, <3>7 DEF Delivered
    <3>9. DOMAIN y.queue = 1 .. Len(y.queue) BY <3>2 DEF Framed
    <3> QED BY <3>8, <3>9 DEF Queued
  <2> QED BY <2>1, <2>2, <2>3, NextBrings
<1>3. Spec => []FramesWaitWhileHunting /\ []QueuedInOrder BY <1>1, FramesHold, PTL
<1>4. Spec => LockKeepsWhatWaited BY <1>2, FramesHold, PTL DEF Spec, LockKeepsWhatWaited
<1> QED BY <1>3, <1>4, PTL DEF FramesAreKept

\* The lock implements FlowLock: what a step queues with a direction is of one connection, the pair
\* that the lock is on or was last on (lock, letGo, unlock, queueEarly, emit).
THEOREM TheLockIsAFlow == Spec => ImplementsFlowLock
<1> DEFINE Locked_(x)  == x.srv # Nil
           Game(x)    == UNION {Connection(k) : k \in Directed(x)}
           Sources(x) == {Connection(x.queue[i].key) : i \in {j \in DOMAIN x.queue : x.queue[j].dir # Hunting}}
<1>1. ASSUME NEW x, Apt(x), Directed(x) # {}
      PROVE  Game(x) = Connection(x.pair) /\ x.pair \in Keys
  <2>1. IsDecoder(x) /\ \A k \in Directed(x) : k = x.pair \/ Reverse(k) = x.pair
    BY <1>1 DEF Apt, Sound, Paired
  <2>2. \A k \in Directed(x) : k \in Keys BY <2>1 DEF Directed, IsDecoder
  <2>3. \A k \in Directed(x) : x.pair \in Keys /\ x.pair \in Connection(k)
    BY <2>1, <2>2, DecoderAssumption DEF Connection
  <2>4. \A k \in Directed(x) : Connection(k) = Connection(x.pair) BY <2>2, <2>3, ConnectionIs
  <2> QED BY <1>1, <2>3, <2>4
<1>2. ASSUME NEW b, NEW x, Brings(b, x)
      PROVE  /\ Directed(x) # {} => Sources(x) \subseteq {Game(x)} \ {{}}
             /\ Directed(x) = {} => Sources(x) \subseteq {Game(b)} \ {{}}
  <2>1. PICK e : Brought(b, x, e) /\ (e \in Keys \/ x.queue = <<>>) BY <1>2 DEF Brings
  <2>2. Apt(b) /\ Apt(x) BY <1>2 DEF Brings
  <2>3. Framed(x) /\ QueuedWell(x, e) /\ Speech(b, x, e) BY <2>1 DEF Brought, Waits
  <2>4. DOMAIN x.queue = 1 .. Len(x.queue) BY <2>3 DEF Framed
  <2>5. CASE ~Voice(x)
    <3>1. Sources(x) = {} BY <2>4, <2>5 DEF Voice
    <3> QED BY <3>1
  <2>6. CASE Voice(x)
    <3>1. e \in Keys
      <4>1. x.queue = <<>> => Len(x.queue) = 0 OBVIOUS
      <4> QED BY <2>1, <2>6, <4>1 DEF Voice
    <3>2. /\ x.pair \in Connection(e)
          /\ Directed(x) # {} \/ (Directed(b) # {} /\ b.pair \in Connection(e))
      BY <2>3, <2>6 DEF Speech
    <3>3. \A i \in 1 .. Len(x.queue) : x.queue[i].key \in Connection(e) /\ x.queue[i].key \in Keys
    
      <4>1. \A i \in 1 .. Len(x.queue) : x.queue[i] \in Frame BY <2>3 DEF Framed
      <4> QED BY <2>3, <4>1 DEF QueuedWell, QueuedFrame, Frame
    <3>4. \A i \in 1 .. Len(x.queue) : Connection(x.queue[i].key) = Connection(e) BY <3>1, <3>3, ConnectionIs
    <3>5. Sources(x) \subseteq {Connection(e)} \ {{}} BY <2>4, <3>4 DEF Connection
    <3>6. Directed(x) # {} => Game(x) = Connection(e) BY <1>1, <2>2, <3>1, <3>2, ConnectionIs
    <3>7. Directed(x) = {} => Game(b) = Connection(e) BY <1>1, <2>2, <3>1, <3>2, ConnectionIs
    <3> QED BY <3>5, <3>6, <3>7
  <2> QED BY <2>5, <2>6
<1>3. ASSUME Brings(d, d') PROVE Flow!Next
  <2>1. PICK b, y : b = d /\ y = d' OBVIOUS
  <2>2. Brings(b, y) /\ Apt(y) BY <1>3, <2>1 DEF Brings
  <2>3. y.srv # Nil => Directed(y) # {}
    BY <2>2 DEF Apt, Sound, Paired, PairHolds, Directed, Server, Hunting
  <2>4. Directed(y) # {} => Game(y) \in {Connection(k) : k \in Keys} BY <1>1, <2>2
  <2>5. Directed(y) = {} => Game(y) = {} OBVIOUS
  <2>6. /\ Directed(y) # {} => Sources(y) \subseteq {Game(y)} \ {{}}
        /\ Directed(y) = {} => Sources(y) \subseteq {Game(b)} \ {{}}
    BY <1>2, <2>2
  <2>7. /\ Game(y) = UNION {Connection(k) : k \in Directed(d')}
        /\ Game(b) = UNION {Connection(k) : k \in Directed(d)}
        /\ Sources(y) = {Connection(d'.queue[i].key) : i \in {j \in DOMAIN d'.queue : d'.queue[j].dir # Hunting}}
        /\ Locked_(y) = (d'.srv # Nil) /\ Locked_(b) = (d.srv # Nil)
    BY <2>1
  <2> HIDE DEF Game, Sources
  <2>8. CASE y.srv # Nil /\ b.srv = Nil
    <3>1. Flow!Find BY <2>3, <2>4, <2>6, <2>7, <2>8 DEF Flow!Find, Flow!Speak, Directed
    <3> QED BY <3>1 DEF Flow!Next
  <2>9. CASE y.srv # Nil /\ b.srv # Nil
    <3>1. Flow!Lapse BY <2>3, <2>4, <2>6, <2>7, <2>9 DEF Flow!Lapse, Flow!Speak, Directed
    <3> QED BY <3>1 DEF Flow!Next
  <2>10. CASE y.srv = Nil /\ Directed(y) # {}
    <3>1. Flow!FindAndLetGo BY <2>4, <2>6, <2>7, <2>10 DEF Flow!FindAndLetGo, Flow!Speak, Directed
    <3> QED BY <3>1 DEF Flow!Next
  <2>11. CASE y.srv = Nil /\ Directed(y) = {}
    <3>1. Flow!Forget BY <2>5, <2>6, <2>7, <2>11 DEF Flow!Forget, Flow!Speak, Directed
    <3> QED BY <3>1 DEF Flow!Next
  <2> QED BY <2>8, <2>9, <2>10, <2>11
<1>4. FInv /\ [Next]_vars => [Flow!Next]_(Flow!vars)
  <2>1. CASE UNCHANGED d BY <2>1 DEF Flow!vars, Directed
  <2> QED BY <1>3, <2>1, NextBrings
<1>5. Init => Flow!Init
  <2> SUFFICES ASSUME Init PROVE Flow!Init OBVIOUS
  <2>1. d.streams = <<>> /\ d.srv = Nil /\ d.queue = <<>> BY DEF Init
  <2>2. DOMAIN d.streams = {} /\ DOMAIN d.queue = {} BY <2>1
  <2>3. Directed(d) = {} BY <2>2 DEF Directed
  <2> QED BY <2>1, <2>2, <2>3 DEF Flow!Init
<1> QED BY <1>4, <1>5, FramesHold, PTL DEF Spec, ImplementsFlowLock, Flow!Spec
=============================================================================
