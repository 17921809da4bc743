------------------------------ MODULE Decoder ------------------------------
(***************************************************************************)
(* The stream table and the lock of src/wire/decoder.go: which connections *)
(* a decoder looks at, how it finds the game's connection among them, what *)
(* it does with the frames found before it knows, and when it lets go.     *)
(*                                                                         *)
(* One FeedSegment, Feed or stream of a Flush is one step.  The framer and *)
(* the reassembly behind it appear by what they hand back: the frames they *)
(* emit, whether they lost their place, how many segments stay held, and   *)
(* whether a FIN was next in order; Reassembly models them.  A step starts *)
(* with the queue empty: Decode takes every frame between two segments,    *)
(* and what it takes after a Flush is what the Flush's steps queued.       *)
(***************************************************************************)
EXTENDS Integers, Sequences, FiniteSets

CONSTANTS
    Keys,           \* directions of connections, <<src, dst>>
    NoKey,          \* the key of no stream
    Times,          \* capture times of segments
    Controls,       \* flags of segments: of "none", "syn", "renew" and "fin" (see Found), and
                    \* "feed" for payloads that come without sequence numbers
    FrameKinds,     \* frames a framer may emit, [op, resynced, trusted]
    LockIdle,       \* the silence that ends the lock
    CloseGrace,     \* closeGrace: how long a closed stream is kept
    MaxStreams,     \* maxStreams: streams a decoder holds at once
    MaxEarly,       \* maxEarly: frames a stream keeps while hunting
    KnownFrames,    \* 3: known frames that earn the lock
    CombatFrames,   \* 2: the same, when the last is of combat
    Configs,        \* Config: [emitClient, emitUnlocked, knownOnly]
    Ordered,        \* whether segments come in the order of their times
    Ends,           \* whether the capture ends, and the decoder is flushed
    MaxBorn,        \* bound: streams made
    MaxLocks,       \* bound: locks taken
    MaxBurst,       \* bound: frames a stream emits at once, at most 2
    MaxFrames,      \* bound: frames one stream emits
    MaxResyncs,     \* bound: resyncs of one stream between two folds, and of all
    MaxPieces       \* bound: segments one stream holds

Reverse(k) == <<k[2], k[1]>>

ASSUME DecoderAssumption ==
    /\ IsFiniteSet(Keys)
    /\ \A k \in Keys : Reverse(k) \in Keys /\ Reverse(k) # k /\ Reverse(Reverse(k)) = k
    /\ NoKey \notin Keys
    /\ Times \subseteq Nat
    /\ Controls \subseteq {"none", "syn", "renew", "fin", "feed"}
    /\ FrameKinds \subseteq [op : {"combat", "known", "other"}, resynced : BOOLEAN, trusted : BOOLEAN]
    /\ {LockIdle, CloseGrace, MaxBorn, MaxLocks, MaxBurst, MaxFrames, MaxResyncs,
        MaxPieces} \subseteq Nat
    /\ MaxStreams \in Nat /\ MaxStreams >= 3
    /\ {MaxEarly, KnownFrames, CombatFrames} \subseteq Nat \ {0}
    /\ Configs \subseteq [emitClient : BOOLEAN, emitUnlocked : BOOLEAN, knownOnly : BOOLEAN]
    /\ {Ordered, Ends} \subseteq BOOLEAN

VARIABLES
    d,              \* the Decoder
    phase,          \* of Decode: "reading", "flushing" or "over"
    flushing,       \* the streams a Flush has yet to reach
    now             \* history: the time of the last segment

vars == <<d, phase, flushing, now>>

\* A stream's direction: its flags FromServer and FromClient, or 0 while hunting.
Server  == "FromServer"
Client  == "FromClient"
Hunting == "0"

Open == -1          \* the closed time of a stream that has seen no FIN or RST

\* A pointer to a stream: streams made on the same key at different times are told apart by born.
Nil == [key |-> NoKey, born |-> 0]
Pointer(x, k) == [key |-> k, born |-> x.streams[k].born]

-----------------------------------------------------------------------------
\* The methods of Decoder.  Each takes a decoder x and returns it changed.

\* The sum of f, which counts things, over the keys S.
SumOf(f, S) == Cardinality(UNION {{k} \X (1 .. f[k]) : k \in S})

\* The resyncs of the streams in S that have a direction, as Stats counts them.
Resyncs(x, S, dir) ==
    SumOf([k \in S |-> IF x.streams[k].dir = dir THEN x.streams[k].resyncs ELSE 0], S)

Fold(x, S) ==
    [x EXCEPT !.resyncs       = @ + Resyncs(x, S, Server),
              !.clientResyncs = @ + Resyncs(x, S, Client),
              !.streams = [k \in DOMAIN x.streams |->
                              IF k \in S THEN [x.streams[k] EXCEPT !.resyncs = 0]
                              ELSE x.streams[k]]]

\* Mutant: the resyncs are not folded.
UnlockUnfolded(x) ==
    [x EXCEPT !.srv = Nil,
              !.streams = [k \in DOMAIN x.streams |->
                              [x.streams[k] EXCEPT !.dir = Hunting, !.frames = 0]]]

Unlock(x) ==
    LET f == Fold(x, DOMAIN x.streams)
    IN [f EXCEPT !.srv = Nil,
                 !.streams = [k \in DOMAIN f.streams |->
                                 [f.streams[k] EXCEPT !.dir = Hunting, !.frames = 0]]]

\* drop, of every stream in S: the order they go in makes no difference.
PointsInto(x, p, S) == p.key \in S /\ p = Pointer(x, p.key)

\* f is x with its lock and its totals settled.
Without(x, f, S) ==
    [f EXCEPT !.closing = @ - Cardinality({k \in S : x.streams[k].closed # Open}),
              !.last    = IF PointsInto(x, @, S) THEN Nil ELSE @,
              !.held    = @ - SumOf([k \in S |-> x.streams[k].held], S),
              !.streams = [k \in DOMAIN f.streams \ S |-> f.streams[k]]]

\* Mutants: a dropped server keeps the lock; the held segments of a dropped stream still count.
DropKeepingLock(x, S) == Without(x, Fold(x, S), S)

DropKeepingHeld(x, S) ==
    [Without(x, Fold(IF PointsInto(x, x.srv, S) THEN Unlock(x) ELSE x, S), S) EXCEPT !.held = x.held]

Drop(x, S) == Without(x, Fold(IF PointsInto(x, x.srv, S) THEN Unlock(x) ELSE x, S), S)

Sweep(x, t) ==
    IF x.closing = 0 THEN x
    ELSE Drop(x, {k \in DOMAIN x.streams :
                     x.streams[k].closed # Open /\ t - x.streams[k].closed >= CloseGrace})

\* admit, after its sweep: whether bytes on k are parsed, and what becomes of the lock.
InPair(x, k)    == k = x.srv.key \/ Reverse(k) = x.srv.key
Admits(x, k, t) == x.srv = Nil \/ InPair(x, k) \/ t - x.lockAt > LockIdle

\* Mutant: the pair's traffic does not keep the lock alive.
AdmitUnrefreshed(x, k, t) ==
    IF x.srv = Nil \/ InPair(x, k) THEN x
    ELSE IF t - x.lockAt > LockIdle THEN Unlock(x)
    ELSE x

Admit(x, k, t) ==
    IF x.srv = Nil THEN x
    ELSE IF InPair(x, k) THEN [x EXCEPT !.lockAt = IF t > @ THEN t ELSE @]
    ELSE IF t - x.lockAt > LockIdle THEN Unlock(x)
    ELSE x

Stalest(x) ==
    LET hunting == {k \in DOMAIN x.streams : x.streams[k].dir = Hunting}
    IN CHOOSE k \in hunting : \A j \in hunting :
           \/ x.streams[k].last < x.streams[j].last
           \/ x.streams[k].last = x.streams[j].last /\ x.streams[k].born <= x.streams[j].born

\* Mutant: room is made only once the table has outgrown its limit.
MakeRoomLate(x) == IF Cardinality(DOMAIN x.streams) > MaxStreams THEN Drop(x, {Stalest(x)}) ELSE x

\* stream: find the stream for k, or make it.
MakeRoom(x) == IF Cardinality(DOMAIN x.streams) >= MaxStreams THEN Drop(x, {Stalest(x)}) ELSE x

\* Mutants: a stream made while locked has no direction; one made after any lock is a client's.
NewStreamHunting(x, t) ==
    [dir |-> Hunting, last |-> t, closed |-> Open, born |-> x.born,
     frames |-> 0, synced |-> FALSE, held |-> 0, resyncs |-> 0, early |-> <<>>, emitted |-> 0]

NewStreamOnceLocked(x, t) ==
    [dir |-> IF x.locks = 0 THEN Hunting ELSE Client, last |-> t, closed |-> Open, born |-> x.born,
     frames |-> 0, synced |-> FALSE, held |-> 0, resyncs |-> 0, early |-> <<>>, emitted |-> 0]

NewStream(x, t) ==
    [dir |-> IF x.srv = Nil THEN Hunting ELSE Client, last |-> t, closed |-> Open, born |-> x.born,
     frames |-> 0, synced |-> FALSE, held |-> 0, resyncs |-> 0, early |-> <<>>, emitted |-> 0]

Make(x, k, t) ==
    [x EXCEPT !.streams = [j \in DOMAIN x.streams \cup {k} |->
                              IF j = k THEN NewStream(x, t) ELSE x.streams[j]],
              !.born = @ + 1,
              !.last = [key |-> k, born |-> x.born]]

Stream(x, k, t) ==
    IF x.last.key = k THEN x
    ELSE IF k \in DOMAIN x.streams THEN [x EXCEPT !.last = Pointer(x, k)]
    ELSE Make(MakeRoom(x), k, t)

-----------------------------------------------------------------------------
\* Frames.

QueueEarly(x, k) ==
    LET s == x.streams[k]
    IN [x EXCEPT !.queue = IF s.dir = Server \/ x.config.emitClient
                           THEN @ \o [i \in DOMAIN s.early |-> [s.early[i] EXCEPT !.dir = s.dir]]
                           ELSE @,
                 !.streams[k].early = <<>>]

\* Mutants: the streams of other connections are kept; the frames that the client side found are
\* forgotten.
LockKeepingOthers(x, k) ==
    LET r == Reverse(k)
        a == QueueEarly([x EXCEPT !.srv = Pointer(x, k), !.lockAt = x.streams[k].last,
                                  !.locks = @ + 1, !.pair = k, !.streams[k].dir = Server], k)
    IN IF r \in DOMAIN x.streams THEN QueueEarly([a EXCEPT !.streams[r].dir = Client], r) ELSE a

LockForgettingPeer(x, k) ==
    LET r == Reverse(k)
        a == QueueEarly([x EXCEPT !.srv = Pointer(x, k), !.lockAt = x.streams[k].last,
                                  !.locks = @ + 1, !.pair = k, !.streams[k].dir = Server], k)
        b == IF r \in DOMAIN x.streams
             THEN [a EXCEPT !.streams[r].dir = Client, !.streams[r].early = <<>>] ELSE a
    IN Drop(b, DOMAIN x.streams \ {k, r})

Lock(x, k) ==
    LET r == Reverse(k)
        a == QueueEarly([x EXCEPT !.srv = Pointer(x, k), !.lockAt = x.streams[k].last,
                                  !.locks = @ + 1, !.pair = k, !.streams[k].dir = Server], k)
        b == IF r \in DOMAIN x.streams THEN QueueEarly([a EXCEPT !.streams[r].dir = Client], r) ELSE a
    IN Drop(b, DOMAIN x.streams \ {k, r})

\* hunt: a known frame of a stream that is trusted counts toward the lock.
Hunt(x, k, f) ==
    LET s == x.streams[k]
        from   == IF f.resynced THEN 0 ELSE s.frames
        counts == f.op # "other" /\ f.trusted
        c == [x EXCEPT !.streams[k].frames = IF counts THEN from + 1 ELSE from]
        earned == \/ f.op = "combat" /\ from + 1 >= CombatFrames
                  \/ from + 1 >= KnownFrames
    IN IF s.dir # Hunting THEN x ELSE IF counts /\ earned THEN Lock(c, k) ELSE c

\* wait: the oldest give way when there are too many.
Wait(early, f) == LET e == Append(early, f)
                  IN IF Len(e) > MaxEarly THEN Tail(e) ELSE e

\* emit, of a decoder h that has looked whether the frame earns the lock.  Frames that pass
\* KnownOnly are numbered, as a history.
Sort(h, k, f) ==
    LET s == h.streams[k]
        frame == [key |-> k, born |-> s.born, number |-> s.emitted, dir |-> s.dir]
        e == [h EXCEPT !.streams[k].emitted = @ + 1]
    IN IF h.config.knownOnly /\ f.op = "other" THEN h
       ELSE IF s.dir = Client /\ ~h.config.emitClient THEN e
       ELSE IF s.dir = Hunting /\ ~h.config.emitUnlocked THEN [e EXCEPT !.streams[k].early = Wait(@, frame)]
       ELSE [e EXCEPT !.queue = Append(@, frame)]

Emit(x, k, f) == Sort(IF x.srv = Nil THEN Hunt(x, k, f) ELSE x, k, f)

EmitAll(x, k, frames) ==
    IF Len(frames) = 0 THEN x
    ELSE IF Len(frames) = 1 THEN Emit(x, k, frames[1])
    ELSE Emit(Emit(x, k, frames[1]), k, frames[2])

\* What reassembly and the framer make of bytes or of a gap given up: o = [frames, resyncs, held].
Take(x, k, o) ==
    EmitAll([x EXCEPT !.held = @ - x.streams[k].held + o.held,
                      !.streams[k].held = o.held,
                      !.streams[k].resyncs = @ + o.resyncs], k, o.frames)

-----------------------------------------------------------------------------
\* FeedSegment of an admitted segment, piece by piece.

\* Only with segments held, and on a stream that is known, can an ACK give up a gap.
Acked(x, k, o) == IF x.held > 0 /\ k \in DOMAIN x.streams THEN Take(x, k, o) ELSE x

\* A SYN that is not the stream's own means a new connection on the same ports.
Renew(x, k, t) == Stream(Drop(x, {k}), k, t)

Close(x, k, t) == [x EXCEPT !.closing = IF x.streams[k].closed = Open THEN @ + 1 ELSE @,
                            !.streams[k].closed = t]

Mark(x, k, t, ctl) ==
    LET m == [x EXCEPT !.streams[k].last = t, !.streams[k].synced = TRUE]
    IN IF ctl = "fin" THEN Close(m, k, t) ELSE m

\* The lock ends when one side of its pair closes, and the other side is closed with it.
LetGo(x, k, t) ==
    LET y == [x EXCEPT !.srv = Nil]
        r == Reverse(k)
    IN IF r \in DOMAIN x.streams /\ x.streams[r].closed = Open THEN Close(y, r, t) ELSE y

\* The stream a segment is for, before its payload is placed.  ctl is "none", "syn" for a SYN that
\* is the stream's own or its first, "renew" for any other SYN, and "fin" for a FIN or RST.
Found(x, k, t, ctl) == LET s == Stream(x, k, t) IN IF ctl = "renew" THEN Renew(s, k, t) ELSE s

LetGoIf(x, closes, k, t) == IF x.srv # Nil /\ closes THEN LetGo(x, k, t) ELSE x

Fed(x, k, t, ctl, payload, o, inOrder) ==
    LET m == Mark(x, k, t, ctl)
    IN LetGoIf(IF payload THEN Take(m, k, o) ELSE m,
               x.streams[k].synced /\ ctl = "fin" /\ inOrder, k, t)

-----------------------------------------------------------------------------
\* What may come back from the reassembly and the framer of a stream, at most two frames a time.

Bursts == {b \in {<<>>} \cup {<<f>> : f \in FrameKinds} \cup {<<f, g>> : f, g \in FrameKinds} :
              Len(b) <= MaxBurst}

Outcomes(upto) == [frames : Bursts, resyncs : 0 .. 1, held : 0 .. upto]

\* What giving up no gap comes to, or no payload.
Nothing(x, k) == [frames |-> <<>>, resyncs |-> 0,
                  held |-> IF k \in DOMAIN x.streams THEN x.streams[k].held ELSE 0]

\* An ACK may give up gaps only where segments are held, and then releases at least one.
AckOutcomes(x, k) ==
    {Nothing(x, k)} \cup
    IF k \in DOMAIN x.streams /\ x.streams[k].held > 0 THEN Outcomes(x.streams[k].held - 1) ELSE {}

\* A payload may be held or release what was.  A SYN carries none.
Placed(x, k, ctl) ==
    IF ctl \in {"none", "fin"} THEN Outcomes(x.streams[k].held + 1) ELSE {}

\* Whether a FIN or RST turns out to be next in order once its segment is placed.
InOrder(x, k, ctl) == IF ctl = "fin" /\ x.streams[k].synced THEN BOOLEAN ELSE {FALSE}

\* The bounds on what would grow without end.
Bounded(x) ==
    /\ x.born <= MaxBorn /\ x.locks <= MaxLocks
    /\ x.resyncs + x.clientResyncs <= MaxResyncs
    /\ \A k \in DOMAIN x.streams : /\ x.streams[k].emitted <= MaxFrames
                                   /\ x.streams[k].resyncs <= MaxResyncs
                                   /\ x.streams[k].held <= MaxPieces

-----------------------------------------------------------------------------
\* The steps.

Drained == [d EXCEPT !.queue = <<>>]

Becomes(x) == Bounded(x) /\ d' = x

At(t) == (Ordered => t >= now) /\ now' = t

\* FeedSegment and Feed begin alike, and end here while locked on another connection.
Swept(t) == Sweep(Drained, t)

Refuse(k, t) ==
    /\ phase = "reading"
    /\ ~Admits(Swept(t), k, t)
    /\ Becomes(Swept(t))
    /\ At(t)
    /\ UNCHANGED <<phase, flushing>>

HeedAck(a, k) == \E o \in AckOutcomes(a, Reverse(k)) : Becomes(Acked(a, Reverse(k), o))

\* A segment with neither payload nor SYN, FIN or RST.
BareAck(k, t) ==
    /\ phase = "reading"
    /\ Admits(Swept(t), k, t)
    /\ HeedAck(Admit(Swept(t), k, t), k)
    /\ At(t)
    /\ UNCHANGED <<phase, flushing>>

\* What follows the lookup of the stream, in s.
FeedStream(s, k, t, ctl) ==
    \E inOrder \in InOrder(s, k, ctl) :
        \/ \E p \in Placed(s, k, ctl) :
              /\ inOrder => p.held <= s.streams[k].held
              /\ Becomes(Fed(s, k, t, ctl, TRUE, p, inOrder))
        \/ ctl # "none" /\ Becomes(Fed(s, k, t, ctl, FALSE, Nothing(s, k), inOrder))

\* What follows admit, whose decoder is a.
FeedAdmitted(a, k, t) ==
    \E o \in AckOutcomes(a, Reverse(k)), ctl \in Controls \ {"feed"} :
        /\ ctl = "renew" => k \in DOMAIN a.streams /\ a.streams[k].synced
        /\ \E s \in {Found(Acked(a, Reverse(k), o), k, t, ctl)} : FeedStream(s, k, t, ctl)

FeedSegment(k, t) ==
    /\ phase = "reading"
    /\ Admits(Swept(t), k, t)
    /\ FeedAdmitted(Admit(Swept(t), k, t), k, t)
    /\ At(t)
    /\ UNCHANGED <<phase, flushing>>

\* Feed: a payload with no sequence number is handed to the framer as it is.
FeedPayload(s, k, t) ==
    \E o \in Outcomes(0) :
        Becomes(Take([s EXCEPT !.streams[k].last = t], k, [o EXCEPT !.held = s.streams[k].held]))

Feed(k, t) ==
    /\ phase = "reading" /\ "feed" \in Controls
    /\ Admits(Swept(t), k, t)
    /\ FeedPayload(Stream(Admit(Swept(t), k, t), k, t), k, t)
    /\ At(t)
    /\ UNCHANGED <<phase, flushing>>

\* Flush, a stream at a time in the order they were made.  A lock taken on the way drops the
\* streams it does not want, and at the end no frame waits any more.
Forgotten(x) == [x EXCEPT !.streams = [k \in DOMAIN x.streams |->
                                          [x.streams[k] EXCEPT !.early = <<>>]]]

BeginFlush ==
    /\ Ends /\ phase = "reading"
    /\ phase' = "flushing"
    /\ flushing' = DOMAIN d.streams
    /\ d' = Drained
    /\ UNCHANGED now

FlushTo(x, k) == Becomes(x) /\ flushing' = (flushing \ {k}) \cap DOMAIN x.streams

\* Mutant: streams that a lock dropped on the way are not passed over.
FlushStreamDropped ==
    /\ phase = "flushing"
    /\ \E k \in flushing :
          /\ \A j \in flushing : d.streams[k].born <= d.streams[j].born
          /\ \E o \in Outcomes(0) :
                flushing' = flushing \ {k} /\ Becomes(Take(Drained, k, o))
    /\ UNCHANGED <<phase, now>>

FlushStream ==
    /\ phase = "flushing"
    /\ \E k \in flushing :
          /\ \A j \in flushing : d.streams[k].born <= d.streams[j].born
          /\ \E o \in Outcomes(0) :
                FlushTo(Take(Drained, k, o), k)
    /\ UNCHANGED <<phase, now>>

EndFlush ==
    /\ phase = "flushing" /\ flushing = {}
    /\ phase' = "over"
    /\ d' = Forgotten(Drained)
    /\ UNCHANGED <<flushing, now>>

Init ==
    /\ \E c \in Configs :
       d = [config |-> c, streams |-> <<>>, srv |-> Nil, last |-> Nil, born |-> 0, closing |-> 0, held |-> 0,
            lockAt |-> 0, locks |-> 0, pair |-> NoKey, resyncs |-> 0, clientResyncs |-> 0,
            queue |-> <<>>]
    /\ phase = "reading" /\ flushing = {}
    /\ now = 0

Next ==
    \/ \E k \in Keys, t \in Times :
          \/ Refuse(k, t)
          \/ BareAck(k, t)
          \/ FeedSegment(k, t)
          \/ Feed(k, t)
    \/ BeginFlush
    \/ FlushStream
    \/ EndFlush

Spec == Init /\ [][Next]_vars

-----------------------------------------------------------------------------
\* Properties.

Frame == [key : Keys, born : Nat, number : Nat, dir : {Server, Client, Hunting}]
AStream == [dir : {Server, Client, Hunting}, last : Times, closed : Times \cup {Open}, born : Nat,
            frames : Nat, synced : BOOLEAN, held : Nat, resyncs : Nat, early : Seq(Frame),
            emitted : Nat]

Pointers == [key : Keys \cup {NoKey}, born : Nat]

\* Every field has its type.  held and the resync totals are sums: HeldCounted and
\* ResyncsNeverForgotten say what they are.
Fields(x) ==
    [config : Configs, streams : {x.streams}, srv : Pointers, last : Pointers, born : Nat,
     closing : Int, held : {x.held}, lockAt : Nat, locks : Nat, pair : Keys \cup {NoKey},
     resyncs : {x.resyncs}, clientResyncs : {x.clientResyncs}, queue : Seq(Frame)]

IsDecoder(x) ==
    /\ x \in Fields(x)
    /\ DOMAIN x.streams \subseteq Keys
    /\ \A k \in DOMAIN x.streams : x.streams[k] \in AStream

TypeOK ==
    /\ IsDecoder(d)
    /\ phase \in {"reading", "flushing", "over"}
    /\ flushing \subseteq DOMAIN d.streams
    /\ now \in Times \cup {0}

Alive(p, x) == p.key \in DOMAIN x.streams /\ p = Pointer(x, p.key)
Same(k) == k \in DOMAIN d.streams /\ k \in DOMAIN d'.streams /\ d.streams[k].born = d'.streams[k].born

PairHolds(x) ==
    x.srv # Nil =>
        /\ x.srv.key \in DOMAIN x.streams
        /\ x.streams[x.srv.key].dir = Server
        /\ \A k \in DOMAIN x.streams :
              k # x.srv.key => k = Reverse(x.srv.key) /\ x.streams[k].dir = Client

PointersHold(x) == /\ x.srv # Nil => Alive(x.srv, x)
                   /\ x.last # Nil => Alive(x.last, x)

\* While locked, the table holds the server side, with its direction, and at most the client side:
\* whatever was hunted, swept, renewed or closed in between (lock, admit, stream, drop).
LockedOnPair == PairHolds(d)

\* Neither of the decoder's pointers outlives its stream: the lock's server and the stream looked
\* up last are streams of the table, not ones dropped from it or made again on the same key.
NoDanglingPointer == PointersHold(d)

\* Only the pair that Stats names has directions, also after the lock has ended: so no more than
\* two streams are kept out of stalest's choice.
Directed(x) == {k \in DOMAIN x.streams : x.streams[k].dir # Hunting}

DirectionsAreThePairs == \A k \in Directed(d) : k = d.pair \/ Reverse(k) = d.pair

\* The table never outgrows maxStreams, and when it is full there is a hunting stream to drop:
\* stalest never returns nil for drop to follow.
RoomCanBeMade ==
    /\ Cardinality(DOMAIN d.streams) <= MaxStreams
    /\ Cardinality(DOMAIN d.streams) = MaxStreams =>
          \E k \in DOMAIN d.streams : d.streams[k].dir = Hunting

\* closing counts the streams that have seen a FIN or RST, through letGo's closing of the other
\* side, drops and renewals: sweep looks at nothing while it is 0.
ClosingCounted == d.closing = Cardinality({k \in DOMAIN d.streams : d.streams[k].closed # Open})

\* The table's bookkeeping, on which room for a new stream depends: stalest finds one to drop, and
\* sweep knows when there is one to drop (stream, stalest, sweep).
TableIsKept == RoomCanBeMade /\ ClosingCounted

\* held counts the segments held in every stream: FeedSegment heeds no ACK while it is 0.
HeldCounted == d.held = SumOf([k \in DOMAIN d.streams |-> d.streams[k].held], DOMAIN d.streams)

\* When the capture has ended nothing is left behind: every gap was given up and no frame waits,
\* also on the streams made before and after one that locked on the way (Flush).
FlushLeavesNothing ==
    phase = "over" => /\ d.held = 0
                      /\ \A k \in DOMAIN d.streams : d.streams[k].held = 0 /\ d.streams[k].early = <<>>

\* What is held is counted until nothing is: the counter beside the queues is never off, and
\* Flush, which frames may lock in the middle of, leaves none of them (hold, release, drop, Flush).
HeldToTheEnd == HeldCounted /\ FlushLeavesNothing

\* Frames wait for a lock only on hunting streams, at most maxEarly, and what is queued has a
\* direction unless EmitUnlocked asks for the rest (emit, queueEarly).
FramesWaitWhileHunting ==
    /\ \A k \in DOMAIN d.streams :
          /\ Len(d.streams[k].early) <= MaxEarly
          /\ d.streams[k].early # <<>> => d.streams[k].dir = Hunting /\ ~d.config.emitUnlocked
    /\ \A i \in DOMAIN d.queue :
          \/ d.queue[i].dir = Server
          \/ d.queue[i].dir = Client /\ d.config.emitClient
          \/ d.queue[i].dir = Hunting /\ d.config.emitUnlocked

\* The frames of a stream leave in the order its framer found them: those that waited for the
\* lock before the one that earned it, and none twice.
QueuedInOrder ==
    \A i, j \in DOMAIN d.queue :
        i < j /\ d.queue[i].born = d.queue[j].born => d.queue[i].number < d.queue[j].number

\* A lock loses nothing of the side it keeps: every frame the stream emits in the step is queued,
\* and so is every frame that waited, but those the limit maxEarly made give way before the lock:
\* the newest maxEarly frames are there, and on the server side the one that earned it besides.
LockKeepsWhatWaited ==
    [][\A k \in DOMAIN d'.streams :
        LET s == d'.streams[k]
            old == IF Same(k) THEN d.streams[k] ELSE [emitted |-> 0, early |-> <<>>]
            waited == {old.early[i].number : i \in DOMAIN old.early}
            queued == {d'.queue[i].number : i \in {j \in DOMAIN d'.queue : d'.queue[j].born = s.born}}
        IN s.dir = Server \/ (s.dir = Client /\ d.config.emitClient) =>
               \A n \in waited \cup (old.emitted .. s.emitted - 1) :
                   n >= s.emitted - MaxEarly - (IF s.dir = Server THEN 1 ELSE 0) => n \in queued]_vars

\* Frames wait only while hunting, leave in their order, and none is lost by the lock it waits for:
\* what queueEarly, emit and lock promise together.
FramesAreKept == /\ []FramesWaitWhileHunting
                 /\ []QueuedInOrder
                 /\ LockKeepsWhatWaited

\* The step comes after a silence of the server side longer than LockIdle.
Silent == now' - d.streams[d.srv.key].last > LockIdle

\* The lock ends only for a cause: its server or client side closed in this step, its server was
\* dropped (swept after its grace, or renewed by a SYN), or its server side was silent for LockIdle.
\* Another connection's traffic alone never ends it.
LockEndsForCause ==
    [][d.srv # Nil /\ d'.srv # d.srv =>
        \/ ~Alive(d.srv, d')
        \/ Silent
        \/ \E k \in DOMAIN d'.streams : k \in {d.srv.key, Reverse(d.srv.key)}
                                       /\ d'.streams[k].closed = now']_vars

\* A stream keeps its direction while a lock stands, and after the lock was let go until another is
\* found: the last frames of a closed connection are still marked right.
DirectionHolds ==
    [][\A k \in Keys :
        (/\ Same(k) /\ d.streams[k].dir # Hunting
         /\ d'.locks = d.locks
         /\ d.srv # Nil => Alive(d.srv, d') /\ ~Silent)
        => d'.streams[k].dir = d.streams[k].dir]_vars

\* Neither the lock nor a direction under it ends but for such a cause (admit, letGo, unlock).
OnlyACauseEndsIt == LockEndsForCause /\ DirectionHolds

\* The resyncs that Stats reports never go down, through unlocks, drops and locks that fold them
\* into the totals, and none is counted twice.  Nor do those of a side, but where a lock on the
\* connection let go finds its sides the other way round: the old server side counts as the client.
StatsResyncs(x, dir) ==
    Resyncs(x, DOMAIN x.streams, dir) + IF dir = Server THEN x.resyncs ELSE x.clientResyncs

Turned == d.pair # NoKey /\ d'.pair = Reverse(d.pair)

ResyncsNeverForgotten ==
    [][/\ StatsResyncs(d', Server) + StatsResyncs(d', Client)
             >= StatsResyncs(d, Server) + StatsResyncs(d, Client)
       /\ ~Turned => \A dir \in {Server, Client} : StatsResyncs(d', dir) >= StatsResyncs(d, dir)]_vars

\* The comment on lockAt, "the newest traffic on the lock": no stream of the pair has been heard
\* from since.
LockAtIsNewest ==
    d.srv # Nil => \A k \in DOMAIN d.streams : d.streams[k].last <= d.lockAt

\* The lock implements FlowLock: the frames that a step queues with a direction come from one
\* connection, the pair of the lock or the one it was last let go from, and while the table
\* forgets, renews and drops streams no other connection's frames are taken for the game's.
Connection(k) == {k, Reverse(k)}

Flow == INSTANCE FlowLock WITH
    Connections <- {Connection(k) : k \in Keys},
    None <- {},
    locked <- d.srv # Nil,
    game <- UNION {Connection(k) : k \in Directed(d)},
    sources <- {Connection(d.queue[i].key) : i \in {j \in DOMAIN d.queue : d.queue[j].dir # Hunting}}

ImplementsFlowLock == Flow!Spec
=============================================================================
