--------------------------- MODULE DecoderProofs ---------------------------
(***************************************************************************)
(* The decoder's table and lock for every set of keys, frames and times,   *)
(* and for every size, threshold and limit: the type invariant, that the   *)
(* lock's pair is all the table holds while it stands, that no pointer     *)
(* dangles, and that only the pair Stats names has directions; then that   *)
(* closing and held are true to the table, which has room, that the lock   *)
(* and the directions end only for a cause, and no resync is forgotten.    *)
(*                                                                         *)
(* Each method of Decoder has a lemma: it takes a decoder that is Sound to *)
(* one that is, and what it leaves alone.  Most of them leave alone all    *)
(* that the pointers and the pair are about (Alike).  The counts and the   *)
(* lock have lemmas of their own for each method, after those.             *)
(***************************************************************************)
EXTENDS Decoder, FiniteSetTheorems, Induction, TLAPS

Paired(x) == /\ PairHolds(x)
             /\ PointersHold(x)
             /\ \A k \in Directed(x) : k = x.pair \/ Reverse(k) = x.pair
             /\ x.srv # Nil => x.srv.key = x.pair

Sound(x) == IsDecoder(x) /\ Paired(x)

\* A step of the decoder that the pointers and the pair do not see.
Alike(x, y) == /\ y.srv = x.srv /\ y.last = x.last /\ y.pair = x.pair
               /\ DOMAIN y.streams = DOMAIN x.streams
               /\ \A k \in DOMAIN x.streams : /\ y.streams[k].dir = x.streams[k].dir
                                              /\ y.streams[k].born = x.streams[k].born

\* The connection that bytes on k belong to, when they are admitted.
Fits(x, k) == x.srv = Nil \/ InPair(x, k)

\* What neither pointers nor directions change keeps the pair.
LEMMA AlikePaired ==
    ASSUME NEW x, NEW y, Paired(x), Alike(x, y)
    PROVE  Paired(y)
<1>1. PairHolds(y)
  BY DEF Paired, Alike, PairHolds
<1>2. PointersHold(y)
  BY DEF Paired, Alike, PointersHold, Alive, Pointer
<1>3. Directed(y) = Directed(x)
  BY DEF Alike, Directed
<1> QED BY <1>1, <1>2, <1>3 DEF Paired, Alike

\* fold touches nothing but the resync counts.
LEMMA FoldAlike ==
    ASSUME NEW x, NEW S, IsDecoder(x)
    PROVE  IsDecoder(Fold(x, S)) /\ Alike(x, Fold(x, S))
<1> DEFINE y == Fold(x, S)
<1>1. y \in Fields(y)
  BY DEF Fields, IsDecoder, Fold
<1>2. y.streams = [k \in DOMAIN x.streams |-> IF k \in S THEN [x.streams[k] EXCEPT !.resyncs = 0]
                                             ELSE x.streams[k]]
  BY DEF IsDecoder, Fields, Fold
<1>3. \A k \in DOMAIN x.streams : /\ y.streams[k] \in AStream
                                  /\ y.streams[k].dir = x.streams[k].dir
                                  /\ y.streams[k].born = x.streams[k].born
  <2> SUFFICES ASSUME NEW k \in DOMAIN x.streams
               PROVE  /\ y.streams[k] \in AStream
                      /\ y.streams[k].dir = x.streams[k].dir
                      /\ y.streams[k].born = x.streams[k].born
    OBVIOUS
  <2>1. x.streams[k] \in AStream
    BY DEF IsDecoder, Fields
  <2>2. [x.streams[k] EXCEPT !.resyncs = 0] \in AStream
    BY <2>1 DEF AStream
  <2>3. /\ [x.streams[k] EXCEPT !.resyncs = 0].dir = x.streams[k].dir
        /\ [x.streams[k] EXCEPT !.resyncs = 0].born = x.streams[k].born
    BY <2>1 DEF AStream
  <2> QED BY <1>2, <2>1, <2>2, <2>3
<1>4. DOMAIN y.streams = DOMAIN x.streams
  BY <1>2
<1>5. y.srv = x.srv /\ y.last = x.last /\ y.pair = x.pair
  BY DEF IsDecoder, Fields, Fold
<1> QED BY <1>1, <1>3, <1>4, <1>5 DEF IsDecoder, Fields, Alike

\* unlock leaves every stream where it is, without a direction.
LEMMA UnlockSound ==
    ASSUME NEW x, IsDecoder(x), PointersHold(x)
    PROVE  /\ Sound(Unlock(x))
           /\ Unlock(x).srv = Nil /\ Unlock(x).last = x.last
           /\ DOMAIN Unlock(x).streams = DOMAIN x.streams
           /\ \A k \in DOMAIN x.streams : /\ Unlock(x).streams[k].born = x.streams[k].born
                                          /\ Unlock(x).streams[k].dir = Hunting
<1> DEFINE f == Fold(x, DOMAIN x.streams)
           y == Unlock(x)
<1>1. IsDecoder(f) /\ Alike(x, f)
  BY FoldAlike
<1> HIDE DEF f
<1>2. y = [f EXCEPT !.srv = Nil,
                    !.streams = [k \in DOMAIN f.streams |->
                                    [f.streams[k] EXCEPT !.dir = Hunting, !.frames = 0]]]
  BY DEF Unlock, f
<1>3. Nil \in Pointers
  BY DEF Nil, Pointers
<1>4. y \in Fields(y)
  BY <1>1, <1>2, <1>3 DEF Fields, IsDecoder
<1>5. /\ y.streams = [k \in DOMAIN f.streams |->
                         [f.streams[k] EXCEPT !.dir = Hunting, !.frames = 0]]
      /\ y.srv = Nil /\ y.last = f.last /\ y.pair = f.pair
  BY <1>1, <1>2 DEF IsDecoder, Fields
<1>6. \A k \in DOMAIN f.streams : /\ y.streams[k] \in AStream
                                  /\ y.streams[k].dir = Hunting
                                  /\ y.streams[k].born = f.streams[k].born
  <2> SUFFICES ASSUME NEW k \in DOMAIN f.streams
               PROVE  LET s == [f.streams[k] EXCEPT !.dir = Hunting, !.frames = 0]
                      IN s \in AStream /\ s.dir = Hunting /\ s.born = f.streams[k].born
    BY <1>5
  <2>1. f.streams[k] \in AStream
    BY <1>1 DEF IsDecoder
  <2> QED BY <2>1 DEF AStream
<1>7. DOMAIN y.streams = DOMAIN x.streams /\ DOMAIN f.streams = DOMAIN x.streams
  BY <1>1, <1>5 DEF Alike
<1>8. IsDecoder(y)
  BY <1>1, <1>4, <1>6, <1>7 DEF IsDecoder
<1>9. \A k \in DOMAIN x.streams : y.streams[k].born = x.streams[k].born /\ y.streams[k].dir = Hunting
  BY <1>1, <1>6, <1>7 DEF Alike
<1>10. y.last = x.last
  BY <1>1, <1>5 DEF Alike
<1>11. PairHolds(y) /\ Directed(y) = {}
  BY <1>5, <1>6, <1>7 DEF PairHolds, Directed
<1>12. PointersHold(y)
  BY <1>5, <1>7, <1>9, <1>10 DEF PointersHold, Alive, Pointer
<1> QED BY <1>5, <1>7, <1>8, <1>9, <1>10, <1>11, <1>12 DEF Sound, Paired

\* drop, of any streams: no pointer is left to one of them, and the lock ends with its server.
LEMMA DropHolds ==
    ASSUME NEW x, NEW S, NEW y, y = Drop(x, S),
           IsDecoder(x), PointersHold(x), IsFiniteSet(S)
    PROVE  /\ IsDecoder(y) /\ PointersHold(y)
           /\ DOMAIN y.streams = DOMAIN x.streams \ S
           /\ \/ /\ y.srv = Nil
                 /\ Directed(y) = {}
              \/ /\ y.srv = x.srv /\ y.pair = x.pair
                 /\ \A k \in DOMAIN y.streams :
                       y.streams[k].dir = x.streams[k].dir
           /\ x.srv.key \notin S => y.srv = x.srv
<1> DEFINE u == IF PointsInto(x, x.srv, S) THEN Unlock(x) ELSE x
           f == Fold(u, S)
           closed == {k \in S : x.streams[k].closed # Open}
<1>1. /\ IsDecoder(u) /\ u.last = x.last
      /\ PointsInto(x, x.srv, S) => u.srv = Nil /\ \A k \in DOMAIN x.streams : u.streams[k].dir = Hunting
      /\ ~PointsInto(x, x.srv, S) => u = x
      /\ DOMAIN u.streams = DOMAIN x.streams
      /\ \A k \in DOMAIN x.streams : u.streams[k].born = x.streams[k].born
  BY UnlockSound DEF Sound
<1> HIDE DEF u
<1>2. IsDecoder(f) /\ Alike(u, f)
  BY <1>1, FoldAlike
<1> HIDE DEF f
<1>3. y = [f EXCEPT !.closing = @ - Cardinality(closed),
                    !.last    = IF PointsInto(x, @, S) THEN Nil ELSE @,
                    !.held    = @ - SumOf([k \in S |-> x.streams[k].held], S),
                    !.streams = [k \in DOMAIN f.streams \ S |-> f.streams[k]]]
  BY DEF Drop, Without, f, u
<1>4. Cardinality(closed) \in Nat
  BY FS_Subset, FS_CardinalityType
<1> DEFINE closing == f.closing - Cardinality(closed)
           last == IF PointsInto(x, f.last, S) THEN Nil ELSE f.last
           held == f.held - SumOf([k \in S |-> x.streams[k].held], S)
           streams == [k \in DOMAIN f.streams \ S |-> f.streams[k]]
<1>5. y = [f EXCEPT !.closing = closing, !.last = last, !.held = held, !.streams = streams]
  BY <1>2, <1>3 DEF IsDecoder, Fields
<1>6. last \in Pointers
  BY <1>2 DEF IsDecoder, Fields, Nil, Pointers
<1>7. /\ DOMAIN streams = DOMAIN f.streams \ S
      /\ \A k \in DOMAIN streams : streams[k] = f.streams[k]
  OBVIOUS
<1>8. closing \in Int
  BY <1>2, <1>4 DEF IsDecoder, Fields
<1>9. last = IF PointsInto(x, x.last, S) THEN Nil ELSE x.last
  BY <1>1, <1>2 DEF Alike
<1> HIDE DEF closing, last, held, streams
<1>10. y \in Fields(y)
  BY <1>2, <1>5, <1>6, <1>8 DEF Fields, IsDecoder
<1>11. y.streams = streams /\ y.srv = f.srv /\ y.last = last /\ y.pair = f.pair
  BY <1>2, <1>5 DEF IsDecoder, Fields
<1>12. IsDecoder(y)
  BY <1>2, <1>7, <1>10, <1>11 DEF IsDecoder
<1>13. y.srv = u.srv /\ y.pair = u.pair /\ DOMAIN y.streams = DOMAIN u.streams \ S
  BY <1>2, <1>7, <1>11 DEF Alike
<1>14. \A k \in DOMAIN y.streams : y.streams[k].dir = u.streams[k].dir /\ y.streams[k].born = u.streams[k].born
  BY <1>2, <1>7, <1>11 DEF Alike
<1>15. y.srv # Nil => Alive(y.srv, y)
  BY <1>1, <1>13, <1>14 DEF PointersHold, Alive, Pointer, PointsInto
<1>16. y.last # Nil => Alive(y.last, y)
  BY <1>1, <1>9, <1>11, <1>13, <1>14 DEF PointersHold, Alive, Pointer, PointsInto
<1>17. CASE PointsInto(x, x.srv, S)
  <2>1. y.srv = Nil /\ Directed(y) = {}
    BY <1>1, <1>13, <1>14, <1>17 DEF Directed
  <2>2. x.srv.key \in S
    BY <1>17 DEF PointsInto
  <2>3. DOMAIN y.streams = DOMAIN x.streams \ S
    BY <1>1, <1>13
  <2> QED BY <1>12, <1>15, <1>16, <2>1, <2>2, <2>3 DEF PointersHold
<1>18. CASE ~PointsInto(x, x.srv, S)
  <2>1. y.srv = x.srv /\ y.pair = x.pair /\ DOMAIN y.streams = DOMAIN x.streams \ S
    BY <1>1, <1>13, <1>18
  <2>2. \A k \in DOMAIN y.streams : y.streams[k].dir = x.streams[k].dir
    BY <1>1, <1>14, <1>18
  <2> QED BY <1>12, <1>15, <1>16, <2>1, <2>2 DEF PointersHold
<1> QED BY <1>17, <1>18

\* drop keeps a sound decoder sound, its lock on or ended.
LEMMA DropSound ==
    ASSUME NEW x, NEW S, NEW y, y = Drop(x, S), Sound(x), IsFiniteSet(S)
    PROVE  Sound(y) /\ y.srv \in {x.srv, Nil} /\ DOMAIN y.streams = DOMAIN x.streams \ S
<1>1. IsDecoder(x) /\ PointersHold(x)
  BY DEF Sound, Paired
<1>2. /\ IsDecoder(y) /\ PointersHold(y) /\ DOMAIN y.streams = DOMAIN x.streams \ S
      /\ \/ y.srv = Nil /\ Directed(y) = {}
         \/ /\ y.srv = x.srv /\ y.pair = x.pair
            /\ \A k \in DOMAIN y.streams : y.streams[k].dir = x.streams[k].dir
  BY <1>1, DropHolds
<1>3. CASE y.srv = Nil /\ Directed(y) = {}
  BY <1>2, <1>3 DEF Sound, Paired, PairHolds
<1>4. CASE /\ y.srv = x.srv /\ y.pair = x.pair
           /\ \A k \in DOMAIN y.streams : y.streams[k].dir = x.streams[k].dir
  <2>1. PairHolds(y)
    BY <1>2, <1>4 DEF Sound, Paired, PairHolds, PointersHold, Alive
  <2>2. \A k \in Directed(y) : k = y.pair \/ Reverse(k) = y.pair
    BY <1>2, <1>4 DEF Sound, Paired, Directed
  <2>3. y.srv # Nil => y.srv.key = y.pair
    BY <1>4 DEF Sound, Paired
  <2> QED BY <1>2, <1>4, <2>1, <2>2, <2>3 DEF Sound, Paired
<1> QED BY <1>2, <1>3, <1>4

\* sweep is a drop of the streams whose grace is over.
LEMMA SweepSound ==
    ASSUME NEW x, NEW t, Sound(x)
    PROVE  /\ Sound(Sweep(x, t))
           /\ Sweep(x, t).srv \in {x.srv, Nil}
           /\ DOMAIN Sweep(x, t).streams \subseteq DOMAIN x.streams
<1> DEFINE S == {k \in DOMAIN x.streams :
                    x.streams[k].closed # Open /\ t - x.streams[k].closed >= CloseGrace}
<1>1. IsFiniteSet(S)
  BY DecoderAssumption, FS_Subset DEF Sound, IsDecoder
<1> HIDE DEF S
<1>2. /\ Sound(Drop(x, S)) /\ Drop(x, S).srv \in {x.srv, Nil}
      /\ DOMAIN Drop(x, S).streams = DOMAIN x.streams \ S
  BY <1>1, DropSound
<1> QED BY <1>2 DEF Sweep, S

\* admit lets through what fits the lock, the one it leaves.
LEMMA AdmitSound ==
    ASSUME NEW x, NEW k, NEW t \in Times, Sound(x), Admits(x, k, t)
    PROVE  Sound(Admit(x, k, t)) /\ Fits(Admit(x, k, t), k)
<1>1. CASE x.srv # Nil /\ InPair(x, k)
  <2> DEFINE lockAt == IF t > x.lockAt THEN t ELSE x.lockAt
             y == [x EXCEPT !.lockAt = lockAt]
  <2>1. lockAt \in Nat
    BY DecoderAssumption DEF Sound, IsDecoder, Fields
  <2> HIDE DEF lockAt
  <2>2. IsDecoder(y) /\ Alike(x, y)
    BY <2>1 DEF Sound, IsDecoder, Fields, Alike
  <2>3. Admit(x, k, t) = y
    BY <1>1 DEF Admit, lockAt, Sound, IsDecoder, Fields
  <2> QED BY <1>1, <2>2, <2>3, AlikePaired DEF Sound, Fits, InPair, Alike
<1>2. CASE x.srv = Nil
  BY <1>2 DEF Admit, Fits
<1>3. CASE x.srv # Nil /\ ~InPair(x, k)
  <2>1. Admit(x, k, t) = Unlock(x)
    BY <1>3 DEF Admit, Admits
  <2> QED BY <2>1, UnlockSound DEF Fits, Sound, Paired
<1> QED BY <1>1, <1>2, <1>3

\* Making room may end the lock but not move it.
LEMMA MakeRoomSound ==
    ASSUME NEW x, Sound(x)
    PROVE  /\ Sound(MakeRoom(x))
           /\ MakeRoom(x).srv \in {x.srv, Nil}
           /\ DOMAIN MakeRoom(x).streams \subseteq DOMAIN x.streams
<1>1. IsFiniteSet({Stalest(x)})
  BY FS_Singleton
<1> QED BY <1>1, DropSound DEF MakeRoom

\* A stream made while locked is the client side of the pair; made otherwise, it hunts.
LEMMA MakeSound ==
    ASSUME NEW x, NEW k \in Keys, NEW t \in Times, Sound(x), Fits(x, k), k \notin DOMAIN x.streams
    PROVE  /\ Sound(Make(x, k, t))
           /\ Make(x, k, t).srv = x.srv
           /\ k \in DOMAIN Make(x, k, t).streams
<1> DEFINE streams == [j \in DOMAIN x.streams \cup {k} |->
                          IF j = k THEN NewStream(x, t) ELSE x.streams[j]]
           last == [key |-> k, born |-> x.born]
           y == Make(x, k, t)
<1>1. NewStream(x, t) \in AStream
  <2>1. x.born \in Nat /\ <<>> \in Seq(Frame)
    BY DEF Sound, IsDecoder, Fields
  <2> QED BY <2>1 DEF NewStream, AStream
<1>2. /\ NewStream(x, t).dir = IF x.srv = Nil THEN Hunting ELSE Client
      /\ NewStream(x, t).born = x.born
  BY DEF NewStream
<1>3. last \in Pointers /\ last = [key |-> k, born |-> x.born] /\ x.born + 1 \in Nat
  BY DEF Pointers, Sound, IsDecoder, Fields
<1> DEFINE born == x.born + 1
<1>4. y = [x EXCEPT !.streams = streams, !.born = born, !.last = last]
  BY DEF Make, Sound, IsDecoder, Fields
<1>5. /\ DOMAIN streams = DOMAIN x.streams \cup {k}
      /\ streams[k] = NewStream(x, t)
      /\ \A j \in DOMAIN x.streams : streams[j] = x.streams[j]
  OBVIOUS
<1> HIDE DEF streams, last, born
<1>6. /\ y.streams = streams /\ y.last = last /\ y.srv = x.srv /\ y.pair = x.pair
      /\ y \in Fields(y)
  <2>1. born \in Nat
    BY <1>3 DEF born
  <2> QED BY <1>3, <1>4, <2>1 DEF Fields, Sound, IsDecoder
<1>7. IsDecoder(y)
  BY <1>1, <1>5, <1>6 DEF Sound, IsDecoder
<1>8. PointersHold(y)
  <2>1. Alive(y.last, y)
    BY <1>2, <1>3, <1>5, <1>6 DEF Alive, Pointer
  <2>2. y.srv # Nil => Alive(y.srv, y)
    BY <1>5, <1>6 DEF Sound, Paired, PointersHold, Alive, Pointer
  <2> QED BY <2>1, <2>2 DEF PointersHold
<1>9. x.srv # Nil => k = Reverse(x.srv.key) /\ k # x.srv.key
  <2> SUFFICES ASSUME x.srv # Nil
               PROVE  k = Reverse(x.srv.key) /\ k # x.srv.key
    OBVIOUS
  <2>1. x.srv.key \in DOMAIN x.streams /\ x.srv.key \in Keys
    BY DEF Sound, Paired, PairHolds, IsDecoder
  <2>2. k # x.srv.key
    BY <2>1
  <2>3. Reverse(k) = x.srv.key
    BY <2>2 DEF Fits, InPair
  <2> QED BY <2>2, <2>3, DecoderAssumption
<1>10. PairHolds(y)
  BY <1>2, <1>5, <1>6, <1>9 DEF Sound, Paired, PairHolds
<1>11. \A j \in Directed(y) : j = y.pair \/ Reverse(j) = y.pair
  <2> SUFFICES ASSUME NEW j \in Directed(y)
               PROVE  j = y.pair \/ Reverse(j) = y.pair
    OBVIOUS
  <2>1. CASE j = k
    <3>1. x.srv # Nil
      BY <1>2, <1>5, <1>6, <2>1 DEF Directed
    <3>2. x.srv.key = x.pair
      BY <3>1 DEF Sound, Paired
    <3> QED BY <1>6, <1>9, <2>1, <3>1, <3>2 DEF Fits, InPair
  <2>2. CASE j # k
    BY <1>5, <1>6, <2>2 DEF Directed, Sound, Paired
  <2> QED BY <2>1, <2>2
<1>12. y.srv # Nil => y.srv.key = y.pair
  BY <1>6 DEF Sound, Paired
<1> QED BY <1>5, <1>6, <1>7, <1>8, <1>10, <1>11, <1>12 DEF Sound, Paired

\* stream finds or makes the stream of an admitted key, and the lock still fits it.
LEMMA StreamSound ==
    ASSUME NEW x, NEW k \in Keys, NEW t \in Times, Sound(x), Fits(x, k)
    PROVE  /\ Sound(Stream(x, k, t))
           /\ Fits(Stream(x, k, t), k)
           /\ k \in DOMAIN Stream(x, k, t).streams
<1>1. CASE x.last.key = k
  <2>1. x.last # Nil
    BY <1>1, DecoderAssumption DEF Nil
  <2> QED BY <1>1, <2>1 DEF Stream, Sound, Paired, PointersHold, Alive
<1>2. CASE x.last.key # k /\ k \in DOMAIN x.streams
  <2> DEFINE y == [x EXCEPT !.last = Pointer(x, k)]
  <2>1. Pointer(x, k) \in Pointers /\ Pointer(x, k).key = k /\ Pointer(x, k).born = x.streams[k].born
    BY <1>2 DEF Pointer, Pointers, Sound, IsDecoder, AStream
  <2>2. IsDecoder(y) /\ y.srv = x.srv /\ y.streams = x.streams /\ y.pair = x.pair /\ y.last = Pointer(x, k)
    BY <2>1 DEF Sound, IsDecoder, Fields
  <2>3. PointersHold(y)
    BY <1>2, <2>1, <2>2 DEF Sound, Paired, PointersHold, Alive, Pointer
  <2>4. Sound(y)
    BY <2>2, <2>3 DEF Sound, Paired, PairHolds, Directed
  <2> QED BY <1>2, <2>2, <2>4 DEF Stream, Fits, InPair
<1>3. CASE x.last.key # k /\ k \notin DOMAIN x.streams
  <2> DEFINE m == MakeRoom(x)
  <2>1. Sound(m) /\ m.srv \in {x.srv, Nil} /\ k \notin DOMAIN m.streams
    BY <1>3, MakeRoomSound
  <2>2. Fits(m, k)
    BY <2>1 DEF Fits, InPair
  <2> HIDE DEF m
  <2>3. Sound(Make(m, k, t)) /\ Make(m, k, t).srv = m.srv /\ k \in DOMAIN Make(m, k, t).streams
    BY <2>1, <2>2, MakeSound
  <2>4. Stream(x, k, t) = Make(m, k, t)
    BY <1>3 DEF Stream, m
  <2> QED BY <2>2, <2>3, <2>4 DEF Fits, InPair
<1> QED BY <1>1, <1>2, <1>3

-----------------------------------------------------------------------------
\* Frames.

\* queueEarly moves waiting frames to the queue, and nothing else.
LEMMA QueueEarlyAlike ==
    ASSUME NEW x, NEW k, NEW y, y = QueueEarly(x, k), IsDecoder(x), k \in DOMAIN x.streams
    PROVE  IsDecoder(y) /\ Alike(x, y)
<1> DEFINE s == x.streams[k]
           found == [i \in DOMAIN s.early |-> [s.early[i] EXCEPT !.dir = s.dir]]
           queue == IF s.dir = Server \/ x.config.emitClient THEN x.queue \o found ELSE x.queue
           kept == [s EXCEPT !.early = <<>>]
           streams == [x.streams EXCEPT ![k] = kept]
<1>1. s \in AStream /\ x.queue \in Seq(Frame)
  BY DEF IsDecoder, Fields
<1>2. found \in Seq(Frame)
  <2>1. s.early \in Seq(Frame) /\ s.dir \in {Server, Client, Hunting}
    BY <1>1 DEF AStream
  <2>2. ASSUME NEW i \in DOMAIN s.early
        PROVE  [s.early[i] EXCEPT !.dir = s.dir] \in Frame
    <3>1. s.early[i] \in Frame
      BY <2>1
    <3> QED BY <2>1, <3>1 DEF Frame
  <2>3. DOMAIN s.early = 1 .. Len(s.early) /\ Len(s.early) \in Nat
    BY <2>1
  <2>4. found \in [1 .. Len(s.early) -> Frame]
    BY <2>2, <2>3
  <2> QED BY <2>3, <2>4
<1>3. queue \in Seq(Frame)
  BY <1>1, <1>2
<1>4. kept \in AStream /\ kept.dir = s.dir /\ kept.born = s.born
  <2>1. <<>> \in Seq(Frame)
    OBVIOUS
  <2> QED BY <1>1, <2>1 DEF AStream
<1>5. /\ DOMAIN streams = DOMAIN x.streams
      /\ \A j \in DOMAIN streams : streams[j] = IF j = k THEN kept ELSE x.streams[j]
  OBVIOUS
<1>6. y = [x EXCEPT !.queue = queue, !.streams = streams]
  BY DEF QueueEarly, IsDecoder, Fields
<1> HIDE DEF found, queue, kept, streams
<1>7. /\ y \in Fields(y) /\ y.streams = streams
      /\ y.srv = x.srv /\ y.last = x.last /\ y.pair = x.pair
  BY <1>3, <1>6 DEF IsDecoder, Fields
<1>8. IsDecoder(y)
  BY <1>1, <1>4, <1>5, <1>7 DEF IsDecoder
<1> QED BY <1>1, <1>4, <1>5, <1>7, <1>8 DEF Alike

\* lock: whatever the table held, it is left with the pair.
LEMMA LockSound ==
    ASSUME NEW x, NEW k, NEW y, y = Lock(x, k), Sound(x), k \in DOMAIN x.streams
    PROVE  /\ Sound(y) /\ k \in DOMAIN y.streams
           /\ y.srv # Nil /\ y.srv.key = k
<1> DEFINE r == Reverse(k)
           srv == Pointer(x, k)
           lockAt == x.streams[k].last
           server == [x.streams[k] EXCEPT !.dir = Server]
           streams == [x.streams EXCEPT ![k] = server]
           x1 == [x EXCEPT !.srv = Pointer(x, k), !.lockAt = x.streams[k].last,
                           !.locks = @ + 1, !.pair = k, !.streams[k].dir = Server]
           a == QueueEarly(x1, k)
           a1 == [a EXCEPT !.streams[r].dir = Client]
           b == IF r \in DOMAIN x.streams THEN QueueEarly(a1, r) ELSE a
           S == DOMAIN x.streams \ {k, r}
<1>1. /\ k \in Keys /\ r \in Keys /\ r # k /\ Reverse(r) = k
      /\ x.streams[k] \in AStream /\ NoKey \notin Keys
  BY DecoderAssumption DEF Sound, IsDecoder
<1>2. /\ srv \in Pointers /\ srv.key = k /\ srv # Nil /\ srv = [key |-> k, born |-> x.streams[k].born]
      /\ lockAt \in Nat
      /\ server \in AStream /\ server.dir = Server /\ server.born = x.streams[k].born
  BY <1>1, DecoderAssumption DEF Pointer, Pointers, Nil, AStream
<1>3. /\ DOMAIN streams = DOMAIN x.streams
      /\ \A j \in DOMAIN streams : streams[j] = IF j = k THEN server ELSE x.streams[j]
  OBVIOUS
<1> DEFINE locks == x.locks + 1
<1>4. locks \in Nat
  BY DEF Sound, IsDecoder, Fields
<1>5. x1 = [x EXCEPT !.srv = srv, !.lockAt = lockAt, !.locks = locks, !.pair = k, !.streams = streams]
  BY DEF Sound, IsDecoder, Fields
<1> HIDE DEF srv, lockAt, server, streams, locks, x1
<1>6. /\ x1 \in Fields(x1) /\ x1.streams = streams /\ x1.srv = srv /\ x1.pair = k
      /\ x1.last = x.last
  BY <1>1, <1>2, <1>4, <1>5 DEF Sound, IsDecoder, Fields
<1>7. IsDecoder(x1)
  BY <1>1, <1>2, <1>3, <1>6 DEF Sound, IsDecoder
<1>8. IsDecoder(a) /\ Alike(x1, a)
  BY <1>3, <1>6, <1>7, QueueEarlyAlike
<1> HIDE DEF a
<1>9. /\ DOMAIN a.streams = DOMAIN x.streams /\ a.srv = srv /\ a.last = x.last /\ a.pair = k
      /\ \A j \in DOMAIN a.streams : a.streams[j].born = x.streams[j].born
      /\ a.streams[k].dir = Server
  BY <1>2, <1>3, <1>6, <1>8 DEF Alike
<1>10. /\ IsDecoder(b) /\ DOMAIN b.streams = DOMAIN x.streams
       /\ b.srv = srv /\ b.last = x.last /\ b.pair = k
       /\ \A j \in DOMAIN b.streams : b.streams[j].born = x.streams[j].born
       /\ b.streams[k].dir = Server
       /\ r \in DOMAIN b.streams => b.streams[r].dir = Client
  <2>1. CASE r \notin DOMAIN x.streams
    BY <1>8, <1>9, <2>1
  <2>2. CASE r \in DOMAIN x.streams
    <3> DEFINE client == [a.streams[r] EXCEPT !.dir = Client]
               streams1 == [a.streams EXCEPT ![r] = client]
    <3>1. a.streams[r] \in AStream
      BY <1>8, <1>9, <2>2 DEF IsDecoder
    <3>2. client \in AStream /\ client.dir = Client /\ client.born = a.streams[r].born
      BY <3>1 DEF AStream
    <3>3. /\ DOMAIN streams1 = DOMAIN a.streams
          /\ \A j \in DOMAIN streams1 : streams1[j] = IF j = r THEN client ELSE a.streams[j]
      OBVIOUS
    <3>4. a1 = [a EXCEPT !.streams = streams1]
      BY <1>8 DEF IsDecoder, Fields
    <3> HIDE DEF client, streams1, a1
    <3>5. /\ a1 \in Fields(a1) /\ a1.streams = streams1
          /\ a1.srv = a.srv /\ a1.last = a.last /\ a1.pair = a.pair
      BY <1>8, <3>4 DEF IsDecoder, Fields
    <3>6. IsDecoder(a1)
      BY <1>8, <3>2, <3>3, <3>5 DEF IsDecoder
    <3>7. b = QueueEarly(a1, r) /\ r \in DOMAIN a1.streams
      BY <1>9, <2>2, <3>3, <3>5
    <3> HIDE DEF b
    <3>8. IsDecoder(b) /\ Alike(a1, b)
      BY <3>6, <3>7, QueueEarlyAlike
    <3> QED BY <1>1, <1>9, <2>2, <3>2, <3>3, <3>5, <3>8 DEF Alike
  <2> QED BY <2>1, <2>2
<1>11. y = Drop(b, S)
  BY DEF Lock, b, a1, a, x1
<1> HIDE DEF b
<1>12. PointersHold(b)
  <2>1. Alive(b.srv, b)
    BY <1>2, <1>10 DEF Alive, Pointer
  <2>2. b.last # Nil => Alive(b.last, b)
    BY <1>10 DEF Sound, Paired, PointersHold, Alive, Pointer
  <2> QED BY <2>1, <2>2 DEF PointersHold
<1>13. IsFiniteSet(S) /\ b.srv.key \notin S
  BY <1>2, <1>10, DecoderAssumption, FS_Subset DEF Sound, IsDecoder
<1> HIDE DEF S
<1>14. /\ IsDecoder(y) /\ PointersHold(y)
       /\ DOMAIN y.streams = DOMAIN b.streams \ S
       /\ \/ y.srv = Nil /\ Directed(y) = {}
          \/ /\ y.srv = b.srv /\ y.pair = b.pair
             /\ \A j \in DOMAIN y.streams : y.streams[j].dir = b.streams[j].dir
       /\ y.srv = b.srv
  <2>1. IsDecoder(b)
    BY <1>10
  <2> QED BY <2>1, <1>11, <1>12, <1>13, DropHolds
<1>15. /\ DOMAIN y.streams = DOMAIN x.streams \cap {k, r}
       /\ y.srv = srv /\ y.pair = k
       /\ y.streams[k].dir = Server
       /\ r \in DOMAIN y.streams => y.streams[r].dir = Client
  BY <1>2, <1>10, <1>14 DEF S
<1>16. PairHolds(y)
  BY <1>1, <1>2, <1>15 DEF PairHolds
<1>17. \A j \in Directed(y) : j = y.pair \/ Reverse(j) = y.pair
  BY <1>1, <1>15 DEF Directed
<1> QED BY <1>2, <1>14, <1>15, <1>16, <1>17 DEF Sound, Paired

\* What a frame or a payload on k makes of the lock: it stays, or there was none and k earns it.
Earned(x, y, k) == /\ Sound(y) /\ k \in DOMAIN y.streams
                   /\ y.srv = x.srv \/ (x.srv = Nil /\ y.srv # Nil /\ y.srv.key = k)

\* hunt, with no lock on, may take it for its own stream.
LEMMA HuntSound ==
    ASSUME NEW x, NEW k, NEW f, NEW y, y = Hunt(x, k, f), Sound(x), k \in DOMAIN x.streams,
           x.srv = Nil
    PROVE  Earned(x, y, k)
<1> DEFINE s == x.streams[k]
           from == IF f.resynced THEN 0 ELSE s.frames
           counts == f.op # "other" /\ f.trusted
           counted == [s EXCEPT !.frames = IF counts THEN from + 1 ELSE from]
           streams == [x.streams EXCEPT ![k] = counted]
           c == [x EXCEPT !.streams[k].frames = IF counts THEN from + 1 ELSE from]
<1>1. s \in AStream
  BY DEF Sound, IsDecoder
<1>2. from \in Nat /\ from + 1 \in Nat
  BY <1>1 DEF AStream
<1> HIDE DEF from, counts
<1>3. counted \in AStream /\ counted.dir = s.dir /\ counted.born = s.born
  BY <1>1, <1>2 DEF AStream
<1>4. /\ DOMAIN streams = DOMAIN x.streams
      /\ \A j \in DOMAIN streams : streams[j] = IF j = k THEN counted ELSE x.streams[j]
  OBVIOUS
<1>5. c = [x EXCEPT !.streams = streams]
  BY DEF Sound, IsDecoder, Fields
<1>6. y \in {x, c, Lock(c, k)}
  BY DEF Hunt, c, from, counts
<1> HIDE DEF counted, streams, c
<1>7. /\ c \in Fields(c) /\ c.streams = streams
      /\ c.srv = x.srv /\ c.last = x.last /\ c.pair = x.pair
  BY <1>5 DEF Sound, IsDecoder, Fields
<1>8. IsDecoder(c) /\ Alike(x, c)
  BY <1>1, <1>3, <1>4, <1>7 DEF Sound, IsDecoder, Alike
<1>9. Sound(c) /\ k \in DOMAIN c.streams
  BY <1>4, <1>7, <1>8, AlikePaired DEF Sound
<1>10. CASE y = Lock(c, k)
  BY <1>9, <1>10, LockSound DEF Earned
<1> QED BY <1>6, <1>7, <1>9, <1>10 DEF Earned

\* wait keeps what is a sequence of frames one.
LEMMA WaitType ==
    ASSUME NEW early \in Seq(Frame), NEW f \in Frame
    PROVE  Wait(early, f) \in Seq(Frame)
<1> DEFINE e == Append(early, f)
<1>1. e \in Seq(Frame) /\ Len(e) = Len(early) + 1 /\ Len(early) \in Nat
  OBVIOUS
<1> HIDE DEF e
<1>2. Tail(e) \in Seq(Frame)
  <2>1. e # <<>>
    BY <1>1
  <2> QED BY <1>1, <2>1
<1> QED BY <1>1, <1>2 DEF Wait, e

\* emit hunts first, and then drops, keeps or queues the frame.
LEMMA EmitSound ==
    ASSUME NEW x, NEW k, NEW f, NEW y, y = Emit(x, k, f), Sound(x), k \in DOMAIN x.streams
    PROVE  Earned(x, y, k)
<1> DEFINE h == IF x.srv = Nil THEN Hunt(x, k, f) ELSE x
           s == h.streams[k]
           frame == [key |-> k, born |-> s.born, number |-> s.emitted, dir |-> s.dir]
           e == [h EXCEPT !.streams[k].emitted = @ + 1]
           w == [e EXCEPT !.streams[k].early = Wait(@, frame)]
           q == [e EXCEPT !.queue = Append(@, frame)]
<1>1. Earned(x, h, k)
  <2>1. CASE x.srv = Nil
    <3>1. h = Hunt(x, k, f)
      BY <2>1
    <3> HIDE DEF h
    <3> QED BY <2>1, <3>1, HuntSound
  <2>2. CASE x.srv # Nil
    BY <2>2 DEF Earned
  <2> QED BY <2>1, <2>2
<1>2. y \in {h, e, w, q}
  BY DEF Emit, Sort
<1> HIDE DEF h
<1>3. Sound(h) /\ k \in DOMAIN h.streams
  BY <1>1 DEF Earned
<1>4. s \in AStream /\ k \in Keys
  BY <1>3 DEF Sound, IsDecoder
<1>5. frame \in Frame
  BY <1>4 DEF AStream, Frame
<1> HIDE DEF frame
<1> DEFINE emitted == [s EXCEPT !.emitted = @ + 1]
           waiting == [emitted EXCEPT !.early = Wait(@, frame)]
           streams == [h.streams EXCEPT ![k] = emitted]
           streams1 == [e.streams EXCEPT ![k] = waiting]
<1>6. emitted \in AStream /\ emitted.dir = s.dir /\ emitted.born = s.born
  <2> DEFINE count == s.emitted + 1
  <2>1. count \in Nat
    BY <1>4 DEF AStream
  <2>2. emitted = [s EXCEPT !.emitted = count]
    OBVIOUS
  <2> HIDE DEF count, emitted
  <2> QED BY <1>4, <2>1, <2>2 DEF AStream
<1>7. waiting \in AStream /\ waiting.dir = s.dir /\ waiting.born = s.born
  <2>1. emitted.early \in Seq(Frame)
    BY <1>6 DEF AStream
  <2>2. Wait(emitted.early, frame) \in Seq(Frame)
    BY <1>5, <2>1, WaitType
  <2> HIDE DEF emitted
  <2> QED BY <1>6, <2>2 DEF AStream
<1>8. /\ DOMAIN streams = DOMAIN h.streams
      /\ \A j \in DOMAIN streams : streams[j] = IF j = k THEN emitted ELSE h.streams[j]
  OBVIOUS
<1>9. e = [h EXCEPT !.streams = streams]
  BY <1>3 DEF Sound, IsDecoder, Fields
<1> HIDE DEF emitted, streams, e
<1>10. /\ e \in Fields(e) /\ e.streams = streams
       /\ e.srv = h.srv /\ e.last = h.last /\ e.pair = h.pair
  BY <1>3, <1>9 DEF Sound, IsDecoder, Fields
<1>11. IsDecoder(e) /\ Alike(h, e)
  BY <1>3, <1>6, <1>8, <1>10 DEF Sound, IsDecoder, Alike
<1>12. IsDecoder(w) /\ Alike(h, w)
  <2>1. e.streams[k] = emitted
    BY <1>3, <1>8, <1>10
  <2>2. w = [e EXCEPT !.streams = streams1]
    BY <1>11, <2>1 DEF IsDecoder, Fields
  <2>3. /\ DOMAIN streams1 = DOMAIN e.streams
        /\ \A j \in DOMAIN streams1 : streams1[j] = IF j = k THEN waiting ELSE e.streams[j]
    OBVIOUS
  <2> HIDE DEF waiting, streams1, w
  <2>4. /\ w \in Fields(w) /\ w.streams = streams1
        /\ w.srv = e.srv /\ w.last = e.last /\ w.pair = e.pair
    BY <1>11, <2>2 DEF IsDecoder, Fields
  <2> QED BY <1>7, <1>11, <2>3, <2>4 DEF IsDecoder, Alike
<1>13. IsDecoder(q) /\ Alike(h, q)
  <2>1. Append(e.queue, frame) \in Seq(Frame)
    BY <1>5, <1>11 DEF IsDecoder, Fields
  <2>2. /\ q \in Fields(q) /\ q.streams = e.streams
        /\ q.srv = e.srv /\ q.last = e.last /\ q.pair = e.pair
    BY <1>11, <2>1 DEF IsDecoder, Fields
  <2> QED BY <1>11, <2>2 DEF IsDecoder, Alike
<1> HIDE DEF w, q
<1>14. ASSUME NEW z \in {h, e, w, q}
       PROVE  Sound(z) /\ k \in DOMAIN z.streams /\ z.srv = h.srv
  <2>1. z = h \/ (IsDecoder(z) /\ Alike(h, z))
    BY <1>11, <1>12, <1>13
  <2> QED BY <1>3, <2>1, AlikePaired DEF Sound, Alike
<1> QED BY <1>1, <1>2, <1>14 DEF Earned

\* What the reassembly and the framer hand back is counted, and its frames emitted.
LEMMA TakeSound ==
    ASSUME NEW x, NEW k, NEW o, NEW y, y = Take(x, k, o), Sound(x), k \in DOMAIN x.streams,
           o.resyncs \in Nat, o.held \in Nat
    PROVE  Earned(x, y, k)
<1> DEFINE s == x.streams[k]
           taken == [s EXCEPT !.held = o.held, !.resyncs = @ + o.resyncs]
           streams == [x.streams EXCEPT ![k] = taken]
           held == x.held - s.held + o.held
           z == [x EXCEPT !.held = @ - x.streams[k].held + o.held,
                          !.streams[k].held = o.held,
                          !.streams[k].resyncs = @ + o.resyncs]
           e == Emit(z, k, o.frames[1])
<1>1. s \in AStream
  BY DEF Sound, IsDecoder
<1>2. taken \in AStream /\ taken.dir = s.dir /\ taken.born = s.born
  <2> DEFINE resyncs == s.resyncs + o.resyncs
  <2>1. resyncs \in Nat
    BY <1>1 DEF AStream
  <2>2. taken = [s EXCEPT !.held = o.held, !.resyncs = resyncs]
    BY <1>1 DEF AStream
  <2> HIDE DEF resyncs, taken
  <2> QED BY <1>1, <2>1, <2>2 DEF AStream
<1>3. /\ DOMAIN streams = DOMAIN x.streams
      /\ \A j \in DOMAIN streams : streams[j] = IF j = k THEN taken ELSE x.streams[j]
  OBVIOUS
<1>4. z = [x EXCEPT !.held = held, !.streams = streams]
  BY <1>1 DEF Sound, IsDecoder, Fields, AStream
<1>5. \/ y = z
      \/ y = e
      \/ y = Emit(e, k, o.frames[2])
  BY DEF Take, EmitAll
<1> HIDE DEF taken, streams, held, z, e
<1>6. /\ z \in Fields(z) /\ z.streams = streams
      /\ z.srv = x.srv /\ z.last = x.last /\ z.pair = x.pair
  BY <1>4 DEF Sound, IsDecoder, Fields
<1>7. IsDecoder(z) /\ Alike(x, z)
  BY <1>1, <1>2, <1>3, <1>6 DEF Sound, IsDecoder, Alike
<1>8. Sound(z) /\ k \in DOMAIN z.streams
  BY <1>3, <1>6, <1>7, AlikePaired DEF Sound
<1>9. Earned(z, e, k)
  BY <1>8, EmitSound DEF e
<1>10. CASE y = Emit(e, k, o.frames[2])
  <2>1. Sound(e) /\ k \in DOMAIN e.streams
    BY <1>9 DEF Earned
  <2>2. Earned(e, y, k)
    BY <1>10, <2>1, EmitSound
  <2> QED BY <1>6, <1>9, <2>2 DEF Earned
<1> QED BY <1>5, <1>6, <1>8, <1>9, <1>10 DEF Earned

\* acked may release frames of the other direction, and they may earn the lock.
LEMMA AckedSound ==
    ASSUME NEW x, NEW k, NEW o, NEW y, y = Acked(x, k, o), Sound(x),
           o.resyncs \in Nat, o.held \in Nat
    PROVE  Sound(y) /\ (y.srv = x.srv \/ (x.srv = Nil /\ y.srv # Nil /\ y.srv.key = k))
<1>1. CASE k \in DOMAIN x.streams /\ y = Take(x, k, o)
  BY <1>1, TakeSound DEF Earned
<1>2. CASE y = x
  BY <1>2
<1> QED BY <1>1, <1>2 DEF Acked

\* The closing of a stream, and all that FeedSegment notes of a segment, are about the stream alone.
LEMMA CloseAlike ==
    ASSUME NEW x, NEW k, NEW t \in Times, NEW y, y = Close(x, k, t), IsDecoder(x),
           k \in DOMAIN x.streams
    PROVE  IsDecoder(y) /\ Alike(x, y)
<1> DEFINE closed == [x.streams[k] EXCEPT !.closed = t]
           streams == [x.streams EXCEPT ![k] = closed]
           closing == IF x.streams[k].closed = Open THEN x.closing + 1 ELSE x.closing
<1>1. x.streams[k] \in AStream
  BY DEF IsDecoder
<1>2. closed \in AStream /\ closed.dir = x.streams[k].dir /\ closed.born = x.streams[k].born
  BY <1>1 DEF AStream
<1>3. closing \in Int
  BY DEF IsDecoder, Fields
<1>4. /\ DOMAIN streams = DOMAIN x.streams
      /\ \A j \in DOMAIN streams : streams[j] = IF j = k THEN closed ELSE x.streams[j]
  OBVIOUS
<1>5. y = [x EXCEPT !.closing = closing, !.streams = streams]
  BY DEF Close, IsDecoder, Fields
<1> HIDE DEF closed, streams, closing
<1>6. /\ y \in Fields(y) /\ y.streams = streams
      /\ y.srv = x.srv /\ y.last = x.last /\ y.pair = x.pair
  BY <1>3, <1>5 DEF IsDecoder, Fields
<1> QED BY <1>1, <1>2, <1>4, <1>6 DEF IsDecoder, Alike

\* FeedSegment notes the time, the place and the FIN of a segment on its stream.
LEMMA MarkSound ==
    ASSUME NEW x, NEW k, NEW t \in Times, NEW ctl, NEW y, y = Mark(x, k, t, ctl), Sound(x),
           k \in DOMAIN x.streams
    PROVE  Sound(y) /\ k \in DOMAIN y.streams /\ y.srv = x.srv
<1> DEFINE marked == [x.streams[k] EXCEPT !.last = t, !.synced = TRUE]
           streams == [x.streams EXCEPT ![k] = marked]
           m == [x EXCEPT !.streams[k].last = t, !.streams[k].synced = TRUE]
<1>1. x.streams[k] \in AStream
  BY DEF Sound, IsDecoder
<1>2. marked \in AStream /\ marked.dir = x.streams[k].dir /\ marked.born = x.streams[k].born
  BY <1>1 DEF AStream
<1>3. /\ DOMAIN streams = DOMAIN x.streams
      /\ \A j \in DOMAIN streams : streams[j] = IF j = k THEN marked ELSE x.streams[j]
  OBVIOUS
<1>4. m = [x EXCEPT !.streams = streams]
  BY <1>1 DEF Sound, IsDecoder, Fields, AStream
<1>5. y = m \/ y = Close(m, k, t)
  BY DEF Mark
<1> HIDE DEF marked, streams, m
<1>6. /\ m \in Fields(m) /\ m.streams = streams
      /\ m.srv = x.srv /\ m.last = x.last /\ m.pair = x.pair
  BY <1>4 DEF Sound, IsDecoder, Fields
<1>7. IsDecoder(m) /\ Alike(x, m)
  BY <1>1, <1>2, <1>3, <1>6 DEF Sound, IsDecoder, Alike
<1>8. k \in DOMAIN m.streams
  BY <1>3, <1>6
<1>9. y = m \/ (IsDecoder(y) /\ Alike(m, y))
  BY <1>5, <1>7, <1>8, CloseAlike
<1>10. Paired(m)
  BY <1>7, AlikePaired DEF Sound
<1>11. Sound(y)
  BY <1>7, <1>9, <1>10, AlikePaired DEF Sound
<1> QED BY <1>6, <1>8, <1>9, <1>11 DEF Alike

\* Feed notes the time only.
LEMMA HeardSound ==
    ASSUME NEW x, NEW k, NEW t \in Times, NEW y, y = [x EXCEPT !.streams[k].last = t], Sound(x),
           k \in DOMAIN x.streams
    PROVE  Sound(y) /\ k \in DOMAIN y.streams
<1> DEFINE heard == [x.streams[k] EXCEPT !.last = t]
           streams == [x.streams EXCEPT ![k] = heard]
<1>1. x.streams[k] \in AStream
  BY DEF Sound, IsDecoder
<1>2. heard \in AStream /\ heard.dir = x.streams[k].dir /\ heard.born = x.streams[k].born
  BY <1>1 DEF AStream
<1>3. /\ DOMAIN streams = DOMAIN x.streams
      /\ \A j \in DOMAIN streams : streams[j] = IF j = k THEN heard ELSE x.streams[j]
  OBVIOUS
<1>4. y = [x EXCEPT !.streams = streams]
  BY DEF Sound, IsDecoder, Fields
<1> HIDE DEF heard, streams
<1>5. /\ y \in Fields(y) /\ y.streams = streams
      /\ y.srv = x.srv /\ y.last = x.last /\ y.pair = x.pair
  BY <1>4 DEF Sound, IsDecoder, Fields
<1>6. IsDecoder(y) /\ Alike(x, y)
  BY <1>1, <1>2, <1>3, <1>5 DEF Sound, IsDecoder, Alike
<1> QED BY <1>3, <1>5, <1>6, AlikePaired DEF Sound

\* letGo ends the lock, and leaves the directions and the pair.
LEMMA LetGoSound ==
    ASSUME NEW x, NEW k, NEW t \in Times, NEW y, y = LetGo(x, k, t), Sound(x)
    PROVE  Sound(y) /\ y.srv = Nil
<1> DEFINE z == [x EXCEPT !.srv = Nil]
           r == Reverse(k)
<1>1. Nil \in Pointers
  BY DEF Nil, Pointers
<1>2. /\ z \in Fields(z) /\ z.streams = x.streams /\ z.srv = Nil
      /\ z.last = x.last /\ z.pair = x.pair
  BY <1>1 DEF Sound, IsDecoder, Fields
<1>3. y = z \/ (r \in DOMAIN x.streams /\ y = Close(z, r, t))
  BY DEF LetGo
<1> HIDE DEF z
<1>4. IsDecoder(z)
  BY <1>2 DEF Sound, IsDecoder
<1>5. Paired(z)
  BY <1>2 DEF Sound, Paired, PairHolds, PointersHold, Alive, Pointer, Directed
<1>6. y = z \/ (IsDecoder(y) /\ Alike(z, y))
  BY <1>2, <1>3, <1>4, CloseAlike
<1> QED BY <1>2, <1>4, <1>5, <1>6, AlikePaired DEF Sound, Alike

-----------------------------------------------------------------------------
\* FeedSegment.

\* FeedSegment's lookup, renewed by a SYN or not, ends with the stream in the table.
LEMMA FoundSound ==
    ASSUME NEW x, NEW k \in Keys, NEW t \in Times, NEW ctl, NEW y, y = Found(x, k, t, ctl),
           Sound(x), Fits(x, k)
    PROVE  Sound(y) /\ k \in DOMAIN y.streams
<1> DEFINE s == Stream(x, k, t)
           e == Drop(s, {k})
<1>1. Sound(s) /\ Fits(s, k) /\ k \in DOMAIN s.streams
  BY StreamSound
<1>2. y = s \/ y = Stream(e, k, t)
  BY DEF Found, Renew
<1> HIDE DEF s
<1>3. Sound(e) /\ e.srv \in {s.srv, Nil}
  BY <1>1, DropSound, FS_Singleton
<1> HIDE DEF e
<1>4. Fits(e, k)
  BY <1>1, <1>3 DEF Fits, InPair
<1>5. Sound(Stream(e, k, t)) /\ k \in DOMAIN Stream(e, k, t).streams
  BY <1>3, <1>4, StreamSound
<1> QED BY <1>1, <1>2, <1>5

\* The rest of FeedSegment: what is noted, what is placed, and the lock let go.
LEMMA FedSound ==
    ASSUME NEW x, NEW k, NEW t \in Times, NEW ctl, NEW payload, NEW o, NEW inOrder,
           Sound(x), k \in DOMAIN x.streams, o.resyncs \in Nat, o.held \in Nat
    PROVE  Sound(Fed(x, k, t, ctl, payload, o, inOrder))
<1> DEFINE y == Fed(x, k, t, ctl, payload, o, inOrder)
           m == Mark(x, k, t, ctl)
           p == IF payload THEN Take(m, k, o) ELSE m
<1>1. Sound(m) /\ k \in DOMAIN m.streams
  BY MarkSound
<1>2. y = p \/ y = LetGo(p, k, t)
  BY DEF Fed, LetGoIf
<1> HIDE DEF m, y
<1>3. Sound(p)
  BY <1>1, TakeSound DEF Earned
<1> HIDE DEF p
<1>4. Sound(y)
  BY <1>2, <1>3, LetGoSound
<1> QED BY <1>4 DEF y

-----------------------------------------------------------------------------
\* The steps.

IInv == TypeOK /\ Paired(d) /\ (phase = "reading" => flushing = {})

\* Both what reassembly hands back and what a segment without payload does.
LEMMA OutcomeType ==
    ASSUME NEW x, NEW k, NEW n, NEW o, IsDecoder(x),
           o \in Outcomes(n) \/ o = Nothing(x, k) \/ o \in AckOutcomes(x, k)
    PROVE  o.resyncs \in Nat /\ o.held \in Nat
<1>1. Nothing(x, k).resyncs \in Nat /\ Nothing(x, k).held \in Nat
  <2>1. k \in DOMAIN x.streams => x.streams[k].held \in Nat
    BY DEF IsDecoder, AStream
  <2> QED BY <2>1 DEF Nothing
<1>2. ASSUME NEW u, o \in Outcomes(u)
      PROVE  o.resyncs \in Nat /\ o.held \in Nat
  BY <1>2 DEF Outcomes
<1>3. CASE o \in AckOutcomes(x, k)
  BY <1>1, <1>2, <1>3 DEF AckOutcomes
<1> QED BY <1>1, <1>2, <1>3

\* The queue is emptied between two steps.
LEMMA DrainedSound ==
    ASSUME Sound(d)
    PROVE  Sound(Drained) /\ Drained.streams = d.streams /\ Drained.srv = d.srv
<1>1. <<>> \in Seq(Frame)
  OBVIOUS
<1>2. /\ Drained \in Fields(Drained) /\ Drained.streams = d.streams /\ Drained.srv = d.srv
      /\ Drained.last = d.last /\ Drained.pair = d.pair
  BY <1>1 DEF Drained, Sound, IsDecoder, Fields
<1>3. IsDecoder(Drained) /\ Alike(d, Drained)
  BY <1>2 DEF Sound, IsDecoder, Alike
<1> QED BY <1>2, <1>3, AlikePaired DEF Sound

\* Every segment begins with a sweep of the drained decoder.
LEMMA SweptSound ==
    ASSUME NEW t, Sound(d)
    PROVE  Sound(Swept(t))
BY DrainedSound, SweepSound DEF Swept

\* At the end the frames that waited are forgotten.
LEMMA ForgottenSound ==
    ASSUME NEW x, NEW y, y = Forgotten(x), Sound(x)
    PROVE  Sound(y) /\ DOMAIN y.streams = DOMAIN x.streams
<1> DEFINE streams == [k \in DOMAIN x.streams |-> [x.streams[k] EXCEPT !.early = <<>>]]
<1>1. \A k \in DOMAIN x.streams : /\ streams[k] \in AStream
                                  /\ streams[k].dir = x.streams[k].dir
                                  /\ streams[k].born = x.streams[k].born
  <2> SUFFICES ASSUME NEW k \in DOMAIN x.streams
               PROVE  LET s == [x.streams[k] EXCEPT !.early = <<>>]
                      IN s \in AStream /\ s.dir = x.streams[k].dir /\ s.born = x.streams[k].born
    OBVIOUS
  <2>1. x.streams[k] \in AStream /\ <<>> \in Seq(Frame)
    BY DEF Sound, IsDecoder
  <2> QED BY <2>1 DEF AStream
<1>2. DOMAIN streams = DOMAIN x.streams
  OBVIOUS
<1>3. y = [x EXCEPT !.streams = streams]
  BY DEF Forgotten
<1> HIDE DEF streams
<1>4. /\ y \in Fields(y) /\ y.streams = streams
      /\ y.srv = x.srv /\ y.last = x.last /\ y.pair = x.pair
  BY <1>3 DEF Sound, IsDecoder, Fields
<1>5. IsDecoder(y) /\ Alike(x, y)
  BY <1>1, <1>2, <1>4 DEF Sound, IsDecoder, Alike
<1> QED BY <1>2, <1>4, <1>5, AlikePaired DEF Sound

\* A new decoder has an empty table and no lock.
LEMMA InitHolds == Init => IInv
<1> SUFFICES ASSUME Init PROVE IInv
  OBVIOUS
<1>1. Nil \in Pointers /\ <<>> \in Seq(Frame)
  BY DEF Nil, Pointers
<1>2. PICK c \in Configs :
         d = [config |-> c, streams |-> <<>>, srv |-> Nil, last |-> Nil, born |-> 0, closing |-> 0,
              held |-> 0, lockAt |-> 0, locks |-> 0, pair |-> NoKey, resyncs |-> 0,
              clientResyncs |-> 0, queue |-> <<>>]
  BY DEF Init
<1>3. d.streams = <<>> /\ d.srv = Nil /\ d.last = Nil
  BY <1>2
<1>4. DOMAIN d.streams = {}
  BY <1>3
<1>5. d \in Fields(d)
  BY <1>1, <1>2 DEF Fields
<1>6. TypeOK
  BY <1>4, <1>5 DEF Init, TypeOK, IsDecoder
<1>7. Paired(d)
  BY <1>3, <1>4 DEF Paired, PairHolds, PointersHold, Directed
<1> QED BY <1>6, <1>7 DEF Init, IInv

\* A step of the capture, or of its flush: what it becomes is Sound.
LEMMA NextHolds == IInv /\ [Next]_vars => IInv'
<1> SUFFICES ASSUME IInv, [Next]_vars PROVE IInv'
  OBVIOUS
<1>1. Sound(d)
  BY DEF IInv, TypeOK, Sound
<1>2. ASSUME Sound(d'), phase' \in {"reading", "flushing", "over"}, now' \in Times \cup {0},
             flushing' \subseteq DOMAIN d'.streams, phase' = "reading" => flushing' = {}
      PROVE  IInv'
  BY <1>2 DEF IInv, TypeOK, Sound, IsDecoder, Fields, Paired, PairHolds, PointersHold, Directed,
              Alive, Pointer
<1>3. ASSUME NEW t \in Times, Sound(d'), phase = "reading", At(t), UNCHANGED <<phase, flushing>>
      PROVE  IInv'
  BY <1>2, <1>3 DEF IInv, At
<1>4. ASSUME NEW k \in Keys, NEW t \in Times, Refuse(k, t)
      PROVE  IInv'
  <2>1. Sound(d')
    BY <1>1, <1>4, SweptSound DEF Refuse, Becomes
  <2> QED BY <1>3, <1>4, <2>1 DEF Refuse
<1>5. ASSUME NEW k \in Keys, NEW t \in Times, Admits(Swept(t), k, t)
      PROVE  Sound(Admit(Swept(t), k, t)) /\ Fits(Admit(Swept(t), k, t), k)
  BY <1>1, <1>5, SweptSound, AdmitSound
<1>6. ASSUME NEW k \in Keys, NEW t \in Times, BareAck(k, t)
      PROVE  IInv'
  <2> DEFINE a == Admit(Swept(t), k, t)
  <2>1. Sound(a)
    BY <1>5, <1>6 DEF BareAck
  <2>2. PICK o \in AckOutcomes(a, Reverse(k)) : d' = Acked(a, Reverse(k), o)
    BY <1>6 DEF BareAck, HeedAck, Becomes
  <2> HIDE DEF a
  <2>3. o.resyncs \in Nat /\ o.held \in Nat
    BY <2>1, OutcomeType DEF Sound
  <2>4. Sound(d')
    BY <2>1, <2>2, <2>3, AckedSound
  <2> QED BY <1>3, <1>6, <2>4 DEF BareAck
<1>7. ASSUME NEW k \in Keys, NEW t \in Times, FeedSegment(k, t)
      PROVE  IInv'
  <2> DEFINE a == Admit(Swept(t), k, t)
  <2>1. Sound(a) /\ Fits(a, k)
    BY <1>5, <1>7 DEF FeedSegment
  <2>2. PICK o \in AckOutcomes(a, Reverse(k)), ctl \in Controls \ {"feed"} :
           LET s == Found(Acked(a, Reverse(k), o), k, t, ctl)
           IN \E inOrder \in InOrder(s, k, ctl) :
                 \/ \E p \in Placed(s, k, ctl) : d' = Fed(s, k, t, ctl, TRUE, p, inOrder)
                 \/ d' = Fed(s, k, t, ctl, FALSE, Nothing(s, k), inOrder)
    BY <1>7 DEF FeedSegment, FeedAdmitted, FeedStream, Becomes
  <2> HIDE DEF a
  <2> DEFINE b == Acked(a, Reverse(k), o)
             s == Found(b, k, t, ctl)
  <2>3. o.resyncs \in Nat /\ o.held \in Nat
    BY <2>1, OutcomeType DEF Sound
  <2>4. Sound(b) /\ Fits(b, k)
    <3>1. Sound(b) /\ (b.srv = a.srv \/ (b.srv # Nil /\ b.srv.key = Reverse(k)))
      BY <2>1, <2>3, AckedSound
    <3> QED BY <2>1, <3>1 DEF Fits, InPair
  <2> HIDE DEF b
  <2>5. Sound(s) /\ k \in DOMAIN s.streams
    BY <2>4, FoundSound
  <2>6. PICK inOrder : \/ \E p \in Placed(s, k, ctl) : d' = Fed(s, k, t, ctl, TRUE, p, inOrder)
                       \/ d' = Fed(s, k, t, ctl, FALSE, Nothing(s, k), inOrder)
    BY <2>2 DEF b
  <2> HIDE DEF s
  <2>7. CASE \E p \in Placed(s, k, ctl) : d' = Fed(s, k, t, ctl, TRUE, p, inOrder)
    <3>1. PICK p \in Placed(s, k, ctl) : d' = Fed(s, k, t, ctl, TRUE, p, inOrder)
      BY <2>7
    <3>2. p \in Outcomes(s.streams[k].held + 1)
      BY <3>1 DEF Placed
    <3>3. p.resyncs \in Nat /\ p.held \in Nat
      BY <2>5, <3>2, OutcomeType DEF Sound
    <3>4. Sound(Fed(s, k, t, ctl, TRUE, p, inOrder))
      BY <2>5, <3>3, FedSound, Zenon
    <3>5. Sound(d')
      BY <3>1, <3>4
    <3> QED BY <1>3, <1>7, <3>5 DEF FeedSegment
  <2>8. CASE d' = Fed(s, k, t, ctl, FALSE, Nothing(s, k), inOrder)
    <3>1. Nothing(s, k).resyncs \in Nat /\ Nothing(s, k).held \in Nat
      BY <2>5, OutcomeType DEF Sound
    <3>2. Sound(Fed(s, k, t, ctl, FALSE, Nothing(s, k), inOrder))
      BY <2>5, <3>1, FedSound, Zenon
    <3>3. Sound(d')
      BY <2>8, <3>2
    <3> QED BY <1>3, <1>7, <3>3 DEF FeedSegment
  <2> QED BY <2>6, <2>7, <2>8
<1>8. ASSUME NEW k \in Keys, NEW t \in Times, Feed(k, t)
      PROVE  IInv'
  <2> DEFINE a == Admit(Swept(t), k, t)
             s == Stream(a, k, t)
             fed == [s EXCEPT !.streams[k].last = t]
  <2>1. Sound(a) /\ Fits(a, k)
    BY <1>5, <1>8 DEF Feed
  <2>2. PICK o \in Outcomes(0) : d' = Take(fed, k, [o EXCEPT !.held = s.streams[k].held])
    BY <1>8 DEF Feed, FeedPayload, Becomes
  <2> HIDE DEF a
  <2>3. Sound(s) /\ k \in DOMAIN s.streams
    BY <2>1, StreamSound
  <2> HIDE DEF s
  <2> DEFINE p == [o EXCEPT !.held = s.streams[k].held]
  <2>4. p.resyncs \in Nat /\ p.held \in Nat
    <3>1. s.streams[k].held \in Nat
      BY <2>3 DEF Sound, IsDecoder, AStream
    <3> QED BY <3>1 DEF Outcomes
  <2> HIDE DEF p
  <2>5. Sound(fed) /\ k \in DOMAIN fed.streams
    BY <2>3, HeardSound
  <2> HIDE DEF fed
  <2>6. d' = Take(fed, k, p)
    BY <2>2 DEF p
  <2>7. Sound(d')
    BY <2>4, <2>5, <2>6, TakeSound DEF Earned
  <2> QED BY <1>3, <1>8, <2>7 DEF Feed
<1>9. CASE BeginFlush
  <2>1. Sound(d') /\ d'.streams = d.streams
    BY <1>1, <1>9, DrainedSound DEF BeginFlush
  <2> QED BY <1>2, <1>9, <2>1 DEF BeginFlush, IInv, TypeOK
<1>10. CASE FlushStream
  <2>1. PICK k \in flushing, o \in Outcomes(0) :
           /\ d' = Take(Drained, k, o)
           /\ flushing' = (flushing \ {k}) \cap DOMAIN d'.streams
    BY <1>10 DEF FlushStream, FlushTo, Becomes
  <2>2. Sound(Drained) /\ k \in DOMAIN Drained.streams
    BY <1>1, DrainedSound DEF IInv, TypeOK
  <2>3. o.resyncs \in Nat /\ o.held \in Nat
    BY <2>2, OutcomeType DEF Sound
  <2>4. Sound(d')
    BY <2>1, <2>2, <2>3, TakeSound DEF Earned
  <2> QED BY <1>2, <1>10, <2>1, <2>4 DEF FlushStream, FlushTo, IInv, TypeOK
<1>11. CASE EndFlush
  <2>1. Sound(d')
    BY <1>1, <1>11, DrainedSound, ForgottenSound DEF EndFlush
  <2> QED BY <1>2, <1>11, <2>1 DEF EndFlush, IInv, TypeOK
<1>12. CASE UNCHANGED vars
  BY <1>1, <1>2, <1>12 DEF vars, IInv, TypeOK
<1> QED BY <1>4, <1>6, <1>7, <1>8, <1>9, <1>10, <1>11, <1>12 DEF Next

\* What the table and the lock look like in every state: the four theorems share it.
LEMMA Holds == Spec => []IInv
BY InitHolds, NextHolds, PTL DEF Spec

\* Every reachable decoder has its type, whatever segments come, in whatever order and with
\* whatever times.
THEOREM TypeCorrect == Spec => []TypeOK
<1>1. IInv => TypeOK
  BY DEF IInv
<1> QED BY <1>1, Holds, PTL

\* While locked, the table is the pair: the invariant for any number of connections and streams.
THEOREM LockHoldsPair == Spec => []LockedOnPair
<1>1. IInv => LockedOnPair
  BY DEF IInv, Paired, LockedOnPair
<1> QED BY <1>1, Holds, PTL

\* srv and last never point to a stream that was dropped, or made again, since they were set.
THEOREM PointersAreAlive == Spec => []NoDanglingPointer
<1>1. IInv => NoDanglingPointer
  BY DEF IInv, Paired, NoDanglingPointer
<1> QED BY <1>1, Holds, PTL

\* Only streams of the pair that Stats names have a direction, while locked and after.
THEOREM OnlyThePairHasDirections == Spec => []DirectionsAreThePairs
<1>1. IInv => DirectionsAreThePairs
  BY DEF IInv, Paired, DirectionsAreThePairs
<1> QED BY <1>1, Holds, PTL

-----------------------------------------------------------------------------
\* Sums.

Counts(f, S) == \A k \in S : f[k] \in Nat
Things(f, S) == UNION {{k} \X (1 .. f[k]) : k \in S}

LEMMA ThingsAre ==
    ASSUME NEW f, NEW S
    PROVE  \A p : p \in Things(f, S) <=> \E k \in S : \E i \in 1 .. f[k] : p = <<k, i>>
<1> SUFFICES ASSUME NEW p PROVE p \in Things(f, S) <=> \E k \in S : \E i \in 1 .. f[k] : p = <<k, i>> OBVIOUS
<1>1. p \in Things(f, S) <=> \E k \in S : p \in {k} \X (1 .. f[k]) BY DEF Things
<1>2. ASSUME NEW k PROVE p \in {k} \X (1 .. f[k]) <=> \E i \in 1 .. f[k] : p = <<k, i>> OBVIOUS
<1> QED BY <1>1, <1>2

LEMMA SumType ==
    ASSUME NEW S, IsFiniteSet(S), NEW f, Counts(f, S)
    PROVE  IsFiniteSet(Things(f, S)) /\ SumOf(f, S) \in Nat
<1> DEFINE T == {{k} \X (1 .. f[k]) : k \in S}
           g == [k \in S |-> {k} \X (1 .. f[k])]
<1>1. IsFiniteSet(T)
  <2>1. g \in Surjection(S, T) BY DEF Surjection
  <2> HIDE DEF g, T
  <2> QED BY <2>1, FS_Surjection
<1>2. ASSUME NEW U \in T PROVE IsFiniteSet(U)
  <2>1. PICK k \in S : U = {k} \X (1 .. f[k]) OBVIOUS
  <2>2. IsFiniteSet({k}) BY FS_Singleton
  <2>3. f[k] \in Int /\ 1 \in Int BY DEF Counts
  <2>4. IsFiniteSet(1 .. f[k]) BY <2>3, FS_Interval
  <2> QED BY <2>1, <2>2, <2>4, FS_Product
<1> HIDE DEF T
<1>3. IsFiniteSet(UNION T) BY <1>1, <1>2, FS_UNION
<1>4. Things(f, S) = UNION T BY DEF Things, T
<1>5. SumOf(f, S) = Cardinality(Things(f, S)) BY DEF SumOf, Things
<1> QED BY <1>3, <1>4, <1>5, FS_CardinalityType

LEMMA SumOfNone == ASSUME NEW f PROVE SumOf(f, {}) = 0
<1>1. Things(f, {}) = {} BY DEF Things
<1> QED BY <1>1, FS_EmptySet DEF SumOf, Things

LEMMA SumSame ==
    ASSUME NEW S, NEW f, NEW g, \A k \in S : f[k] = g[k]
    PROVE  SumOf(f, S) = SumOf(g, S)
BY DEF SumOf

LEMMA SumSplit ==
    ASSUME NEW S, IsFiniteSet(S), NEW f, Counts(f, S), NEW T, T \subseteq S
    PROVE  SumOf(f, S) = SumOf(f, T) + SumOf(f, S \ T) /\ SumOf(f, T) \in Nat /\ SumOf(f, S \ T) \in Nat
<1> DEFINE A == Things(f, T)
           B == Things(f, S \ T)
<1>1. IsFiniteSet(T) /\ IsFiniteSet(S \ T) /\ Counts(f, T) /\ Counts(f, S \ T)
  BY FS_Subset, FS_Difference DEF Counts
<1>2. IsFiniteSet(A) /\ IsFiniteSet(B) /\ SumOf(f, T) \in Nat /\ SumOf(f, S \ T) \in Nat BY <1>1, SumType
<1>3. Things(f, S) = A \cup B BY ThingsAre
<1>4. A \cap B = {}
  <2> SUFFICES ASSUME NEW p \in A, p \in B PROVE FALSE OBVIOUS
  <2>1. PICK k \in T : \E i \in 1 .. f[k] : p = <<k, i>> BY ThingsAre
  <2>2. PICK j \in S \ T : \E i \in 1 .. f[j] : p = <<j, i>> BY ThingsAre
  <2> QED BY <2>1, <2>2
<1>5. SumOf(f, S) = Cardinality(Things(f, S)) /\ SumOf(f, T) = Cardinality(A) /\ SumOf(f, S \ T) = Cardinality(B)
  BY DEF SumOf, Things
<1> HIDE DEF A, B
<1>6. Cardinality(A \cup B) = Cardinality(A) + Cardinality(B) - Cardinality({}) BY <1>2, <1>4, FS_Union
<1> QED BY <1>2, <1>3, <1>5, <1>6, FS_EmptySet

LEMMA SumOfOne == ASSUME NEW k, NEW f, f[k] \in Nat PROVE SumOf(f, {k}) = f[k]
<1> DEFINE g == [i \in 1 .. f[k] |-> <<k, i>>]
           A == Things(f, {k})
<1>1. \A p : p \in A <=> \E i \in 1 .. f[k] : p = <<k, i>> BY ThingsAre
<1>2. g \in Bijection(1 .. f[k], A)
  <2>1. g \in [1 .. f[k] -> A] BY <1>1
  <2>2. \A i, j \in 1 .. f[k] : g[i] = g[j] => i = j OBVIOUS
  <2>3. \A p \in A : \E i \in 1 .. f[k] : g[i] = p BY <1>1
  <2> HIDE DEF g, A
  <2>4. g \in Injection(1 .. f[k], A) BY <2>1, <2>2 DEF Injection, IsInjective
  <2>5. g \in Surjection(1 .. f[k], A) BY <2>1, <2>3 DEF Surjection
  <2> QED BY <2>4, <2>5 DEF Bijection
<1>3. f[k] \in Int /\ 1 \in Int OBVIOUS
<1>4. IsFiniteSet(1 .. f[k]) /\ Cardinality(1 .. f[k]) = f[k] BY <1>3, FS_Interval
<1>5. ExistsBijection(1 .. f[k], A) BY <1>2 DEF ExistsBijection
<1> HIDE DEF A
<1>6. Cardinality(A) = f[k] BY <1>4, <1>5, FS_Bijection
<1> QED BY <1>6 DEF A, SumOf, Things

\* One of them changes.
LEMMA SumChanges ==
    ASSUME NEW S, IsFiniteSet(S), NEW f, NEW g, Counts(f, S), Counts(g, S), NEW k \in S,
           \A j \in S \ {k} : g[j] = f[j]
    PROVE  /\ SumOf(g, S) = SumOf(f, S) - f[k] + g[k]
           /\ SumOf(f, S) \in Nat /\ SumOf(g, S) \in Nat /\ f[k] \in Nat /\ g[k] \in Nat /\ f[k] <= SumOf(f, S)
<1>1. f[k] \in Nat /\ g[k] \in Nat BY DEF Counts
<1>2. SumOf(f, S) = f[k] + SumOf(f, S \ {k}) /\ SumOf(f, S \ {k}) \in Nat
  <2>1. {k} \subseteq S OBVIOUS
  <2>2. SumOf(f, S) = SumOf(f, {k}) + SumOf(f, S \ {k}) /\ SumOf(f, S \ {k}) \in Nat BY <2>1, SumSplit
  <2> QED BY <1>1, <2>2, SumOfOne
<1>3. SumOf(g, S) = g[k] + SumOf(g, S \ {k})
  <2>1. {k} \subseteq S OBVIOUS
  <2>2. SumOf(g, S) = SumOf(g, {k}) + SumOf(g, S \ {k}) BY <2>1, SumSplit
  <2> QED BY <1>1, <2>2, SumOfOne
<1>4. SumOf(g, S \ {k}) = SumOf(f, S \ {k}) BY SumSame
<1> QED BY <1>1, <1>2, <1>3, <1>4

LEMMA SumGrows ==
    ASSUME NEW S, IsFiniteSet(S), NEW f, NEW g, Counts(f, S), Counts(g, S), \A k \in S : f[k] <= g[k]
    PROVE  SumOf(f, S) <= SumOf(g, S)
<1>1. IsFiniteSet(Things(g, S)) BY SumType
<1>2. Things(f, S) \subseteq Things(g, S)
  <2> SUFFICES ASSUME NEW p \in Things(f, S) PROVE p \in Things(g, S) OBVIOUS
  <2>0. PICK k \in S : \E i \in 1 .. f[k] : p = <<k, i>> BY ThingsAre
  <2>1. PICK i \in 1 .. f[k] : p = <<k, i>> BY <2>0
  <2>2. f[k] \in Nat /\ g[k] \in Nat /\ f[k] <= g[k] BY DEF Counts
  <2>3. i \in 1 .. g[k] BY <2>2
  <2> QED BY <2>1, <2>3, ThingsAre
<1>3. Cardinality(Things(f, S)) <= Cardinality(Things(g, S)) BY <1>1, <1>2, FS_Subset
<1> QED BY <1>3 DEF SumOf, Things

\* A sum of nothing but zeros, and only one, is zero.
LEMMA SumOfZeros ==
    ASSUME NEW S, IsFiniteSet(S), NEW f, Counts(f, S)
    PROVE  SumOf(f, S) = 0 <=> \A k \in S : f[k] = 0
<1>1. IsFiniteSet(Things(f, S)) BY SumType
<1>2. SumOf(f, S) = 0 <=> Things(f, S) = {} BY <1>1, FS_EmptySet DEF SumOf, Things
<1>3. Things(f, S) = {} <=> \A k \in S : f[k] = 0
  <2>1. ASSUME NEW k \in S, f[k] # 0 PROVE <<k, 1>> \in Things(f, S)
    <3>1. f[k] \in Nat BY DEF Counts
    <3>2. 1 \in 1 .. f[k] BY <2>1, <3>1
    <3> QED BY <3>2, ThingsAre
  <2>2. ASSUME NEW p \in Things(f, S), \A k \in S : f[k] = 0 PROVE FALSE
    <3>0. PICK k \in S : \E i \in 1 .. f[k] : p = <<k, i>> BY ThingsAre
    <3>1. PICK i \in 1 .. f[k] : p = <<k, i>> BY <3>0
    <3>2. i \in 1 .. 0 BY <2>2, <3>1
    <3> QED BY <3>2
  <2> QED BY <2>1, <2>2
<1> QED BY <1>2, <1>3

-----------------------------------------------------------------------------
\* What the methods leave alone.

\* Everything of a decoder but its streams, the lock and the counters.
Quiet(x, y) == /\ y.config = x.config /\ y.queue = x.queue /\ y.born = x.born
               /\ y.lockAt = x.lockAt /\ y.locks = x.locks /\ y.pair = x.pair

\* Everything of a stream but what unlocking resets.
Remains(s, u) == /\ u.last = s.last /\ u.closed = s.closed /\ u.born = s.born /\ u.synced = s.synced
                 /\ u.held = s.held /\ u.early = s.early /\ u.emitted = s.emitted

LEMMA FoldEffect ==
    ASSUME NEW x, NEW S, IsDecoder(x), NEW y, y = Fold(x, S)
    PROVE  /\ Quiet(x, y) /\ y.srv = x.srv /\ y.last = x.last /\ y.closing = x.closing /\ y.held = x.held
           /\ y.resyncs = x.resyncs + Resyncs(x, S, Server)
           /\ y.clientResyncs = x.clientResyncs + Resyncs(x, S, Client)
           /\ DOMAIN y.streams = DOMAIN x.streams
           /\ \A k \in DOMAIN x.streams :
                 /\ Remains(x.streams[k], y.streams[k])
                 /\ y.streams[k].dir = x.streams[k].dir
                 /\ y.streams[k].frames = x.streams[k].frames
                 /\ y.streams[k].resyncs = IF k \in S THEN 0 ELSE x.streams[k].resyncs
<1> DEFINE R == Resyncs(x, S, Server)
           C == Resyncs(x, S, Client)
           streams == [k \in DOMAIN x.streams |-> IF k \in S THEN [x.streams[k] EXCEPT !.resyncs = 0]
                                                  ELSE x.streams[k]]
<1>1. y = [x EXCEPT !.resyncs = @ + R, !.clientResyncs = @ + C, !.streams = streams] BY DEF Fold
<1>2. \A k \in DOMAIN x.streams :
         LET s == IF k \in S THEN [x.streams[k] EXCEPT !.resyncs = 0] ELSE x.streams[k]
         IN /\ Remains(x.streams[k], s) /\ s.dir = x.streams[k].dir /\ s.frames = x.streams[k].frames
            /\ s.resyncs = IF k \in S THEN 0 ELSE x.streams[k].resyncs
  BY DEF IsDecoder, AStream, Remains
<1>3. /\ DOMAIN streams = DOMAIN x.streams
      /\ \A k \in DOMAIN x.streams :
                 /\ Remains(x.streams[k], streams[k])
                 /\ streams[k].dir = x.streams[k].dir
                 /\ streams[k].frames = x.streams[k].frames
                 /\ streams[k].resyncs = IF k \in S THEN 0 ELSE x.streams[k].resyncs
  BY <1>2
<1> HIDE DEF R, C, streams
<1>4. /\ Quiet(x, y) /\ y.srv = x.srv /\ y.last = x.last /\ y.closing = x.closing /\ y.held = x.held
      /\ y.resyncs = x.resyncs + R /\ y.clientResyncs = x.clientResyncs + C /\ y.streams = streams
  BY <1>1 DEF IsDecoder, Fields, Quiet
<1> QED BY <1>3, <1>4 DEF R, C

LEMMA UnlockEffect ==
    ASSUME NEW x, IsDecoder(x), NEW y, y = Unlock(x)
    PROVE  /\ Quiet(x, y) /\ y.srv = Nil /\ y.last = x.last /\ y.closing = x.closing /\ y.held = x.held
           /\ y.resyncs = x.resyncs + Resyncs(x, DOMAIN x.streams, Server)
           /\ y.clientResyncs = x.clientResyncs + Resyncs(x, DOMAIN x.streams, Client)
           /\ DOMAIN y.streams = DOMAIN x.streams
           /\ \A k \in DOMAIN x.streams :
                 /\ Remains(x.streams[k], y.streams[k])
                 /\ y.streams[k].dir = Hunting /\ y.streams[k].frames = 0 /\ y.streams[k].resyncs = 0
<1> DEFINE f == Fold(x, DOMAIN x.streams)
           streams == [k \in DOMAIN f.streams |-> [f.streams[k] EXCEPT !.dir = Hunting, !.frames = 0]]
<1>1. /\ Quiet(x, f) /\ f.srv = x.srv /\ f.last = x.last /\ f.closing = x.closing /\ f.held = x.held
      /\ f.resyncs = x.resyncs + Resyncs(x, DOMAIN x.streams, Server)
      /\ f.clientResyncs = x.clientResyncs + Resyncs(x, DOMAIN x.streams, Client)
      /\ DOMAIN f.streams = DOMAIN x.streams
      /\ \A k \in DOMAIN x.streams : Remains(x.streams[k], f.streams[k]) /\ f.streams[k].resyncs = 0
  BY FoldEffect
<1>2. IsDecoder(f) BY FoldAlike
<1>3. y = [f EXCEPT !.srv = Nil, !.streams = streams] BY DEF Unlock
<1> HIDE DEF f
<1>4. \A k \in DOMAIN f.streams :
         LET s == [f.streams[k] EXCEPT !.dir = Hunting, !.frames = 0]
         IN Remains(f.streams[k], s) /\ s.dir = Hunting /\ s.frames = 0 /\ s.resyncs = f.streams[k].resyncs
  BY <1>2 DEF IsDecoder, AStream, Remains
<1>5. /\ DOMAIN streams = DOMAIN f.streams
      /\ \A k \in DOMAIN f.streams :
            Remains(f.streams[k], streams[k]) /\ streams[k].dir = Hunting /\ streams[k].frames = 0
               /\ streams[k].resyncs = f.streams[k].resyncs
  BY <1>4
<1> HIDE DEF streams
<1>6. /\ Quiet(f, y) /\ y.srv = Nil /\ y.last = f.last /\ y.closing = f.closing /\ y.held = f.held
      /\ y.resyncs = f.resyncs /\ y.clientResyncs = f.clientResyncs /\ y.streams = streams
  BY <1>2, <1>3 DEF IsDecoder, Fields, Quiet
<1> QED BY <1>1, <1>5, <1>6 DEF Quiet, Remains

\* The decoder that drop takes the streams S from: unlocked, if the server is one of them.
Loosed(x, S) == IF PointsInto(x, x.srv, S) THEN Unlock(x) ELSE x

LEMMA LoosedEffect ==
    ASSUME NEW x, NEW S, IsDecoder(x), PointersHold(x), NEW y, y = Loosed(x, S)
    PROVE  /\ IsDecoder(y)
           /\ Quiet(x, y) /\ y.last = x.last /\ y.closing = x.closing /\ y.held = x.held
           /\ DOMAIN y.streams = DOMAIN x.streams
           /\ \A k \in DOMAIN x.streams : Remains(x.streams[k], y.streams[k])
<1>1. CASE PointsInto(x, x.srv, S)
  BY <1>1, UnlockEffect, UnlockSound DEF Loosed, Sound
<1>2. CASE ~PointsInto(x, x.srv, S)
  BY <1>2 DEF Loosed, Quiet, Remains
<1> QED BY <1>1, <1>2

\* What the counters lose with the streams S.
GoneOf(x, S) == {k \in S : x.streams[k].closed # Open}
HeldIn(x, S) == SumOf([k \in S |-> x.streams[k].held], S)

LEMMA DropEffect ==
    ASSUME NEW x, NEW S, IsDecoder(x), PointersHold(x), NEW y, y = Drop(x, S), NEW u, u = Loosed(x, S)
    PROVE  /\ Quiet(x, y) /\ y.srv = u.srv
           /\ y.last = IF PointsInto(x, x.last, S) THEN Nil ELSE x.last
           /\ y.closing = x.closing - Cardinality(GoneOf(x, S))
           /\ y.held = x.held - HeldIn(x, S)
           /\ y.resyncs = u.resyncs + Resyncs(u, S, Server)
           /\ y.clientResyncs = u.clientResyncs + Resyncs(u, S, Client)
           /\ DOMAIN y.streams = DOMAIN x.streams \ S
           /\ \A k \in DOMAIN y.streams :
                 /\ Remains(x.streams[k], y.streams[k])
                 /\ y.streams[k].dir = u.streams[k].dir
                 /\ y.streams[k].frames = u.streams[k].frames
                 /\ y.streams[k].resyncs = u.streams[k].resyncs
<1> DEFINE f == Fold(u, S)
           closed == Cardinality({k \in S : x.streams[k].closed # Open})
           held == SumOf([k \in S |-> x.streams[k].held], S)
           streams == [k \in DOMAIN f.streams \ S |-> f.streams[k]]
<1>1. /\ IsDecoder(u) /\ Quiet(x, u) /\ u.last = x.last /\ u.closing = x.closing /\ u.held = x.held
      /\ DOMAIN u.streams = DOMAIN x.streams
      /\ \A k \in DOMAIN x.streams : Remains(x.streams[k], u.streams[k])
  BY LoosedEffect
<1>2. y = [f EXCEPT !.closing = @ - closed, !.last = IF PointsInto(x, @, S) THEN Nil ELSE @,
                    !.held = @ - held, !.streams = streams]
  BY DEF Drop, Without, Loosed
<1>3. /\ Quiet(u, f) /\ f.srv = u.srv /\ f.last = u.last /\ f.closing = u.closing /\ f.held = u.held
      /\ f.resyncs = u.resyncs + Resyncs(u, S, Server)
      /\ f.clientResyncs = u.clientResyncs + Resyncs(u, S, Client)
      /\ DOMAIN f.streams = DOMAIN u.streams
      /\ \A k \in DOMAIN u.streams :
                 /\ Remains(u.streams[k], f.streams[k])
                 /\ f.streams[k].dir = u.streams[k].dir
                 /\ f.streams[k].frames = u.streams[k].frames
                 /\ f.streams[k].resyncs = IF k \in S THEN 0 ELSE u.streams[k].resyncs
  BY <1>1, FoldEffect
<1>4. IsDecoder(f) BY <1>1, FoldAlike
<1>5. DOMAIN streams = DOMAIN f.streams \ S /\ \A k \in DOMAIN streams : streams[k] = f.streams[k] OBVIOUS
<1> HIDE DEF f, closed, held, streams
<1>6. /\ Quiet(f, y) /\ y.srv = f.srv /\ y.last = (IF PointsInto(x, f.last, S) THEN Nil ELSE f.last)
      /\ y.closing = f.closing - closed /\ y.held = f.held - held
      /\ y.resyncs = f.resyncs /\ y.clientResyncs = f.clientResyncs /\ y.streams = streams
  BY <1>2, <1>4 DEF IsDecoder, Fields, Quiet
<1>7. Quiet(x, y) BY <1>1, <1>3, <1>6 DEF Quiet
<1>8. DOMAIN y.streams = DOMAIN x.streams \ S BY <1>1, <1>3, <1>5, <1>6
<1>9. \A k \in DOMAIN y.streams :
                 /\ Remains(x.streams[k], y.streams[k])
                 /\ y.streams[k].dir = u.streams[k].dir
                 /\ y.streams[k].frames = u.streams[k].frames
                 /\ y.streams[k].resyncs = u.streams[k].resyncs
  BY <1>1, <1>3, <1>5, <1>6 DEF Remains
<1> QED BY <1>1, <1>3, <1>6, <1>7, <1>8, <1>9 DEF closed, held, GoneOf, HeldIn

\* Everything of a decoder but its streams, the lock and the queue.
Steady(x, y) == /\ y.config = x.config /\ y.born = x.born /\ y.last = x.last /\ y.closing = x.closing
                /\ y.held = x.held /\ y.resyncs = x.resyncs /\ y.clientResyncs = x.clientResyncs

SameLock(x, y) == y.srv = x.srv /\ y.lockAt = x.lockAt /\ y.locks = x.locks /\ y.pair = x.pair

\* Everything of a stream but its direction and what waits for it.
Stays(s, u) == /\ u.last = s.last /\ u.closed = s.closed /\ u.born = s.born /\ u.synced = s.synced
               /\ u.held = s.held /\ u.emitted = s.emitted /\ u.frames = s.frames /\ u.resyncs = s.resyncs

\* The frames that wait on a stream, as a lock that gives it a direction queues them.
Told(s, dir) == [i \in DOMAIN s.early |-> [s.early[i] EXCEPT !.dir = dir]]

LEMMA QueueEarlyEffect ==
    ASSUME NEW x, IsDecoder(x), NEW k \in DOMAIN x.streams, NEW y, y = QueueEarly(x, k)
    PROVE  /\ IsDecoder(y) /\ Steady(x, y) /\ SameLock(x, y)
           /\ DOMAIN y.streams = DOMAIN x.streams
           /\ \A j \in DOMAIN x.streams :
                 /\ Stays(x.streams[j], y.streams[j])
                 /\ y.streams[j].dir = x.streams[j].dir
                 /\ y.streams[j].early = IF j = k THEN <<>> ELSE x.streams[j].early
           /\ y.queue = IF x.streams[k].dir = Server \/ x.config.emitClient
                        THEN x.queue \o Told(x.streams[k], x.streams[k].dir) ELSE x.queue
<1> DEFINE queue == IF x.streams[k].dir = Server \/ x.config.emitClient
                    THEN x.queue \o Told(x.streams[k], x.streams[k].dir) ELSE x.queue
           streams == [x.streams EXCEPT ![k].early = <<>>]
<1>1. IsDecoder(y) BY QueueEarlyAlike
<1>2. y = [x EXCEPT !.queue = queue, !.streams = streams]
  BY DEF QueueEarly, Told, IsDecoder, Fields
<1>3. \A j \in DOMAIN x.streams : x.streams[j] \in AStream BY DEF IsDecoder
<1>4. /\ DOMAIN streams = DOMAIN x.streams
      /\ \A j \in DOMAIN x.streams :
                 /\ Stays(x.streams[j], streams[j])
                 /\ streams[j].dir = x.streams[j].dir
                 /\ streams[j].early = IF j = k THEN <<>> ELSE x.streams[j].early
  BY <1>3 DEF AStream, Stays
<1> HIDE DEF queue, streams
<1>5. Steady(x, y) /\ SameLock(x, y) /\ y.queue = queue /\ y.streams = streams
  BY <1>2 DEF IsDecoder, Fields, Steady, SameLock
<1> QED BY <1>1, <1>4, <1>5 DEF queue

\* The lock before it drops the streams of other connections.
Locking(x, k) == [x EXCEPT !.srv = Pointer(x, k), !.lockAt = x.streams[k].last,
                           !.locks = @ + 1, !.pair = k, !.streams[k].dir = Server]
Server1(x, k) == QueueEarly(Locking(x, k), k)
Client0(x, k) == [Server1(x, k) EXCEPT !.streams[Reverse(k)].dir = Client]
Both(x, k) == IF Reverse(k) \in DOMAIN x.streams THEN QueueEarly(Client0(x, k), Reverse(k)) ELSE Server1(x, k)

LEMMA LockIs ==
    ASSUME NEW x, NEW k
    PROVE  Lock(x, k) = Drop(Both(x, k), DOMAIN x.streams \ {k, Reverse(k)})
BY DEF Lock, Both, Client0, Server1, Locking

LEMMA BothEffect ==
    ASSUME NEW x, IsDecoder(x), PointersHold(x), NEW k \in DOMAIN x.streams, NEW y, y = Both(x, k),
           NEW r, r = Reverse(k)
    PROVE  /\ IsDecoder(y) /\ PointersHold(y) /\ Steady(x, y)
           /\ y.srv = Pointer(x, k) /\ y.lockAt = x.streams[k].last /\ y.locks = x.locks + 1 /\ y.pair = k
           /\ DOMAIN y.streams = DOMAIN x.streams
           /\ \A j \in DOMAIN x.streams :
                 /\ Stays(x.streams[j], y.streams[j])
                 /\ y.streams[j].dir = IF j = k THEN Server ELSE IF j = r THEN Client ELSE x.streams[j].dir
                 /\ y.streams[j].early = IF j \in {k, r} THEN <<>> ELSE x.streams[j].early
           /\ y.queue = IF r \in DOMAIN x.streams /\ x.config.emitClient
                        THEN (x.queue \o Told(x.streams[k], Server)) \o Told(x.streams[r], Client)
                        ELSE x.queue \o Told(x.streams[k], Server)
<1>1. /\ k \in Keys /\ r \in Keys /\ r # k /\ x.streams[k] \in AStream /\ NoKey \notin Keys
      /\ \A j \in DOMAIN x.streams : x.streams[j] \in AStream
  BY DecoderAssumption DEF IsDecoder
<1> DEFINE srv == Pointer(x, k)
           lockAt == x.streams[k].last
           locks == x.locks + 1
           streams == [x.streams EXCEPT ![k].dir = Server]
           l == Locking(x, k)
           a == Server1(x, k)
           c == Client0(x, k)
<1>2. srv \in Pointers /\ lockAt \in Nat /\ locks \in Nat /\ srv = [key |-> k, born |-> x.streams[k].born]
  <2>1. x.locks \in Nat BY DEF IsDecoder, Fields
  <2>2. x.streams[k].last \in Nat /\ x.streams[k].born \in Nat BY <1>1, DecoderAssumption DEF AStream
  <2> QED BY <1>1, <2>1, <2>2 DEF Pointer, Pointers
<1>3. l = [x EXCEPT !.srv = srv, !.lockAt = lockAt, !.locks = locks, !.pair = k, !.streams = streams]
  BY DEF IsDecoder, Fields, Locking
<1>4. /\ DOMAIN streams = DOMAIN x.streams
      /\ \A j \in DOMAIN x.streams :
                 /\ streams[j] \in AStream
                 /\ Stays(x.streams[j], streams[j])
                 /\ streams[j].dir = IF j = k THEN Server ELSE x.streams[j].dir
                 /\ streams[j].early = x.streams[j].early
  BY <1>1 DEF AStream, Stays
<1> HIDE DEF srv, lockAt, locks, streams, l
<1>5. /\ l \in Fields(l) /\ Steady(x, l) /\ l.srv = srv /\ l.lockAt = lockAt /\ l.locks = locks /\ l.pair = k
      /\ l.streams = streams /\ l.queue = x.queue
  BY <1>1, <1>2, <1>3 DEF IsDecoder, Fields, Steady
<1>6. IsDecoder(l) BY <1>4, <1>5 DEF IsDecoder
<1>7. /\ IsDecoder(a) /\ Steady(l, a) /\ SameLock(l, a)
      /\ DOMAIN a.streams = DOMAIN l.streams
      /\ \A j \in DOMAIN l.streams :
                 /\ Stays(l.streams[j], a.streams[j])
                 /\ a.streams[j].dir = l.streams[j].dir
                 /\ a.streams[j].early = IF j = k THEN <<>> ELSE l.streams[j].early
      /\ a.queue = IF l.streams[k].dir = Server \/ l.config.emitClient
                   THEN l.queue \o Told(l.streams[k], l.streams[k].dir) ELSE l.queue
  <2>1. a = QueueEarly(l, k) BY DEF Server1, l
  <2>2. k \in DOMAIN l.streams BY <1>4, <1>5
  <2> HIDE DEF a
  <2> QED BY <1>6, <2>1, <2>2, QueueEarlyEffect
<1>8. /\ Steady(x, a) /\ a.srv = srv /\ a.lockAt = lockAt /\ a.locks = locks /\ a.pair = k
      /\ DOMAIN a.streams = DOMAIN x.streams
      /\ \A j \in DOMAIN x.streams :
                 /\ Stays(x.streams[j], a.streams[j])
                 /\ a.streams[j].dir = IF j = k THEN Server ELSE x.streams[j].dir
                 /\ a.streams[j].early = IF j = k THEN <<>> ELSE x.streams[j].early
      /\ a.queue = x.queue \o Told(x.streams[k], Server)
  <2>1. l.streams[k].dir = Server /\ l.streams[k].early = x.streams[k].early BY <1>4, <1>5
  <2>2. Told(l.streams[k], Server) = Told(x.streams[k], Server) BY <2>1 DEF Told
  <2>3. a.queue = x.queue \o Told(x.streams[k], Server) BY <1>5, <1>7, <2>1, <2>2
  <2>4. Steady(x, a) /\ a.srv = srv /\ a.lockAt = lockAt /\ a.locks = locks /\ a.pair = k
    BY <1>5, <1>7 DEF Steady, SameLock
  <2> HIDE DEF a
  <2>5. /\ DOMAIN a.streams = DOMAIN x.streams
        /\ \A j \in DOMAIN x.streams :
                 /\ Stays(x.streams[j], a.streams[j])
                 /\ a.streams[j].dir = IF j = k THEN Server ELSE x.streams[j].dir
                 /\ a.streams[j].early = IF j = k THEN <<>> ELSE x.streams[j].early
    BY <1>4, <1>5, <1>7 DEF Stays
  <2> QED BY <2>3, <2>4, <2>5
<1> HIDE DEF a
<1>9. PointersHold(y)
      <=> /\ y.srv # Nil => Alive(y.srv, y)
          /\ y.last # Nil => Alive(y.last, y)
  BY DEF PointersHold
<1>10. ASSUME y.srv = srv, y.last = x.last, DOMAIN y.streams = DOMAIN x.streams,
              \A j \in DOMAIN x.streams : y.streams[j].born = x.streams[j].born
       PROVE  PointersHold(y)
  BY <1>2, <1>9, <1>10 DEF PointersHold, Alive, Pointer
<1>11. CASE r \notin DOMAIN x.streams
  <2>1. y = a BY <1>11 DEF Both, a
  <2>2. PointersHold(y) BY <1>8, <1>10, <2>1 DEF Steady, Stays
  <2>3. \A j \in DOMAIN x.streams : j # r BY <1>11
  <2>4. /\ DOMAIN y.streams = DOMAIN x.streams
        /\ \A j \in DOMAIN x.streams :
                 /\ Stays(x.streams[j], y.streams[j])
                 /\ y.streams[j].dir = IF j = k THEN Server ELSE IF j = r THEN Client ELSE x.streams[j].dir
                 /\ y.streams[j].early = IF j \in {k, r} THEN <<>> ELSE x.streams[j].early
    BY <1>8, <2>1, <2>3
  <2>5. y.queue = IF r \in DOMAIN x.streams /\ x.config.emitClient
                  THEN (x.queue \o Told(x.streams[k], Server)) \o Told(x.streams[r], Client)
                  ELSE x.queue \o Told(x.streams[k], Server)
    BY <1>8, <1>11, <2>1
  <2>6. /\ IsDecoder(y) /\ Steady(x, y)
        /\ y.srv = srv /\ y.lockAt = lockAt /\ y.locks = locks /\ y.pair = k
    BY <1>7, <1>8, <2>1
  <2> QED BY <2>2, <2>4, <2>5, <2>6 DEF srv, lockAt, locks
<1>12. CASE r \in DOMAIN x.streams
  <2> DEFINE streams2 == [a.streams EXCEPT ![r].dir = Client]
  <2>1. \A j \in DOMAIN x.streams : a.streams[j] \in AStream BY <1>7, <1>8 DEF IsDecoder
  <2>2. /\ DOMAIN streams2 = DOMAIN x.streams
        /\ \A j \in DOMAIN x.streams :
                 /\ streams2[j] \in AStream
                 /\ Stays(a.streams[j], streams2[j])
                 /\ streams2[j].dir = IF j = r THEN Client ELSE a.streams[j].dir
                 /\ streams2[j].early = a.streams[j].early
    <3>1. DOMAIN streams2 = DOMAIN x.streams BY <1>8
    <3>2. ASSUME NEW j \in DOMAIN x.streams, j # r PROVE streams2[j] = a.streams[j] BY <1>8, <3>2
    <3>3. streams2[r] = [a.streams[r] EXCEPT !.dir = Client] BY <1>8, <1>12
    <3>4. /\ streams2[r] \in AStream /\ Stays(a.streams[r], streams2[r]) /\ streams2[r].dir = Client
          /\ streams2[r].early = a.streams[r].early
      <4> HIDE DEF streams2
      <4> QED BY <1>12, <2>1, <3>3 DEF AStream, Stays
    <3> HIDE DEF streams2
    <3> QED BY <2>1, <3>1, <3>2, <3>4 DEF Stays
  <2>3. c = [a EXCEPT !.streams = streams2] BY <1>7 DEF Client0, IsDecoder, Fields, a
  <2> HIDE DEF c, streams2
  <2>4. c \in Fields(c) /\ Steady(a, c) /\ SameLock(a, c) /\ c.streams = streams2 /\ c.queue = a.queue
    BY <1>7, <2>3 DEF IsDecoder, Fields, Steady, SameLock
  <2>5. IsDecoder(c) /\ r \in DOMAIN c.streams BY <1>7, <1>8, <1>12, <2>2, <2>4 DEF IsDecoder
  <2>6. y = QueueEarly(c, r) BY <1>12 DEF Both, c
  <2>7. /\ IsDecoder(y) /\ Steady(c, y) /\ SameLock(c, y)
        /\ DOMAIN y.streams = DOMAIN c.streams
        /\ \A j \in DOMAIN c.streams :
                 /\ Stays(c.streams[j], y.streams[j])
                 /\ y.streams[j].dir = c.streams[j].dir
                 /\ y.streams[j].early = IF j = r THEN <<>> ELSE c.streams[j].early
        /\ y.queue = IF c.streams[r].dir = Server \/ c.config.emitClient
                     THEN c.queue \o Told(c.streams[r], c.streams[r].dir) ELSE c.queue
    BY <2>5, <2>6, QueueEarlyEffect
  <2>8. Steady(x, y) /\ y.srv = srv /\ y.lockAt = lockAt /\ y.locks = locks /\ y.pair = k
    BY <1>8, <2>4, <2>7 DEF Steady, SameLock
  <2>9. /\ DOMAIN y.streams = DOMAIN x.streams
        /\ \A j \in DOMAIN x.streams :
                 /\ Stays(x.streams[j], y.streams[j])
                 /\ y.streams[j].dir = IF j = k THEN Server ELSE IF j = r THEN Client ELSE x.streams[j].dir
                 /\ y.streams[j].early = IF j \in {k, r} THEN <<>> ELSE x.streams[j].early
    BY <1>1, <1>8, <2>2, <2>4, <2>7 DEF Stays
  <2>10. c.streams[r].dir = Client /\ c.streams[r].early = x.streams[r].early /\ c.config = x.config
    BY <1>1, <1>8, <1>12, <2>2, <2>4 DEF Steady
  <2>11. Told(c.streams[r], Client) = Told(x.streams[r], Client) BY <2>10 DEF Told
  <2>12. Client # Server BY DEF Client, Server
  <2>13. y.queue = IF x.config.emitClient
                   THEN (x.queue \o Told(x.streams[k], Server)) \o Told(x.streams[r], Client)
                   ELSE x.queue \o Told(x.streams[k], Server)
    BY <1>8, <2>4, <2>7, <2>10, <2>11, <2>12
  <2>14. PointersHold(y) BY <1>10, <2>8, <2>9 DEF Steady, Stays
  <2> QED BY <1>12, <2>7, <2>8, <2>9, <2>13, <2>14 DEF srv, lockAt, locks
<1> QED BY <1>11, <1>12

\* One stream changes, to s.
LEMMA OneStream ==
    ASSUME NEW x, IsDecoder(x), NEW k \in DOMAIN x.streams, NEW s \in AStream,
           NEW y, y = [x EXCEPT !.streams = [x.streams EXCEPT ![k] = s]]
    PROVE  /\ IsDecoder(y) /\ Steady(x, y) /\ SameLock(x, y) /\ y.queue = x.queue
           /\ DOMAIN y.streams = DOMAIN x.streams
           /\ \A j \in DOMAIN x.streams : y.streams[j] = IF j = k THEN s ELSE x.streams[j]
<1> DEFINE streams == [x.streams EXCEPT ![k] = s]
<1>1. /\ DOMAIN streams = DOMAIN x.streams
      /\ \A j \in DOMAIN x.streams : streams[j] = IF j = k THEN s ELSE x.streams[j]
  OBVIOUS
<1>2. y = [x EXCEPT !.streams = streams] OBVIOUS
<1> HIDE DEF streams
<1>3. /\ y \in Fields(y) /\ Steady(x, y) /\ SameLock(x, y) /\ y.queue = x.queue /\ y.streams = streams
  BY <1>2 DEF IsDecoder, Fields, Steady, SameLock
<1> QED BY <1>1, <1>3 DEF IsDecoder

\* hunt, before the lock it may take.
Counted(s, f) == LET from == IF f.resynced THEN 0 ELSE s.frames
                 IN [s EXCEPT !.frames = IF f.op # "other" /\ f.trusted THEN from + 1 ELSE from]
Counting(x, k, f) == [x EXCEPT !.streams = [x.streams EXCEPT ![k] = Counted(x.streams[k], f)]]

LEMMA HuntEffect ==
    ASSUME NEW x, Sound(x), NEW k \in DOMAIN x.streams, NEW f, NEW y, y = Hunt(x, k, f),
           NEW c, c = Counting(x, k, f)
    PROVE  /\ Sound(c) /\ Steady(x, c) /\ SameLock(x, c) /\ c.queue = x.queue
           /\ DOMAIN c.streams = DOMAIN x.streams
           /\ \A j \in DOMAIN x.streams : j # k => c.streams[j] = x.streams[j]
           /\ Remains(x.streams[k], c.streams[k])
           /\ c.streams[k].dir = x.streams[k].dir /\ c.streams[k].resyncs = x.streams[k].resyncs
           /\ \/ y = x
              \/ x.streams[k].dir = Hunting /\ (y = c \/ (y = Lock(c, k) /\ f.op # "other"))
<1> DEFINE s == x.streams[k]
           from == IF f.resynced THEN 0 ELSE s.frames
           counts == f.op # "other" /\ f.trusted
           number == IF counts THEN from + 1 ELSE from
<1>1. s \in AStream BY DEF Sound, IsDecoder
<1>2. number \in Nat BY <1>1 DEF AStream
<1>3. Counted(s, f) = [s EXCEPT !.frames = number] BY DEF Counted
<1>4. c = [x EXCEPT !.streams[k].frames = number] BY <1>3 DEF Counting, Sound, IsDecoder, Fields
<1>5. \/ y = x
      \/ x.streams[k].dir = Hunting /\ (y = c \/ (y = Lock(c, k) /\ f.op # "other"))
  <2> DEFINE e == [x EXCEPT !.streams[k].frames = IF counts THEN from + 1 ELSE from]
  <2>1. y = x \/ y = e \/ (y = Lock(e, k) /\ f.op # "other") BY DEF Hunt
  <2>2. x.streams[k].dir # Hunting => y = x BY DEF Hunt
  <2>3. c = e BY <1>4
  <2> HIDE DEF e
  <2> QED BY <2>1, <2>2, <2>3
<1> DEFINE u == Counted(s, f)
<1> HIDE DEF number, s
<1>6. u \in AStream /\ Remains(s, u) /\ u.dir = s.dir /\ u.resyncs = s.resyncs
  BY <1>1, <1>2, <1>3 DEF AStream, Remains
<1>7. c = [x EXCEPT !.streams = [x.streams EXCEPT ![k] = u]] BY DEF Counting, s
<1> HIDE DEF u
<1>8. /\ IsDecoder(c) /\ Steady(x, c) /\ SameLock(x, c) /\ c.queue = x.queue
      /\ DOMAIN c.streams = DOMAIN x.streams
      /\ \A j \in DOMAIN x.streams : c.streams[j] = IF j = k THEN u ELSE x.streams[j]
  BY <1>6, <1>7, OneStream DEF Sound
<1>9. Alike(x, c) BY <1>6, <1>8 DEF Alike, Steady, SameLock, Remains, s
<1>10. Sound(c) BY <1>8, <1>9, AlikePaired DEF Sound
<1> QED BY <1>5, <1>6, <1>8, <1>10 DEF s

\* What emit makes of a frame once hunt has seen it.
Numbered(s, k) == [key |-> k, born |-> s.born, number |-> s.emitted, dir |-> s.dir]

LEMMA SortEffect ==
    ASSUME NEW x, Sound(x), NEW k \in DOMAIN x.streams, NEW f, NEW y, y = Sort(x, k, f),
           NEW s, s = x.streams[k], NEW u, u = y.streams[k], NEW frame, frame = Numbered(s, k)
    PROVE  /\ Sound(y) /\ Steady(x, y) /\ SameLock(x, y)
           /\ DOMAIN y.streams = DOMAIN x.streams
           /\ \A j \in DOMAIN x.streams : j # k => y.streams[j] = x.streams[j]
           /\ u.last = s.last /\ u.closed = s.closed /\ u.born = s.born /\ u.synced = s.synced
           /\ u.held = s.held /\ u.frames = s.frames /\ u.resyncs = s.resyncs /\ u.dir = s.dir
           /\ \/ y = x /\ f.op = "other"
              \/ /\ u.emitted = s.emitted + 1
                 /\ \/ s.dir = Client /\ ~x.config.emitClient /\ u.early = s.early /\ y.queue = x.queue
                    \/ /\ s.dir = Hunting /\ ~x.config.emitUnlocked
                       /\ u.early = Wait(s.early, frame) /\ y.queue = x.queue
                    \/ /\ \/ s.dir = Server
                          \/ s.dir = Client /\ x.config.emitClient
                          \/ s.dir = Hunting /\ x.config.emitUnlocked
                       /\ u.early = s.early /\ y.queue = Append(x.queue, frame)
<1>1. s \in AStream /\ x.queue \in Seq(Frame) /\ k \in Keys BY DEF Sound, IsDecoder, Fields
<1>2. frame \in Frame BY <1>1 DEF Numbered, Frame, AStream
<1>3. Wait(s.early, frame) \in Seq(Frame) BY <1>1, <1>2, WaitType DEF AStream
<1> DEFINE told == [s EXCEPT !.emitted = s.emitted + 1]
           kept == [told EXCEPT !.early = Wait(s.early, frame)]
           e == [x EXCEPT !.streams = [x.streams EXCEPT ![k] = told]]
           w == [x EXCEPT !.streams = [x.streams EXCEPT ![k] = kept]]
           q == [e EXCEPT !.queue = Append(x.queue, frame)]
<1>4. /\ told \in AStream /\ told.emitted = s.emitted + 1 /\ told.early = s.early
      /\ told.last = s.last /\ told.closed = s.closed /\ told.born = s.born /\ told.synced = s.synced
      /\ told.held = s.held /\ told.frames = s.frames /\ told.resyncs = s.resyncs /\ told.dir = s.dir
  <2>1. told.emitted = s.emitted + 1 /\ s.emitted + 1 \in Nat BY <1>1 DEF AStream
  <2>2. /\ told.early = s.early /\ told.last = s.last /\ told.closed = s.closed /\ told.born = s.born
        /\ told.synced = s.synced /\ told.held = s.held /\ told.frames = s.frames
        /\ told.resyncs = s.resyncs /\ told.dir = s.dir
    BY <1>1 DEF AStream
  <2>3. told \in AStream BY <1>1, <2>1 DEF AStream
  <2> QED BY <2>1, <2>2, <2>3
<1>5. /\ kept \in AStream /\ kept.emitted = s.emitted + 1 /\ kept.early = Wait(s.early, frame)
      /\ kept.last = s.last /\ kept.closed = s.closed /\ kept.born = s.born /\ kept.synced = s.synced
      /\ kept.held = s.held /\ kept.frames = s.frames /\ kept.resyncs = s.resyncs /\ kept.dir = s.dir
  <2> HIDE DEF told
  <2> QED BY <1>3, <1>4 DEF AStream
<1>6. e = [x EXCEPT !.streams[k].emitted = @ + 1] BY DEF Sound, IsDecoder, Fields
<1>7. w = [e EXCEPT !.streams[k].early = Wait(@, frame)]
  <2>1. e.streams = [x.streams EXCEPT ![k] = told] BY DEF Sound, IsDecoder, Fields
  <2>2. e.streams[k] = told BY <2>1
  <2>3. w = [e EXCEPT !.streams = [e.streams EXCEPT ![k] = kept]]
    <3> HIDE DEF told, kept
    <3> QED BY <2>1 DEF Sound, IsDecoder, Fields
  <2>4. kept = [e.streams[k] EXCEPT !.early = Wait(@, frame)] BY <2>2, <1>4
  <2> HIDE DEF told, kept, w, e
  <2> QED BY <2>3, <2>4
<1>8. q = [e EXCEPT !.queue = Append(@, frame)] BY DEF Sound, IsDecoder, Fields
<1>9. /\ s.dir \in {Server, Client, Hunting}
      /\ \/ y = x /\ f.op = "other"
         \/ s.dir = Client /\ ~x.config.emitClient /\ y = e
         \/ s.dir = Hunting /\ ~x.config.emitUnlocked /\ y = w
         \/ /\ ~(s.dir = Client /\ ~x.config.emitClient) /\ ~(s.dir = Hunting /\ ~x.config.emitUnlocked)
            /\ y = q
  <2>1. s.dir \in {Server, Client, Hunting} BY <1>1 DEF AStream
  <2>2. frame = [key |-> k, born |-> s.born, number |-> s.emitted, dir |-> s.dir] BY DEF Numbered
  <2>3. Sort(x, k, f) \in {x, [x EXCEPT !.streams[k].emitted = @ + 1],
                           [e EXCEPT !.streams[k].early = Wait(@, frame)], [e EXCEPT !.queue = Append(@, frame)]}
    BY <1>6, <2>2 DEF Sort
  <2> HIDE DEF e, w, q
  <2> QED BY <1>6, <1>7, <1>8, <2>1, <2>2 DEF Sort
<1> HIDE DEF told, kept
<1>10. /\ IsDecoder(e) /\ Steady(x, e) /\ SameLock(x, e) /\ e.queue = x.queue
       /\ DOMAIN e.streams = DOMAIN x.streams
       /\ \A j \in DOMAIN x.streams : e.streams[j] = IF j = k THEN told ELSE x.streams[j]
  <2> HIDE DEF e
  <2> QED BY <1>4, OneStream DEF Sound, e
<1>11. /\ IsDecoder(w) /\ Steady(x, w) /\ SameLock(x, w) /\ w.queue = x.queue
       /\ DOMAIN w.streams = DOMAIN x.streams
       /\ \A j \in DOMAIN x.streams : w.streams[j] = IF j = k THEN kept ELSE x.streams[j]
  <2> HIDE DEF w
  <2> QED BY <1>5, OneStream DEF Sound, w
<1> HIDE DEF e, w
<1>12. /\ IsDecoder(q) /\ Steady(x, q) /\ SameLock(x, q) /\ q.queue = Append(x.queue, frame)
       /\ q.streams = e.streams
  <2> DEFINE queue == Append(x.queue, frame)
  <2>1. queue \in Seq(Frame) BY <1>1, <1>2
  <2>3. q = [e EXCEPT !.queue = queue] OBVIOUS
  <2> HIDE DEF queue, q
  <2>2. /\ q \in Fields(q) /\ Steady(e, q) /\ SameLock(e, q) /\ q.queue = queue /\ q.streams = e.streams
    BY <1>10, <2>1, <2>3 DEF IsDecoder, Fields, Steady, SameLock
  <2> QED BY <1>10, <2>2 DEF IsDecoder, Steady, SameLock, queue
<1> HIDE DEF q
<1>13. ASSUME IsDecoder(y), Steady(x, y), SameLock(x, y), DOMAIN y.streams = DOMAIN x.streams,
              \A j \in DOMAIN x.streams : j # k => y.streams[j] = x.streams[j],
              y.streams[k].born = s.born, y.streams[k].dir = s.dir
       PROVE  Sound(y)
  <2>1. Alike(x, y) BY <1>13 DEF Alike, Steady, SameLock
  <2> QED BY <1>13, <2>1, AlikePaired DEF Sound
<1>14. CASE y = x /\ f.op = "other"
  BY <1>14 DEF Steady, SameLock
<1>15. CASE s.dir = Client /\ ~x.config.emitClient /\ y = e
  <2>1. u = told BY <1>10, <1>15
  <2> QED BY <1>4, <1>10, <1>13, <1>15, <2>1
<1>16. CASE s.dir = Hunting /\ ~x.config.emitUnlocked /\ y = w
  <2>1. u = kept BY <1>11, <1>16
  <2> QED BY <1>5, <1>11, <1>13, <1>16, <2>1
<1>17. CASE /\ ~(s.dir = Client /\ ~x.config.emitClient) /\ ~(s.dir = Hunting /\ ~x.config.emitUnlocked)
            /\ y = q
  <2>1. u = told BY <1>10, <1>12, <1>17
  <2>2. \/ s.dir = Server
        \/ s.dir = Client /\ x.config.emitClient
        \/ s.dir = Hunting /\ x.config.emitUnlocked
    BY <1>9, <1>17
  <2>3. Sound(y) BY <1>4, <1>10, <1>12, <1>13, <1>17, <2>1
  <2> QED BY <1>4, <1>10, <1>12, <1>17, <2>1, <2>2, <2>3
<1> QED BY <1>9, <1>14, <1>15, <1>16, <1>17

\* What reassembly leaves held, and the resyncs, before the frames.
Taking(x, k, o) == [x EXCEPT !.held = @ - x.streams[k].held + o.held,
                             !.streams[k].held = o.held,
                             !.streams[k].resyncs = @ + o.resyncs]

LEMMA TakingEffect ==
    ASSUME NEW x, Sound(x), NEW k \in DOMAIN x.streams, NEW o, o.resyncs \in Nat, o.held \in Nat,
           NEW y, y = Taking(x, k, o), NEW s, s = x.streams[k], NEW u, u = y.streams[k]
    PROVE  /\ Sound(y) /\ SameLock(x, y)
           /\ y.config = x.config /\ y.born = x.born /\ y.last = x.last /\ y.closing = x.closing
           /\ y.resyncs = x.resyncs /\ y.clientResyncs = x.clientResyncs /\ y.queue = x.queue
           /\ y.held = x.held - s.held + o.held
           /\ DOMAIN y.streams = DOMAIN x.streams
           /\ \A j \in DOMAIN x.streams : j # k => y.streams[j] = x.streams[j]
           /\ u.last = s.last /\ u.closed = s.closed /\ u.born = s.born /\ u.synced = s.synced
           /\ u.early = s.early /\ u.emitted = s.emitted /\ u.frames = s.frames /\ u.dir = s.dir
           /\ u.held = o.held /\ u.resyncs = s.resyncs + o.resyncs
<1>1. s \in AStream BY DEF Sound, IsDecoder
<1> DEFINE taken == [s EXCEPT !.held = o.held, !.resyncs = s.resyncs + o.resyncs]
           held == x.held - s.held + o.held
           z == [x EXCEPT !.streams = [x.streams EXCEPT ![k] = taken]]
<1>2. /\ taken \in AStream /\ taken.held = o.held /\ taken.resyncs = s.resyncs + o.resyncs
      /\ taken.last = s.last /\ taken.closed = s.closed /\ taken.born = s.born /\ taken.synced = s.synced
      /\ taken.early = s.early /\ taken.emitted = s.emitted /\ taken.frames = s.frames /\ taken.dir = s.dir
  <2> DEFINE n == o.held
             m == s.resyncs + o.resyncs
  <2>1. n \in Nat /\ m \in Nat BY <1>1 DEF AStream
  <2>2. taken = [s EXCEPT !.held = n, !.resyncs = m] OBVIOUS
  <2> HIDE DEF n, m, taken
  <2>3. /\ taken \in AStream /\ taken.held = n /\ taken.resyncs = m
        /\ taken.last = s.last /\ taken.closed = s.closed /\ taken.born = s.born /\ taken.synced = s.synced
        /\ taken.early = s.early /\ taken.emitted = s.emitted /\ taken.frames = s.frames /\ taken.dir = s.dir
    BY <1>1, <2>1, <2>2 DEF AStream
  <2> QED BY <2>3 DEF n, m
<1>3. y = [z EXCEPT !.held = held]
  <2>1. y = [x EXCEPT !.held = held, !.streams = [x.streams EXCEPT ![k] = taken]]
    BY <1>1 DEF Taking, Sound, IsDecoder, Fields, AStream
  <2> HIDE DEF taken, held
  <2> QED BY <2>1 DEF Sound, IsDecoder, Fields
<1> HIDE DEF taken
<1>4. /\ IsDecoder(z) /\ Steady(x, z) /\ SameLock(x, z) /\ z.queue = x.queue
      /\ DOMAIN z.streams = DOMAIN x.streams
      /\ \A j \in DOMAIN x.streams : z.streams[j] = IF j = k THEN taken ELSE x.streams[j]
  <2> HIDE DEF z
  <2> QED BY <1>2, OneStream DEF Sound, z
<1> HIDE DEF z, held
<1>5. /\ y \in Fields(y) /\ SameLock(z, y) /\ y.config = z.config /\ y.born = z.born /\ y.last = z.last
      /\ y.closing = z.closing /\ y.resyncs = z.resyncs /\ y.clientResyncs = z.clientResyncs
      /\ y.queue = z.queue /\ y.held = held /\ y.streams = z.streams
  BY <1>3, <1>4 DEF IsDecoder, Fields, SameLock
<1>6. IsDecoder(y) BY <1>4, <1>5 DEF IsDecoder
<1>7. u = taken BY <1>4, <1>5
<1>8. Alike(x, y) BY <1>2, <1>4, <1>5, <1>7 DEF Alike, SameLock, Steady
<1>9. Sound(y) BY <1>6, <1>8, AlikePaired DEF Sound
<1> QED BY <1>2, <1>4, <1>5, <1>7, <1>9 DEF SameLock, Steady, held

LEMMA TakeIs ==
    ASSUME NEW x, NEW k, NEW o
    PROVE  Take(x, k, o) = EmitAll(Taking(x, k, o), k, o.frames)
BY DEF Take, Taking

LEMMA CloseEffect ==
    ASSUME NEW x, Sound(x), NEW k \in DOMAIN x.streams, NEW t \in Times, NEW y, y = Close(x, k, t),
           NEW s, s = x.streams[k], NEW u, u = y.streams[k]
    PROVE  /\ Sound(y) /\ SameLock(x, y)
           /\ y.config = x.config /\ y.born = x.born /\ y.last = x.last /\ y.held = x.held
           /\ y.resyncs = x.resyncs /\ y.clientResyncs = x.clientResyncs /\ y.queue = x.queue
           /\ y.closing = IF s.closed = Open THEN x.closing + 1 ELSE x.closing
           /\ DOMAIN y.streams = DOMAIN x.streams
           /\ \A j \in DOMAIN x.streams : j # k => y.streams[j] = x.streams[j]
           /\ u.last = s.last /\ u.born = s.born /\ u.synced = s.synced /\ u.held = s.held
           /\ u.early = s.early /\ u.emitted = s.emitted /\ u.frames = s.frames /\ u.dir = s.dir
           /\ u.resyncs = s.resyncs /\ u.closed = t
<1>1. s \in AStream BY DEF Sound, IsDecoder
<1> DEFINE closed == [s EXCEPT !.closed = t]
           closing == IF s.closed = Open THEN x.closing + 1 ELSE x.closing
           z == [x EXCEPT !.streams = [x.streams EXCEPT ![k] = closed]]
<1>2. /\ closed \in AStream /\ closed.closed = t
      /\ closed.last = s.last /\ closed.born = s.born /\ closed.synced = s.synced /\ closed.held = s.held
      /\ closed.early = s.early /\ closed.emitted = s.emitted /\ closed.frames = s.frames
      /\ closed.dir = s.dir /\ closed.resyncs = s.resyncs
  BY <1>1 DEF AStream
<1>3. y = [z EXCEPT !.closing = closing]
  <2>1. y = [x EXCEPT !.closing = closing, !.streams = [x.streams EXCEPT ![k] = closed]]
    BY <1>1 DEF Close, Sound, IsDecoder, Fields, AStream
  <2> HIDE DEF closed, closing
  <2> QED BY <2>1 DEF Sound, IsDecoder, Fields
<1>4. closing \in Int BY DEF Sound, IsDecoder, Fields
<1> HIDE DEF closed
<1>5. /\ IsDecoder(z) /\ Steady(x, z) /\ SameLock(x, z) /\ z.queue = x.queue
      /\ DOMAIN z.streams = DOMAIN x.streams
      /\ \A j \in DOMAIN x.streams : z.streams[j] = IF j = k THEN closed ELSE x.streams[j]
  <2> HIDE DEF z
  <2> QED BY <1>2, OneStream DEF Sound, z
<1> HIDE DEF z, closing
<1>6. /\ y \in Fields(y) /\ SameLock(z, y) /\ y.config = z.config /\ y.born = z.born /\ y.last = z.last
      /\ y.closing = closing /\ y.resyncs = z.resyncs /\ y.clientResyncs = z.clientResyncs
      /\ y.queue = z.queue /\ y.held = z.held /\ y.streams = z.streams
  BY <1>3, <1>4, <1>5 DEF IsDecoder, Fields, SameLock
<1>7. IsDecoder(y) BY <1>5, <1>6 DEF IsDecoder
<1>8. u = closed BY <1>5, <1>6
<1>9. Alike(x, y) BY <1>2, <1>5, <1>6, <1>8 DEF Alike, SameLock, Steady
<1>10. Sound(y) BY <1>7, <1>9, AlikePaired DEF Sound
<1> QED BY <1>2, <1>5, <1>6, <1>8, <1>10 DEF SameLock, Steady, closing

\* The segment's time is noted on its stream.
Heard(x, k, t) == [x EXCEPT !.streams[k].last = t]
Synced(x, k, t) == [x EXCEPT !.streams[k].last = t, !.streams[k].synced = TRUE]

LEMMA HeardEffect ==
    ASSUME NEW x, Sound(x), NEW k \in DOMAIN x.streams, NEW t \in Times,
           NEW y, y = Heard(x, k, t) \/ y = Synced(x, k, t), NEW s, s = x.streams[k], NEW u, u = y.streams[k]
    PROVE  /\ Sound(y) /\ Steady(x, y) /\ SameLock(x, y) /\ y.queue = x.queue
           /\ DOMAIN y.streams = DOMAIN x.streams
           /\ \A j \in DOMAIN x.streams : j # k => y.streams[j] = x.streams[j]
           /\ u.last = t /\ u.closed = s.closed /\ u.born = s.born /\ u.held = s.held
           /\ u.early = s.early /\ u.emitted = s.emitted /\ u.frames = s.frames /\ u.dir = s.dir
           /\ u.resyncs = s.resyncs
<1>1. s \in AStream BY DEF Sound, IsDecoder
<1>2. ASSUME NEW b \in BOOLEAN,
             y = [x EXCEPT !.streams = [x.streams EXCEPT ![k] = [s EXCEPT !.last = t, !.synced = b]]]
      PROVE  /\ Sound(y) /\ Steady(x, y) /\ SameLock(x, y) /\ y.queue = x.queue
             /\ DOMAIN y.streams = DOMAIN x.streams
             /\ \A j \in DOMAIN x.streams : j # k => y.streams[j] = x.streams[j]
             /\ u.last = t /\ u.closed = s.closed /\ u.born = s.born /\ u.held = s.held
             /\ u.early = s.early /\ u.emitted = s.emitted /\ u.frames = s.frames /\ u.dir = s.dir
             /\ u.resyncs = s.resyncs
  <2> DEFINE w == [s EXCEPT !.last = t, !.synced = b]
  <2>1. /\ w \in AStream /\ w.last = t /\ w.closed = s.closed /\ w.born = s.born /\ w.held = s.held
        /\ w.early = s.early /\ w.emitted = s.emitted /\ w.frames = s.frames /\ w.dir = s.dir
        /\ w.resyncs = s.resyncs
    BY <1>1 DEF AStream
  <2>2. y = [x EXCEPT !.streams = [x.streams EXCEPT ![k] = w]] BY <1>2
  <2> HIDE DEF w
  <2>3. /\ IsDecoder(y) /\ Steady(x, y) /\ SameLock(x, y) /\ y.queue = x.queue
        /\ DOMAIN y.streams = DOMAIN x.streams
        /\ \A j \in DOMAIN x.streams : y.streams[j] = IF j = k THEN w ELSE x.streams[j]
    BY <2>1, <2>2, OneStream DEF Sound
  <2>4. u = w BY <2>3
  <2>5. Alike(x, y) BY <2>1, <2>3, <2>4 DEF Alike, SameLock, Steady
  <2>6. Sound(y) BY <2>3, <2>5, AlikePaired DEF Sound
  <2> QED BY <2>1, <2>3, <2>4, <2>6
<1>3. CASE y = Heard(x, k, t)
  <2>1. [s EXCEPT !.last = t, !.synced = s.synced] = [s EXCEPT !.last = t] /\ s.synced \in BOOLEAN
    BY <1>1 DEF AStream
  <2>2. y = [x EXCEPT !.streams = [x.streams EXCEPT ![k] = [s EXCEPT !.last = t]]]
    BY <1>1, <1>3 DEF Heard, Sound, IsDecoder, Fields
  <2> QED BY <1>2, <2>1, <2>2
<1>4. CASE y = Synced(x, k, t)
  <2>1. y = [x EXCEPT !.streams = [x.streams EXCEPT ![k] = [s EXCEPT !.last = t, !.synced = TRUE]]]
    BY <1>1, <1>4 DEF Synced, Sound, IsDecoder, Fields
  <2> QED BY <1>2, <2>1
<1> QED BY <1>3, <1>4

LEMMA MarkIs ==
    ASSUME NEW x, NEW k, NEW t, NEW ctl
    PROVE  Mark(x, k, t, ctl) = IF ctl = "fin" THEN Close(Synced(x, k, t), k, t) ELSE Synced(x, k, t)
BY DEF Mark, Synced

\* letGo, before the other side is closed.
Unset(x) == [x EXCEPT !.srv = Nil]

LEMMA UnsetEffect ==
    ASSUME NEW x, Sound(x), NEW y, y = Unset(x)
    PROVE  /\ Sound(y) /\ Steady(x, y) /\ y.queue = x.queue /\ y.streams = x.streams
           /\ y.srv = Nil /\ y.lockAt = x.lockAt /\ y.locks = x.locks /\ y.pair = x.pair
<1>1. Nil \in Pointers BY DEF Nil, Pointers
<1>2. /\ y \in Fields(y) /\ Steady(x, y) /\ y.queue = x.queue /\ y.streams = x.streams
      /\ y.srv = Nil /\ y.lockAt = x.lockAt /\ y.locks = x.locks /\ y.pair = x.pair
  BY <1>1 DEF Unset, Sound, IsDecoder, Fields, Steady
<1>3. IsDecoder(y) BY <1>2 DEF Sound, IsDecoder
<1>4. Paired(y)
  BY <1>2 DEF Sound, Paired, PairHolds, PointersHold, Directed, Alive, Pointer, Steady
<1> QED BY <1>2, <1>3, <1>4 DEF Sound

LEMMA LetGoIs ==
    ASSUME NEW x, NEW k, NEW t
    PROVE  LetGo(x, k, t) = IF Reverse(k) \in DOMAIN Unset(x).streams /\ Unset(x).streams[Reverse(k)].closed = Open
                            THEN Close(Unset(x), Reverse(k), t) ELSE Unset(x)
BY DEF LetGo, Unset

-----------------------------------------------------------------------------
\* The counters beside the table.

ClosedOf(x) == {k \in DOMAIN x.streams : x.streams[k].closed # Open}
HeldOf(x)   == [k \in DOMAIN x.streams |-> x.streams[k].held]

Tallied(x) == /\ x.closing = Cardinality(ClosedOf(x))
              /\ x.held = SumOf(HeldOf(x), DOMAIN x.streams)
              /\ Cardinality(DOMAIN x.streams) <= MaxStreams

SameTally(x, y) == /\ DOMAIN y.streams = DOMAIN x.streams
                   /\ \A k \in DOMAIN x.streams : /\ y.streams[k].closed = x.streams[k].closed
                                                  /\ y.streams[k].held = x.streams[k].held
                   /\ y.closing = x.closing /\ y.held = x.held

\* Streams are only dropped, and what the others hold stays as it is.
Lighter(x, y) == /\ DOMAIN y.streams \subseteq DOMAIN x.streams
                 /\ \A j \in DOMAIN y.streams : y.streams[j].held = x.streams[j].held

LEMMA SameTallied ==
    ASSUME NEW x, NEW y, Tallied(x), SameTally(x, y)
    PROVE  Tallied(y) /\ Lighter(x, y)
<1>1. ClosedOf(y) = ClosedOf(x) BY DEF SameTally, ClosedOf
<1>2. HeldOf(y) = HeldOf(x) BY DEF SameTally, HeldOf
<1> QED BY <1>1, <1>2 DEF Tallied, SameTally, Lighter

LEMMA FiniteTable ==
    ASSUME NEW x, IsDecoder(x)
    PROVE  /\ IsFiniteSet(DOMAIN x.streams) /\ Cardinality(DOMAIN x.streams) \in Nat
           /\ IsFiniteSet(ClosedOf(x)) /\ Cardinality(ClosedOf(x)) \in Nat
           /\ Counts(HeldOf(x), DOMAIN x.streams)
<1>1. IsFiniteSet(DOMAIN x.streams) BY DecoderAssumption, FS_Subset DEF IsDecoder
<1>2. IsFiniteSet(ClosedOf(x)) BY <1>1, FS_Subset DEF ClosedOf
<1>3. Counts(HeldOf(x), DOMAIN x.streams) BY DEF Counts, HeldOf, IsDecoder, AStream
<1> QED BY <1>1, <1>2, <1>3, FS_CardinalityType

LEMMA DropTallied ==
    ASSUME NEW x, NEW S, IsDecoder(x), PointersHold(x), S \subseteq DOMAIN x.streams, Tallied(x),
           NEW y, y = Drop(x, S)
    PROVE  /\ Sound(x) => Sound(y)
           /\ Tallied(y) /\ DOMAIN y.streams = DOMAIN x.streams \ S
           /\ Lighter(x, y)
<1> DEFINE gone == {k \in S : x.streams[k].closed # Open}
           held == [k \in S |-> x.streams[k].held]
<1>1. IsFiniteSet(S) BY FiniteTable, FS_Subset
<1>2. IsDecoder(y) /\ (Sound(x) => Sound(y)) BY <1>1, DropHolds, DropSound
<1>3. /\ y.closing = x.closing - Cardinality(gone)
      /\ y.held = x.held - SumOf(held, S)
      /\ DOMAIN y.streams = DOMAIN x.streams \ S
      /\ \A k \in DOMAIN y.streams : Remains(x.streams[k], y.streams[k])
  BY DropEffect DEF GoneOf, HeldIn
<1>4. \A k \in DOMAIN y.streams : /\ y.streams[k].closed = x.streams[k].closed
                                  /\ y.streams[k].held = x.streams[k].held
  BY <1>3 DEF Remains
<1>5. y.closing = Cardinality(ClosedOf(y))
  <2>1. IsFiniteSet(ClosedOf(y)) /\ IsFiniteSet(gone) BY <1>1, <1>2, FiniteTable, FS_Subset
  <2>2. ClosedOf(x) = ClosedOf(y) \cup gone /\ ClosedOf(y) \cap gone = {} BY <1>3, <1>4 DEF ClosedOf
  <2> HIDE DEF gone
  <2>3. Cardinality(ClosedOf(y) \cup gone) = Cardinality(ClosedOf(y)) + Cardinality(gone) - Cardinality({})
    BY <2>1, <2>2, FS_Union
  <2>4. Cardinality(ClosedOf(y)) \in Nat /\ Cardinality(gone) \in Nat BY <2>1, FS_CardinalityType
  <2>5. Cardinality({}) = 0 BY FS_EmptySet
  <2> QED BY <1>3, <2>2, <2>3, <2>4, <2>5 DEF Tallied
<1>6. y.held = SumOf(HeldOf(y), DOMAIN y.streams)
  <2>1. IsFiniteSet(DOMAIN x.streams) /\ Counts(HeldOf(x), DOMAIN x.streams) BY FiniteTable
  <2>2. /\ SumOf(HeldOf(x), DOMAIN x.streams) = SumOf(HeldOf(x), S) + SumOf(HeldOf(x), DOMAIN x.streams \ S)
        /\ SumOf(HeldOf(x), S) \in Nat /\ SumOf(HeldOf(x), DOMAIN x.streams \ S) \in Nat
    BY <2>1, SumSplit
  <2>3. SumOf(held, S) = SumOf(HeldOf(x), S)
    <3>1. \A k \in S : held[k] = HeldOf(x)[k] BY DEF HeldOf
    <3> HIDE DEF held
    <3> QED BY <3>1, SumSame
  <2>4. SumOf(HeldOf(x), DOMAIN y.streams) = SumOf(HeldOf(y), DOMAIN y.streams)
    <3>1. \A k \in DOMAIN y.streams : HeldOf(x)[k] = HeldOf(y)[k] BY <1>3, <1>4 DEF HeldOf
    <3> QED BY <3>1, SumSame
  <2> HIDE DEF held
  <2> QED BY <1>3, <2>2, <2>3, <2>4 DEF Tallied
<1>7. Cardinality(DOMAIN y.streams) <= MaxStreams
  <2>1. Cardinality(DOMAIN y.streams) <= Cardinality(DOMAIN x.streams)
    BY <1>3, FiniteTable, FS_Subset
  <2>2. Cardinality(DOMAIN y.streams) \in Nat /\ Cardinality(DOMAIN x.streams) \in Nat
    BY <1>2, FiniteTable
  <2> QED BY <2>1, <2>2, DecoderAssumption DEF Tallied
<1> QED BY <1>2, <1>3, <1>4, <1>5, <1>6, <1>7 DEF Tallied, Lighter

LEMMA SweepTallied ==
    ASSUME NEW x, NEW t, Sound(x), Tallied(x)
    PROVE  Sound(Sweep(x, t)) /\ Tallied(Sweep(x, t))
<1> DEFINE S == {k \in DOMAIN x.streams :
                    x.streams[k].closed # Open /\ t - x.streams[k].closed >= CloseGrace}
<1>1. S \subseteq DOMAIN x.streams OBVIOUS
<1>2. Sweep(x, t) = IF x.closing = 0 THEN x ELSE Drop(x, S) BY DEF Sweep
<1> HIDE DEF S
<1> QED BY <1>1, <1>2, DropTallied DEF Sound, Paired

LEMMA AdmitTallied ==
    ASSUME NEW x, NEW k, NEW t \in Times, Sound(x), Tallied(x)
    PROVE  Tallied(Admit(x, k, t))
<1>1. SameTally(x, Unlock(x))
  <2>1. /\ Unlock(x).closing = x.closing /\ Unlock(x).held = x.held
        /\ DOMAIN Unlock(x).streams = DOMAIN x.streams
        /\ \A j \in DOMAIN x.streams : Remains(x.streams[j], Unlock(x).streams[j])
    BY UnlockEffect DEF Sound
  <2> QED BY <2>1 DEF SameTally, Remains
<1>2. ASSUME NEW v PROVE SameTally(x, [x EXCEPT !.lockAt = v])
  BY DEF SameTally, Sound, IsDecoder, Fields
<1>3. \/ Admit(x, k, t) = x
      \/ \E v : Admit(x, k, t) = [x EXCEPT !.lockAt = v]
      \/ Admit(x, k, t) = Unlock(x)
  BY DEF Admit
<1> QED BY <1>1, <1>2, <1>3, SameTallied

\* While the table is full, a stream hunts: no more than two have a direction.
LEMMA SomeHunt ==
    ASSUME NEW x, Sound(x), Cardinality(DOMAIN x.streams) >= MaxStreams
    PROVE  \E k \in DOMAIN x.streams : x.streams[k].dir = Hunting
<1> SUFFICES ASSUME \A k \in DOMAIN x.streams : x.streams[k].dir # Hunting PROVE FALSE OBVIOUS
<1>1. \A k \in DOMAIN x.streams : k = x.pair \/ Reverse(k) = x.pair BY DEF Sound, Paired, Directed
<1>2. \A k \in DOMAIN x.streams : k \in {x.pair, Reverse(x.pair)}
  BY <1>1, DecoderAssumption DEF Sound, IsDecoder
<1>3. IsFiniteSet({x.pair, Reverse(x.pair)}) /\ Cardinality({x.pair, Reverse(x.pair)}) <= 2
  <2>1. IsFiniteSet({x.pair}) /\ Cardinality({x.pair}) = 1 BY FS_Singleton
  <2>2. {x.pair} \cup {Reverse(x.pair)} = {x.pair, Reverse(x.pair)} OBVIOUS
  <2>3. IF Reverse(x.pair) \in {x.pair} THEN Cardinality({x.pair} \cup {Reverse(x.pair)}) = 1
                                        ELSE Cardinality({x.pair} \cup {Reverse(x.pair)}) = 1 + 1
    BY <2>1, FS_AddElement
  <2>4. IsFiniteSet({x.pair} \cup {Reverse(x.pair)}) BY <2>1, FS_AddElement
  <2> QED BY <2>2, <2>3, <2>4
<1>4. Cardinality(DOMAIN x.streams) <= Cardinality({x.pair, Reverse(x.pair)})
  <2>1. DOMAIN x.streams \subseteq {x.pair, Reverse(x.pair)} BY <1>2
  <2> QED BY <1>3, <2>1, FS_Subset
<1>5. Cardinality({x.pair, Reverse(x.pair)}) \in Nat /\ Cardinality(DOMAIN x.streams) \in Nat
  BY <1>3, FiniteTable, FS_CardinalityType DEF Sound
<1> QED BY <1>3, <1>4, <1>5, DecoderAssumption

\* Where a stream hunts, stalest finds one.
LEMMA StalestHunts ==
    ASSUME NEW x, Sound(x), NEW h \in DOMAIN x.streams, x.streams[h].dir = Hunting
    PROVE  Stalest(x) \in DOMAIN x.streams /\ x.streams[Stalest(x)].dir = Hunting
<1> DEFINE H == {k \in DOMAIN x.streams : x.streams[k].dir = Hunting}
           A == {x.streams[k].last : k \in H}
<1>1. \A k \in DOMAIN x.streams : x.streams[k].last \in Nat /\ x.streams[k].born \in Nat
  BY DecoderAssumption DEF Sound, IsDecoder, AStream
<1>2. PICK a \in A : \A b \in A : a <= b
  <2>1. A \in SUBSET Nat /\ A # {} BY <1>1
  <2> HIDE DEF A
  <2> QED BY <2>1, LeastNatural
<1> DEFINE B == {x.streams[k].born : k \in {j \in H : x.streams[j].last = a}}
<1>3. PICK b \in B : \A c \in B : b <= c
  <2>1. B \in SUBSET Nat /\ B # {} BY <1>1, <1>2
  <2> HIDE DEF B
  <2> QED BY <2>1, LeastNatural
<1>4. PICK k \in H : x.streams[k].last = a /\ x.streams[k].born = b BY <1>3
<1>5. \A j \in H : \/ x.streams[k].last < x.streams[j].last
                   \/ x.streams[k].last = x.streams[j].last /\ x.streams[k].born <= x.streams[j].born
  <2> SUFFICES ASSUME NEW j \in H
               PROVE  \/ x.streams[k].last < x.streams[j].last
                      \/ x.streams[k].last = x.streams[j].last /\ x.streams[k].born <= x.streams[j].born
    OBVIOUS
  <2>1. a <= x.streams[j].last /\ x.streams[j].last \in Nat /\ a \in Nat BY <1>1, <1>2
  <2>2. x.streams[j].last = a => b <= x.streams[j].born BY <1>3
  <2> QED BY <1>4, <2>1, <2>2
<1>6. Stalest(x) = CHOOSE i \in H : \A j \in H :
         \/ x.streams[i].last < x.streams[j].last
         \/ x.streams[i].last = x.streams[j].last /\ x.streams[i].born <= x.streams[j].born
  BY DEF Stalest
<1> HIDE DEF A, B, H
<1>7. Stalest(x) \in H BY <1>4, <1>5, <1>6
<1> QED BY <1>7 DEF H

\* Room for one more.
LEMMA MakeRoomTallied ==
    ASSUME NEW x, Sound(x), Tallied(x), NEW y, y = MakeRoom(x)
    PROVE  Sound(y) /\ Tallied(y) /\ Cardinality(DOMAIN y.streams) < MaxStreams
<1>1. Cardinality(DOMAIN x.streams) \in Nat /\ MaxStreams \in Nat BY FiniteTable, DecoderAssumption DEF Sound
<1>2. CASE Cardinality(DOMAIN x.streams) >= MaxStreams
  <2>1. PICK h \in DOMAIN x.streams : x.streams[h].dir = Hunting BY <1>2, SomeHunt
  <2>2. Stalest(x) \in DOMAIN x.streams BY <2>1, StalestHunts
  <2> DEFINE S == {Stalest(x)}
  <2>3. y = Drop(x, S) BY <1>2 DEF MakeRoom
  <2>4. S \subseteq DOMAIN x.streams BY <2>2
  <2>5. Sound(y) /\ Tallied(y) /\ DOMAIN y.streams = DOMAIN x.streams \ S
    <3> HIDE DEF S
    <3> QED BY <2>3, <2>4, DropTallied DEF Sound, Paired
  <2>6. IsFiniteSet(DOMAIN x.streams) BY FiniteTable DEF Sound
  <2>7. Cardinality(DOMAIN x.streams \ {Stalest(x)}) = Cardinality(DOMAIN x.streams) - 1
    BY <2>2, <2>6, FS_RemoveElement
  <2> QED BY <1>1, <2>5, <2>7 DEF Tallied
<1>3. CASE ~(Cardinality(DOMAIN x.streams) >= MaxStreams)
  BY <1>1, <1>3 DEF MakeRoom
<1> QED BY <1>2, <1>3

LEMMA MakeEffect ==
    ASSUME NEW x, IsDecoder(x), NEW k \in Keys, NEW t \in Times, NEW y, y = Make(x, k, t)
    PROVE  /\ SameLock(x, y) /\ y.config = x.config /\ y.queue = x.queue /\ y.closing = x.closing
           /\ y.held = x.held /\ y.resyncs = x.resyncs /\ y.clientResyncs = x.clientResyncs
           /\ y.born = x.born + 1 /\ y.last = Pointer(y, k)
           /\ DOMAIN y.streams = DOMAIN x.streams \cup {k}
           /\ \A j \in DOMAIN x.streams \ {k} : y.streams[j] = x.streams[j]
           /\ y.streams[k] = NewStream(x, t)
<1> DEFINE streams == [j \in DOMAIN x.streams \cup {k} |-> IF j = k THEN NewStream(x, t) ELSE x.streams[j]]
           born == x.born + 1
           last == [key |-> k, born |-> x.born]
<1>1. y = [x EXCEPT !.streams = streams, !.born = born, !.last = last] BY DEF Make, IsDecoder, Fields
<1>2. /\ DOMAIN streams = DOMAIN x.streams \cup {k}
      /\ \A j \in DOMAIN x.streams \ {k} : streams[j] = x.streams[j]
      /\ streams[k] = NewStream(x, t)
  OBVIOUS
<1> HIDE DEF streams, born, last
<1>3. /\ SameLock(x, y) /\ y.config = x.config /\ y.queue = x.queue /\ y.closing = x.closing
      /\ y.held = x.held /\ y.resyncs = x.resyncs /\ y.clientResyncs = x.clientResyncs
      /\ y.born = born /\ y.last = last /\ y.streams = streams
  BY <1>1 DEF IsDecoder, Fields, SameLock
<1>4. y.last = Pointer(y, k) BY <1>2, <1>3 DEF last, Pointer, NewStream
<1> QED BY <1>2, <1>3, <1>4 DEF born

LEMMA MakeTallied ==
    ASSUME NEW x, NEW k \in Keys, NEW t \in Times, Sound(x), Fits(x, k), k \notin DOMAIN x.streams,
           Tallied(x), Cardinality(DOMAIN x.streams) < MaxStreams, NEW y, y = Make(x, k, t)
    PROVE  Tallied(y)
<1> DEFINE D == DOMAIN x.streams
<1>1. /\ y.closing = x.closing /\ y.held = x.held /\ DOMAIN y.streams = D \cup {k}
      /\ \A j \in D : y.streams[j] = x.streams[j]
      /\ y.streams[k].closed = Open /\ y.streams[k].held = 0
  <2>1. NewStream(x, t).closed = Open /\ NewStream(x, t).held = 0 BY DEF NewStream
  <2>2. IsDecoder(x) BY DEF Sound
  <2>3. /\ y.closing = x.closing /\ y.held = x.held /\ DOMAIN y.streams = DOMAIN x.streams \cup {k}
        /\ \A j \in DOMAIN x.streams \ {k} : y.streams[j] = x.streams[j]
        /\ y.streams[k] = NewStream(x, t)
    BY <2>2, MakeEffect
  <2> QED BY <2>1, <2>3
<1>2. Sound(y) BY MakeSound
<1>3. ClosedOf(y) = ClosedOf(x) BY <1>1 DEF ClosedOf
<1>4. Cardinality(DOMAIN y.streams) <= MaxStreams
  <2>1. IsFiniteSet(D) /\ Cardinality(D) \in Nat BY FiniteTable DEF Sound
  <2>2. Cardinality(D \cup {k}) = Cardinality(D) + 1 BY <2>1, FS_AddElement
  <2> QED BY <1>1, <2>1, <2>2, DecoderAssumption
<1>5. SumOf(HeldOf(y), DOMAIN y.streams) = SumOf(HeldOf(x), D)
  <2>1. IsFiniteSet(DOMAIN y.streams) /\ Counts(HeldOf(y), DOMAIN y.streams) BY <1>2, FiniteTable DEF Sound
  <2>2. {k} \subseteq DOMAIN y.streams /\ DOMAIN y.streams \ {k} = D BY <1>1
  <2>3. /\ SumOf(HeldOf(y), DOMAIN y.streams) = SumOf(HeldOf(y), {k}) + SumOf(HeldOf(y), D)
        /\ SumOf(HeldOf(y), D) \in Nat
    <3>1. /\ SumOf(HeldOf(y), DOMAIN y.streams)
                 = SumOf(HeldOf(y), {k}) + SumOf(HeldOf(y), DOMAIN y.streams \ {k})
          /\ SumOf(HeldOf(y), DOMAIN y.streams \ {k}) \in Nat
      BY <2>1, <2>2, SumSplit
    <3> QED BY <2>2, <3>1
  <2>4. HeldOf(y)[k] = 0 BY <1>1 DEF HeldOf
  <2>5. SumOf(HeldOf(y), {k}) = 0 BY <2>4, SumOfOne
  <2>6. SumOf(HeldOf(y), D) = SumOf(HeldOf(x), D)
    <3>1. \A j \in D : HeldOf(y)[j] = HeldOf(x)[j] BY <1>1 DEF HeldOf
    <3> QED BY <3>1, SumSame
  <2> QED BY <2>3, <2>5, <2>6
<1> QED BY <1>1, <1>3, <1>4, <1>5 DEF Tallied

\* stream, where the stream looked up last is not the one, but is in the table.
Recall(x, k) == [x EXCEPT !.last = Pointer(x, k)]

LEMMA StreamIs ==
    ASSUME NEW x, NEW k, NEW t
    PROVE  Stream(x, k, t) = IF x.last.key = k THEN x
                             ELSE IF k \in DOMAIN x.streams THEN Recall(x, k) ELSE Make(MakeRoom(x), k, t)
BY DEF Stream, Recall

LEMMA StreamTallied ==
    ASSUME NEW x, NEW k \in Keys, NEW t \in Times, Sound(x), Fits(x, k), Tallied(x), NEW y, y = Stream(x, k, t)
    PROVE  Sound(y) /\ k \in DOMAIN y.streams /\ Tallied(y)
<1>1. Sound(y) /\ k \in DOMAIN y.streams BY StreamSound
<1>2. SameTally(x, Recall(x, k)) BY DEF SameTally, Recall, Sound, IsDecoder, Fields
<1>3. CASE x.last.key # k /\ k \notin DOMAIN x.streams
  <2> DEFINE m == MakeRoom(x)
  <2>1. Sound(m) /\ Tallied(m) /\ Cardinality(DOMAIN m.streams) < MaxStreams BY MakeRoomTallied
  <2>2. m.srv \in {x.srv, Nil} /\ DOMAIN m.streams \subseteq DOMAIN x.streams BY MakeRoomSound
  <2>3. Fits(m, k) BY <2>2 DEF Fits, InPair
  <2>4. y = Make(m, k, t) BY <1>3, StreamIs
  <2> HIDE DEF m
  <2> QED BY <1>1, <1>3, <2>1, <2>2, <2>3, <2>4, MakeTallied
<1> QED BY <1>1, <1>2, <1>3, SameTallied, StreamIs

LEMMA LockTallied ==
    ASSUME NEW x, NEW k, Sound(x), k \in DOMAIN x.streams, Tallied(x), NEW y, y = Lock(x, k)
    PROVE  Sound(y) /\ Tallied(y) /\ Lighter(x, y)
<1> DEFINE r == Reverse(k)
           b == Both(x, k)
           S == DOMAIN x.streams \ {k, r}
<1>1. Sound(y) BY LockSound
<1>2. /\ IsDecoder(b) /\ PointersHold(b) /\ Steady(x, b) /\ DOMAIN b.streams = DOMAIN x.streams
      /\ \A j \in DOMAIN x.streams : Stays(x.streams[j], b.streams[j])
      /\ b.srv = Pointer(x, k)
      /\ \A j \in DOMAIN x.streams :
            b.streams[j].dir = IF j = k THEN Server ELSE IF j = r THEN Client ELSE x.streams[j].dir
  BY BothEffect DEF Sound, Paired
<1>3. y = Drop(b, S) BY LockIs
<1> HIDE DEF b
<1>4. SameTally(x, b) BY <1>2 DEF SameTally, Steady, Stays
<1>5. Tallied(b) /\ Lighter(x, b) BY <1>4, SameTallied
<1>6. S \subseteq DOMAIN b.streams BY <1>2
<1> HIDE DEF S
<1>7. Tallied(y) /\ Lighter(b, y) BY <1>2, <1>3, <1>5, <1>6, DropTallied
<1> QED BY <1>1, <1>5, <1>7 DEF Lighter

LEMMA HuntTallied ==
    ASSUME NEW x, Sound(x), NEW k \in DOMAIN x.streams, NEW f, Tallied(x), NEW y, y = Hunt(x, k, f)
    PROVE  Tallied(y) /\ Lighter(x, y)
<1> DEFINE c == Counting(x, k, f)
<1>1. /\ Sound(c) /\ Steady(x, c) /\ DOMAIN c.streams = DOMAIN x.streams
      /\ \A j \in DOMAIN x.streams : j # k => c.streams[j] = x.streams[j]
      /\ Remains(x.streams[k], c.streams[k])
      /\ \/ y = x
         \/ x.streams[k].dir = Hunting /\ (y = c \/ y = Lock(c, k))
  BY HuntEffect
<1> HIDE DEF c
<1>2. SameTally(x, c) BY <1>1 DEF SameTally, Steady, Remains
<1>3. Tallied(c) /\ Lighter(x, c) BY <1>2, SameTallied
<1>4. Tallied(Lock(c, k)) /\ Lighter(c, Lock(c, k)) BY <1>1, <1>3, LockTallied
<1>5. Lighter(x, x) BY DEF Lighter
<1> QED BY <1>1, <1>3, <1>4, <1>5 DEF Lighter

LEMMA EmitTallied ==
    ASSUME NEW x, Sound(x), NEW k \in DOMAIN x.streams, NEW f, Tallied(x), NEW y, y = Emit(x, k, f)
    PROVE  /\ Sound(y) /\ k \in DOMAIN y.streams /\ Tallied(y) /\ Lighter(x, y)
           /\ y.streams[k].held = x.streams[k].held
<1> DEFINE h == IF x.srv = Nil THEN Hunt(x, k, f) ELSE x
<1>1. Sound(h) /\ k \in DOMAIN h.streams
  <2>1. CASE x.srv = Nil BY <2>1, HuntSound DEF Earned
  <2>2. CASE x.srv # Nil BY <2>2
  <2> QED BY <2>1, <2>2
<1>2. Tallied(h) /\ Lighter(x, h)
  <2>1. Lighter(x, x) BY DEF Lighter
  <2> QED BY <2>1, HuntTallied
<1>3. h.streams[k].held = x.streams[k].held BY <1>1, <1>2 DEF Lighter
<1>4. y = Sort(h, k, f) BY DEF Emit
<1> HIDE DEF h
<1>5. /\ Sound(y) /\ Steady(h, y) /\ DOMAIN y.streams = DOMAIN h.streams
      /\ \A j \in DOMAIN h.streams : j # k => y.streams[j] = h.streams[j]
      /\ y.streams[k].held = h.streams[k].held /\ y.streams[k].closed = h.streams[k].closed
  BY <1>1, <1>4, SortEffect
<1>6. SameTally(h, y) BY <1>5 DEF SameTally, Steady
<1>7. Tallied(y) /\ Lighter(h, y) BY <1>2, <1>6, SameTallied
<1> QED BY <1>1, <1>2, <1>3, <1>5, <1>7 DEF Lighter

LEMMA EmitAllTallied ==
    ASSUME NEW x, Sound(x), NEW k \in DOMAIN x.streams, NEW fs, Tallied(x), NEW y, y = EmitAll(x, k, fs)
    PROVE  Sound(y) /\ k \in DOMAIN y.streams /\ Tallied(y) /\ Lighter(x, y)
<1> DEFINE e == Emit(x, k, fs[1])
<1>1. Sound(e) /\ k \in DOMAIN e.streams /\ Tallied(e) /\ Lighter(x, e) BY EmitTallied
<1>2. y = x \/ y = e \/ y = Emit(e, k, fs[2]) BY DEF EmitAll
<1> HIDE DEF e
<1>3. CASE y = x BY <1>3 DEF Lighter
<1>4. CASE y = e BY <1>1, <1>4
<1>5. CASE y = Emit(e, k, fs[2])
  <2>1. Sound(y) /\ k \in DOMAIN y.streams /\ Tallied(y) /\ Lighter(e, y) BY <1>1, <1>5, EmitTallied
  <2> QED BY <1>1, <2>1 DEF Lighter
<1> QED BY <1>2, <1>3, <1>4, <1>5

\* What is held of the stream itself is what reassembly left.
LEMMA TakeTallied ==
    ASSUME NEW x, Sound(x), NEW k \in DOMAIN x.streams, NEW o, o.resyncs \in Nat, o.held \in Nat, Tallied(x),
           NEW y, y = Take(x, k, o)
    PROVE  /\ Sound(y) /\ k \in DOMAIN y.streams /\ Tallied(y)
           /\ DOMAIN y.streams \subseteq DOMAIN x.streams
           /\ \A j \in DOMAIN y.streams : y.streams[j].held = IF j = k THEN o.held ELSE x.streams[j].held
<1> DEFINE z == Taking(x, k, o)
           D == DOMAIN x.streams
<1>1. /\ Sound(z) /\ z.closing = x.closing /\ z.held = x.held - x.streams[k].held + o.held
      /\ DOMAIN z.streams = D
      /\ \A j \in D : j # k => z.streams[j] = x.streams[j]
      /\ z.streams[k].closed = x.streams[k].closed /\ z.streams[k].held = o.held
  BY TakingEffect
<1>2. y = EmitAll(z, k, o.frames) BY TakeIs
<1> HIDE DEF z
<1>3. Tallied(z)
  <2>1. ClosedOf(z) = ClosedOf(x) BY <1>1 DEF ClosedOf
  <2>2. /\ SumOf(HeldOf(z), D) = SumOf(HeldOf(x), D) - HeldOf(x)[k] + HeldOf(z)[k]
    <3>1. IsFiniteSet(D) /\ Counts(HeldOf(x), D) /\ Counts(HeldOf(z), D) BY <1>1, FiniteTable DEF Sound
    <3>2. \A j \in D \ {k} : HeldOf(z)[j] = HeldOf(x)[j] BY <1>1 DEF HeldOf
    <3> QED BY <3>1, <3>2, SumChanges
  <2>3. HeldOf(x)[k] = x.streams[k].held /\ HeldOf(z)[k] = o.held BY <1>1 DEF HeldOf
  <2> QED BY <1>1, <2>1, <2>2, <2>3 DEF Tallied
<1>4. Sound(y) /\ k \in DOMAIN y.streams /\ Tallied(y) /\ Lighter(z, y) BY <1>1, <1>2, <1>3, EmitAllTallied
<1> QED BY <1>1, <1>4 DEF Lighter

LEMMA AckedTallied ==
    ASSUME NEW x, Sound(x), NEW k, NEW o, o.resyncs \in Nat, o.held \in Nat, Tallied(x),
           NEW y, y = Acked(x, k, o)
    PROVE  Tallied(y)
BY TakeTallied DEF Acked

LEMMA CloseTallied ==
    ASSUME NEW x, Sound(x), NEW k \in DOMAIN x.streams, NEW t \in Times, Tallied(x), NEW y, y = Close(x, k, t)
    PROVE  Sound(y) /\ Tallied(y) /\ DOMAIN y.streams = DOMAIN x.streams
<1>1. /\ Sound(y) /\ y.held = x.held
      /\ y.closing = IF x.streams[k].closed = Open THEN x.closing + 1 ELSE x.closing
      /\ DOMAIN y.streams = DOMAIN x.streams
      /\ \A j \in DOMAIN x.streams : j # k => y.streams[j] = x.streams[j]
      /\ y.streams[k].held = x.streams[k].held /\ y.streams[k].closed = t
  BY CloseEffect
<1>2. t # Open BY DecoderAssumption DEF Open
<1>3. HeldOf(y) = HeldOf(x) BY <1>1 DEF HeldOf
<1>4. y.closing = Cardinality(ClosedOf(y))
  <2>1. ClosedOf(y) = ClosedOf(x) \cup {k} BY <1>1, <1>2 DEF ClosedOf
  <2>2. k \in ClosedOf(x) <=> x.streams[k].closed # Open BY DEF ClosedOf
  <2>3. IsFiniteSet(ClosedOf(x)) BY FiniteTable DEF Sound
  <2>4. Cardinality(ClosedOf(x) \cup {k}) = IF k \in ClosedOf(x) THEN Cardinality(ClosedOf(x))
                                            ELSE Cardinality(ClosedOf(x)) + 1
    BY <2>3, FS_AddElement
  <2> QED BY <1>1, <2>1, <2>2, <2>4 DEF Tallied
<1> QED BY <1>1, <1>3, <1>4 DEF Tallied

LEMMA HeardTallied ==
    ASSUME NEW x, Sound(x), NEW k \in DOMAIN x.streams, NEW t \in Times, Tallied(x),
           NEW y, y = Heard(x, k, t) \/ y = Synced(x, k, t)
    PROVE  Sound(y) /\ Tallied(y) /\ DOMAIN y.streams = DOMAIN x.streams
<1>1. /\ Sound(y) /\ Steady(x, y)
      /\ DOMAIN y.streams = DOMAIN x.streams
      /\ \A j \in DOMAIN x.streams : j # k => y.streams[j] = x.streams[j]
      /\ y.streams[k].held = x.streams[k].held /\ y.streams[k].closed = x.streams[k].closed
  BY HeardEffect
<1>2. SameTally(x, y) BY <1>1 DEF SameTally, Steady
<1> QED BY <1>1, <1>2, SameTallied

LEMMA MarkTallied ==
    ASSUME NEW x, Sound(x), NEW k \in DOMAIN x.streams, NEW t \in Times, NEW ctl, Tallied(x),
           NEW y, y = Mark(x, k, t, ctl)
    PROVE  Sound(y) /\ Tallied(y) /\ DOMAIN y.streams = DOMAIN x.streams
<1> DEFINE m == Synced(x, k, t)
<1>1. Sound(m) /\ Tallied(m) /\ DOMAIN m.streams = DOMAIN x.streams BY HeardTallied
<1>2. y = IF ctl = "fin" THEN Close(m, k, t) ELSE m BY MarkIs
<1> HIDE DEF m
<1> QED BY <1>1, <1>2, CloseTallied

LEMMA LetGoTallied ==
    ASSUME NEW x, Sound(x), NEW k, NEW t \in Times, Tallied(x), NEW y, y = LetGo(x, k, t)
    PROVE  Tallied(y)
<1> DEFINE z == Unset(x)
           r == Reverse(k)
<1>1. Sound(z) /\ Steady(x, z) /\ z.streams = x.streams BY UnsetEffect
<1>2. y = IF r \in DOMAIN z.streams /\ z.streams[r].closed = Open THEN Close(z, r, t) ELSE z BY LetGoIs
<1> HIDE DEF z, r
<1>3. SameTally(x, z) BY <1>1 DEF SameTally, Steady
<1>4. Tallied(z) BY <1>3, SameTallied
<1> QED BY <1>1, <1>2, <1>4, CloseTallied

LEMMA FoundTallied ==
    ASSUME NEW x, NEW k \in Keys, NEW t \in Times, NEW ctl, Sound(x), Fits(x, k), Tallied(x),
           NEW y, y = Found(x, k, t, ctl)
    PROVE  Sound(y) /\ k \in DOMAIN y.streams /\ Tallied(y)
<1> DEFINE s == Stream(x, k, t)
           e == Drop(s, {k})
<1>1. Sound(s) /\ k \in DOMAIN s.streams /\ Tallied(s) BY StreamTallied
<1>2. Fits(s, k) BY StreamSound
<1>3. y = IF ctl = "renew" THEN Stream(e, k, t) ELSE s BY DEF Found, Renew
<1> HIDE DEF s
<1>4. {k} \subseteq DOMAIN s.streams BY <1>1
<1>5. Sound(e) /\ Tallied(e) BY <1>1, <1>4, DropTallied DEF Sound, Paired
<1>6. Fits(e, k)
  <2>1. IsFiniteSet({k}) BY FS_Singleton
  <2>2. e.srv \in {s.srv, Nil} BY <1>1, <2>1, DropSound
  <2> QED BY <1>2, <2>2 DEF Fits, InPair
<1> HIDE DEF e
<1>7. Sound(Stream(e, k, t)) /\ k \in DOMAIN Stream(e, k, t).streams /\ Tallied(Stream(e, k, t))
  BY <1>5, <1>6, StreamTallied
<1> QED BY <1>1, <1>3, <1>7

LEMMA FedTallied ==
    ASSUME NEW x, NEW k \in DOMAIN x.streams, NEW t \in Times, NEW ctl, NEW payload, NEW o, NEW inOrder,
           Sound(x), Tallied(x), o.resyncs \in Nat, o.held \in Nat,
           NEW y, y = Fed(x, k, t, ctl, payload, o, inOrder)
    PROVE  Tallied(y)
<1> DEFINE m == Mark(x, k, t, ctl)
           p == IF payload THEN Take(m, k, o) ELSE m
<1>1. Sound(m) /\ Tallied(m) /\ k \in DOMAIN m.streams BY MarkTallied
<1>2. y = p \/ y = LetGo(p, k, t) BY DEF Fed, LetGoIf
<1> HIDE DEF m
<1>3. Sound(p) /\ Tallied(p) BY <1>1, TakeTallied
<1> HIDE DEF p
<1> QED BY <1>2, <1>3, LetGoTallied

-----------------------------------------------------------------------------
\* The counters and the table in every state.

\* What the flush has reached holds nothing, and what waits is only for it to reach the end.
Flushed == /\ phase = "flushing" => \A k \in DOMAIN d.streams \ flushing : d.streams[k].held = 0
           /\ phase = "over" => \A k \in DOMAIN d.streams : d.streams[k].held = 0 /\ d.streams[k].early = <<>>

TInv == IInv /\ Tallied(d) /\ Flushed

LEMMA DrainedTallied ==
    ASSUME Sound(d), Tallied(d)
    PROVE  Sound(Drained) /\ Tallied(Drained) /\ Drained.streams = d.streams
<1>1. Sound(Drained) /\ Drained.streams = d.streams BY DrainedSound
<1>2. SameTally(d, Drained) BY <1>1 DEF SameTally, Drained, Sound, IsDecoder, Fields
<1> QED BY <1>1, <1>2, SameTallied

LEMMA SweptTallied ==
    ASSUME NEW t, Sound(d), Tallied(d)
    PROVE  Sound(Swept(t)) /\ Tallied(Swept(t))
BY DrainedTallied, SweepTallied DEF Swept

LEMMA ForgottenEffect ==
    ASSUME NEW x, Sound(x), NEW y, y = Forgotten(x)
    PROVE  /\ Sound(y) /\ Steady(x, y) /\ SameLock(x, y) /\ y.queue = x.queue
           /\ DOMAIN y.streams = DOMAIN x.streams
           /\ \A k \in DOMAIN x.streams : /\ Stays(x.streams[k], y.streams[k])
                                          /\ y.streams[k].dir = x.streams[k].dir
                                          /\ y.streams[k].early = <<>>
<1> DEFINE streams == [k \in DOMAIN x.streams |-> [x.streams[k] EXCEPT !.early = <<>>]]
<1>1. Sound(y) BY ForgottenSound
<1>2. \A k \in DOMAIN x.streams : x.streams[k] \in AStream BY DEF Sound, IsDecoder
<1>3. /\ DOMAIN streams = DOMAIN x.streams
      /\ \A k \in DOMAIN x.streams : /\ Stays(x.streams[k], streams[k])
                                     /\ streams[k].dir = x.streams[k].dir
                                     /\ streams[k].early = <<>>
  BY <1>2 DEF AStream, Stays
<1>4. y = [x EXCEPT !.streams = streams] BY DEF Forgotten
<1> HIDE DEF streams
<1>5. Steady(x, y) /\ SameLock(x, y) /\ y.queue = x.queue /\ y.streams = streams
  BY <1>4 DEF Sound, IsDecoder, Fields, Steady, SameLock
<1> QED BY <1>1, <1>3, <1>5

LEMMA InitTallied == Init => TInv
<1> SUFFICES ASSUME Init PROVE TInv OBVIOUS
<1>1. IInv BY InitHolds
<1>2. d.streams = <<>> /\ d.closing = 0 /\ d.held = 0 BY DEF Init
<1>3. DOMAIN d.streams = {} BY <1>2
<1>4. ClosedOf(d) = {} BY <1>3 DEF ClosedOf
<1>5. SumOf(HeldOf(d), DOMAIN d.streams) = 0 BY <1>3, SumOfNone
<1>6. Tallied(d) BY <1>2, <1>3, <1>4, <1>5, FS_EmptySet, DecoderAssumption DEF Tallied
<1>7. Flushed BY <1>3 DEF Flushed
<1> QED BY <1>1, <1>6, <1>7 DEF TInv

LEMMA NextTallied == TInv /\ [Next]_vars => TInv'
<1> SUFFICES ASSUME TInv, [Next]_vars PROVE TInv' OBVIOUS
<1>1. Sound(d) /\ Tallied(d) /\ IInv BY DEF TInv, IInv, TypeOK, Sound
<1>2. IInv' BY <1>1, NextHolds
<1>3. ASSUME Tallied(d'), Flushed' PROVE TInv'
  BY <1>2, <1>3 DEF TInv, Tallied, ClosedOf, HeldOf, SumOf
<1>4. ASSUME Tallied(d'), phase = "reading", phase' = phase PROVE TInv'
  BY <1>3, <1>4 DEF Flushed
<1>5. ASSUME NEW k \in Keys, NEW t \in Times, Refuse(k, t) PROVE TInv'
  BY <1>1, <1>4, <1>5, SweptTallied DEF Refuse, Becomes
<1>6. ASSUME NEW k \in Keys, NEW t \in Times, Admits(Swept(t), k, t)
      PROVE  LET a == Admit(Swept(t), k, t) IN Sound(a) /\ Fits(a, k) /\ Tallied(a)
  BY <1>1, <1>6, SweptTallied, AdmitSound, AdmitTallied
<1>7. ASSUME NEW k \in Keys, NEW t \in Times, BareAck(k, t) PROVE TInv'
  <2> DEFINE a == Admit(Swept(t), k, t)
  <2>1. Sound(a) /\ Tallied(a) BY <1>6, <1>7 DEF BareAck
  <2>2. PICK o \in AckOutcomes(a, Reverse(k)) : d' = Acked(a, Reverse(k), o)
    BY <1>7 DEF BareAck, HeedAck, Becomes
  <2> HIDE DEF a
  <2>3. o.resyncs \in Nat /\ o.held \in Nat BY <2>1, OutcomeType DEF Sound
  <2>4. Tallied(d') BY <2>1, <2>2, <2>3, AckedTallied
  <2> QED BY <1>4, <1>7, <2>4 DEF BareAck
<1>8. ASSUME NEW k \in Keys, NEW t \in Times, FeedSegment(k, t) PROVE TInv'
  <2> DEFINE a == Admit(Swept(t), k, t)
  <2>1. Sound(a) /\ Fits(a, k) /\ Tallied(a) BY <1>6, <1>8 DEF FeedSegment
  <2>2. PICK o \in AckOutcomes(a, Reverse(k)), ctl \in Controls \ {"feed"} :
           FeedStream(Found(Acked(a, Reverse(k), o), k, t, ctl), k, t, ctl)
    BY <1>8 DEF FeedSegment, FeedAdmitted
  <2> HIDE DEF a
  <2> DEFINE b == Acked(a, Reverse(k), o)
             s == Found(b, k, t, ctl)
  <2>3. o.resyncs \in Nat /\ o.held \in Nat BY <2>1, OutcomeType DEF Sound
  <2>4. Sound(b) /\ Fits(b, k) /\ Tallied(b)
    <3>1. Sound(b) /\ (b.srv = a.srv \/ (b.srv # Nil /\ b.srv.key = Reverse(k)))
      BY <2>1, <2>3, AckedSound
    <3> QED BY <2>1, <2>3, <3>1, AckedTallied DEF Fits, InPair
  <2> HIDE DEF b
  <2>5. Sound(s) /\ k \in DOMAIN s.streams /\ Tallied(s) BY <2>4, FoundTallied
  <2>6. FeedStream(s, k, t, ctl) BY <2>2 DEF b
  <2> HIDE DEF s
  <2>7. PICK payload \in BOOLEAN, p \in Placed(s, k, ctl) \cup {Nothing(s, k)}, inOrder \in InOrder(s, k, ctl) :
           d' = Fed(s, k, t, ctl, payload, p, inOrder)
    BY <2>6 DEF FeedStream, Becomes
  <2>8. p.resyncs \in Nat /\ p.held \in Nat BY <2>5, <2>7, OutcomeType DEF Sound, Placed
  <2>9. Tallied(d') BY <2>5, <2>7, <2>8, FedTallied
  <2> QED BY <1>4, <1>8, <2>9 DEF FeedSegment
<1>9. ASSUME NEW k \in Keys, NEW t \in Times, Feed(k, t) PROVE TInv'
  <2> DEFINE a == Admit(Swept(t), k, t)
             s == Stream(a, k, t)
             fed == Heard(s, k, t)
  <2>1. Sound(a) /\ Fits(a, k) /\ Tallied(a) BY <1>6, <1>9 DEF Feed
  <2>2. PICK o \in Outcomes(0) : d' = Take(fed, k, [o EXCEPT !.held = s.streams[k].held])
    BY <1>9 DEF Feed, FeedPayload, Becomes, Heard
  <2> HIDE DEF a
  <2>3. Sound(s) /\ k \in DOMAIN s.streams /\ Tallied(s) BY <2>1, StreamTallied
  <2> HIDE DEF s
  <2> DEFINE p == [o EXCEPT !.held = s.streams[k].held]
  <2>4. p.resyncs \in Nat /\ p.held \in Nat
    <3>1. s.streams[k].held \in Nat BY <2>3 DEF Sound, IsDecoder, AStream
    <3> QED BY <3>1 DEF Outcomes
  <2> HIDE DEF p
  <2>5. Sound(fed) /\ k \in DOMAIN fed.streams /\ Tallied(fed) BY <2>3, HeardTallied
  <2> HIDE DEF fed
  <2>6. d' = Take(fed, k, p) BY <2>2 DEF p
  <2>7. Tallied(d') BY <2>4, <2>5, <2>6, TakeTallied
  <2> QED BY <1>4, <1>9, <2>7 DEF Feed
<1>10. CASE BeginFlush
  <2>1. Tallied(d') /\ d'.streams = d.streams /\ flushing' = DOMAIN d.streams /\ phase' = "flushing"
    BY <1>1, <1>10, DrainedTallied DEF BeginFlush
  <2> QED BY <1>3, <2>1 DEF Flushed
<1>11. CASE FlushStream
  <2>1. PICK k \in flushing, o \in Outcomes(0) :
           /\ d' = Take(Drained, k, o)
           /\ flushing' = (flushing \ {k}) \cap DOMAIN d'.streams
    BY <1>11 DEF FlushStream, FlushTo, Becomes
  <2>2. Sound(Drained) /\ Tallied(Drained) /\ k \in DOMAIN Drained.streams /\ Drained.streams = d.streams
    BY <1>1, DrainedTallied DEF IInv, TypeOK
  <2>3. o.resyncs \in Nat /\ o.held = 0 BY DEF Outcomes
  <2>4. /\ Tallied(d') /\ DOMAIN d'.streams \subseteq DOMAIN d.streams
        /\ \A j \in DOMAIN d'.streams : d'.streams[j].held = IF j = k THEN 0 ELSE d.streams[j].held
    BY <2>1, <2>2, <2>3, TakeTallied
  <2>5. phase = "flushing" /\ phase' = "flushing" BY <1>11 DEF FlushStream
  <2>6. Flushed' BY <2>1, <2>4, <2>5 DEF TInv, Flushed
  <2> QED BY <1>3, <2>4, <2>6
<1>12. CASE EndFlush
  <2>1. Sound(Drained) /\ Tallied(Drained) /\ Drained.streams = d.streams BY <1>1, DrainedTallied
  <2>2. phase = "flushing" /\ flushing = {} /\ phase' = "over" /\ d' = Forgotten(Drained)
    BY <1>12 DEF EndFlush
  <2>3. /\ Steady(Drained, d') /\ DOMAIN d'.streams = DOMAIN d.streams
        /\ \A k \in DOMAIN d.streams : Stays(d.streams[k], d'.streams[k]) /\ d'.streams[k].early = <<>>
    BY <2>1, <2>2, ForgottenEffect
  <2>4. SameTally(Drained, d') BY <2>1, <2>3 DEF SameTally, Steady, Stays
  <2>5. Tallied(d') BY <2>1, <2>4, SameTallied
  <2>6. Flushed' BY <2>2, <2>3 DEF TInv, Flushed, Stays
  <2> QED BY <1>3, <2>5, <2>6
<1>13. CASE UNCHANGED vars
  BY <1>1, <1>3, <1>13 DEF vars, TInv, Flushed
<1> QED BY <1>5, <1>7, <1>8, <1>9, <1>10, <1>11, <1>12, <1>13 DEF Next

LEMMA TallyHolds == Spec => []TInv
BY InitTallied, NextTallied, PTL DEF Spec

\* The table never outgrows maxStreams, there is always a stream to drop when it is full, and
\* closing counts the closed ones, whatever is made, dropped, renewed and closed (stream, sweep).
THEOREM TheTableIsKept == Spec => []TableIsKept
<1>1. TInv => TableIsKept
  <2> SUFFICES ASSUME TInv PROVE TableIsKept OBVIOUS
  <2>1. Sound(d) /\ Tallied(d) BY DEF TInv, IInv, TypeOK, Sound
  <2>2. ClosingCounted BY <2>1 DEF Tallied, ClosedOf, ClosingCounted
  <2>3. Cardinality(DOMAIN d.streams) = MaxStreams => \E k \in DOMAIN d.streams : d.streams[k].dir = Hunting
    <3>1. MaxStreams >= MaxStreams BY DecoderAssumption
    <3> QED BY <2>1, <3>1, SomeHunt
  <2> QED BY <2>1, <2>2, <2>3 DEF Tallied, RoomCanBeMade, TableIsKept
<1> QED BY <1>1, TallyHolds, PTL

\* held is at all times the number of segments held in the table, and when the capture is over none
\* is, nor does a frame wait, whatever locks the flush took on its way (hold, release, drop, Flush).
THEOREM NothingHeldIsLost == Spec => []HeldToTheEnd
<1>1. TInv => HeldToTheEnd
  <2> SUFFICES ASSUME TInv PROVE HeldToTheEnd OBVIOUS
  <2>1. Sound(d) /\ Tallied(d) /\ Flushed BY DEF TInv, IInv, TypeOK, Sound
  <2>2. HeldCounted BY <2>1 DEF Tallied, HeldOf, HeldCounted
  <2>3. ASSUME phase = "over" PROVE d.held = 0
    <3>1. \A k \in DOMAIN d.streams : HeldOf(d)[k] = 0 BY <2>1, <2>3 DEF Flushed, HeldOf
    <3>2. IsFiniteSet(DOMAIN d.streams) /\ Counts(HeldOf(d), DOMAIN d.streams) BY <2>1, FiniteTable DEF Sound
    <3> QED BY <2>1, <3>1, <3>2, SumOfZeros DEF Tallied
  <2> QED BY <2>1, <2>2, <2>3 DEF Flushed, FlushLeavesNothing, HeldToTheEnd
<1> QED BY <1>1, TallyHolds, PTL


-----------------------------------------------------------------------------
\* The resyncs that Stats reports.

SideOf(x, dir) == [k \in DOMAIN x.streams |-> IF x.streams[k].dir = dir THEN x.streams[k].resyncs ELSE 0]

\* Stats knows as much of x as of y, or more of y.
SameStats(x, y) == \A dir \in {Server, Client} : StatsResyncs(y, dir) = StatsResyncs(x, dir)
NoLess(x, y)    == \A dir \in {Server, Client} : StatsResyncs(y, dir) >= StatsResyncs(x, dir)
NoLessInAll(x, y) == StatsResyncs(y, Server) + StatsResyncs(y, Client)
                        >= StatsResyncs(x, Server) + StatsResyncs(x, Client)

\* The totals are numbers.
Summed(x) == x.resyncs \in Nat /\ x.clientResyncs \in Nat

LEMMA SideCounts ==
    ASSUME NEW x, IsDecoder(x), NEW dir
    PROVE  Counts(SideOf(x, dir), DOMAIN x.streams) /\ IsFiniteSet(DOMAIN x.streams)
<1>1. \A k \in DOMAIN x.streams : x.streams[k].resyncs \in Nat BY DEF IsDecoder, AStream
<1> QED BY <1>1, FiniteTable DEF Counts, SideOf

LEMMA ResyncsAre ==
    ASSUME NEW x, IsDecoder(x), NEW dir, NEW S, S \subseteq DOMAIN x.streams
    PROVE  Resyncs(x, S, dir) = SumOf(SideOf(x, dir), S) /\ Resyncs(x, S, dir) \in Nat
<1> DEFINE f == [k \in S |-> IF x.streams[k].dir = dir THEN x.streams[k].resyncs ELSE 0]
<1>1. \A k \in S : f[k] = SideOf(x, dir)[k] BY DEF SideOf
<1>2. Resyncs(x, S, dir) = SumOf(f, S) BY DEF Resyncs
<1> HIDE DEF f
<1>3. SumOf(f, S) = SumOf(SideOf(x, dir), S) BY <1>1, SumSame
<1>4. SumOf(SideOf(x, dir), S) \in Nat BY SideCounts, SumSplit
<1> QED BY <1>2, <1>3, <1>4

LEMMA StatsAre ==
    ASSUME NEW x, IsDecoder(x), Summed(x)
    PROVE  /\ StatsResyncs(x, Server) = SumOf(SideOf(x, Server), DOMAIN x.streams) + x.resyncs
           /\ StatsResyncs(x, Client) = SumOf(SideOf(x, Client), DOMAIN x.streams) + x.clientResyncs
           /\ SumOf(SideOf(x, Server), DOMAIN x.streams) \in Nat
           /\ SumOf(SideOf(x, Client), DOMAIN x.streams) \in Nat
           /\ StatsResyncs(x, Server) \in Nat /\ StatsResyncs(x, Client) \in Nat
<1>1. Server # Client BY DEF Server, Client
<1>2. /\ Resyncs(x, DOMAIN x.streams, Server) = SumOf(SideOf(x, Server), DOMAIN x.streams)
      /\ Resyncs(x, DOMAIN x.streams, Client) = SumOf(SideOf(x, Client), DOMAIN x.streams)
      /\ Resyncs(x, DOMAIN x.streams, Server) \in Nat /\ Resyncs(x, DOMAIN x.streams, Client) \in Nat
  BY ResyncsAre
<1>3. /\ StatsResyncs(x, Server) = Resyncs(x, DOMAIN x.streams, Server) + x.resyncs
      /\ StatsResyncs(x, Client) = Resyncs(x, DOMAIN x.streams, Client) + x.clientResyncs
  BY <1>1 DEF StatsResyncs
<1> QED BY <1>2, <1>3 DEF Summed

\* Nothing that Stats counts changes.
LEMMA StatsSame ==
    ASSUME NEW x, NEW y, IsDecoder(x), IsDecoder(y), Summed(x),
           y.resyncs = x.resyncs, y.clientResyncs = x.clientResyncs, DOMAIN y.streams = DOMAIN x.streams,
           \A k \in DOMAIN x.streams : /\ y.streams[k].dir = x.streams[k].dir
                                       /\ y.streams[k].resyncs = x.streams[k].resyncs
    PROVE  SameStats(x, y) /\ Summed(y)
<1>1. Summed(y) BY DEF Summed
<1>2. \A dir : SideOf(y, dir) = SideOf(x, dir) BY DEF SideOf
<1> QED BY <1>1, <1>2, StatsAre DEF SameStats

\* unlock and drop fold what they forget.
LEMMA UnlockStats ==
    ASSUME NEW x, IsDecoder(x), PointersHold(x), Summed(x), NEW y, y = Unlock(x)
    PROVE  SameStats(x, y) /\ Summed(y)
<1> DEFINE D == DOMAIN x.streams
<1>1. /\ y.resyncs = x.resyncs + Resyncs(x, D, Server)
      /\ y.clientResyncs = x.clientResyncs + Resyncs(x, D, Client)
      /\ DOMAIN y.streams = D
      /\ \A k \in D : y.streams[k].dir = Hunting /\ y.streams[k].resyncs = 0
  BY UnlockEffect
<1>2. IsDecoder(y) BY UnlockSound DEF Sound
<1>3. /\ Resyncs(x, D, Server) = SumOf(SideOf(x, Server), D) /\ Resyncs(x, D, Server) \in Nat
      /\ Resyncs(x, D, Client) = SumOf(SideOf(x, Client), D) /\ Resyncs(x, D, Client) \in Nat
  BY ResyncsAre
<1>4. Summed(y) BY <1>1, <1>3 DEF Summed
<1>5. ASSUME NEW dir PROVE SumOf(SideOf(y, dir), D) = 0
  <2>1. \A k \in D : SideOf(y, dir)[k] = 0 BY <1>1 DEF SideOf
  <2>2. IsFiniteSet(D) /\ Counts(SideOf(y, dir), D) BY <1>1, <1>2, SideCounts
  <2> QED BY <2>1, <2>2, SumOfZeros
<1>6. /\ StatsResyncs(y, Server) = SumOf(SideOf(y, Server), D) + y.resyncs
      /\ StatsResyncs(y, Client) = SumOf(SideOf(y, Client), D) + y.clientResyncs
  BY <1>1, <1>2, <1>4, StatsAre
<1>7. /\ StatsResyncs(x, Server) = SumOf(SideOf(x, Server), D) + x.resyncs
      /\ StatsResyncs(x, Client) = SumOf(SideOf(x, Client), D) + x.clientResyncs
  BY StatsAre
<1>8. StatsResyncs(y, Server) = StatsResyncs(x, Server) BY <1>1, <1>3, <1>5, <1>6, <1>7 DEF Summed
<1>9. StatsResyncs(y, Client) = StatsResyncs(x, Client) BY <1>1, <1>3, <1>5, <1>6, <1>7 DEF Summed
<1> QED BY <1>4, <1>8, <1>9 DEF SameStats

LEMMA DropStats ==
    ASSUME NEW x, NEW S, IsDecoder(x), PointersHold(x), S \subseteq DOMAIN x.streams, Summed(x),
           NEW y, y = Drop(x, S)
    PROVE  SameStats(x, y) /\ Summed(y)
<1> DEFINE D == DOMAIN x.streams
<1>0. PICK u : u = Loosed(x, S) OBVIOUS
<1>1. IsDecoder(u) /\ DOMAIN u.streams = D BY <1>0, LoosedEffect
<1>2. SameStats(x, u) /\ Summed(u)
  <2>1. CASE PointsInto(x, x.srv, S) BY <1>0, <2>1, UnlockStats DEF Loosed
  <2>2. CASE ~PointsInto(x, x.srv, S) BY <1>0, <2>2 DEF Loosed, SameStats
  <2> QED BY <2>1, <2>2
<1>3. /\ y.resyncs = u.resyncs + Resyncs(u, S, Server)
      /\ y.clientResyncs = u.clientResyncs + Resyncs(u, S, Client)
      /\ DOMAIN y.streams = D \ S
      /\ \A k \in DOMAIN y.streams : /\ y.streams[k].dir = u.streams[k].dir
                                     /\ y.streams[k].resyncs = u.streams[k].resyncs
  BY <1>0, DropEffect
<1>4. IsFiniteSet(S) BY FiniteTable, FS_Subset
<1>5. IsDecoder(y) BY <1>4, DropHolds
<1>6. /\ Resyncs(u, S, Server) = SumOf(SideOf(u, Server), S) /\ Resyncs(u, S, Server) \in Nat
      /\ Resyncs(u, S, Client) = SumOf(SideOf(u, Client), S) /\ Resyncs(u, S, Client) \in Nat
  BY <1>1, ResyncsAre
<1>7. Summed(y) BY <1>2, <1>3, <1>6 DEF Summed
<1>8. ASSUME NEW dir PROVE SumOf(SideOf(u, dir), D) = SumOf(SideOf(u, dir), S) + SumOf(SideOf(y, dir), D \ S)
  <2>1. SumOf(SideOf(u, dir), D) = SumOf(SideOf(u, dir), S) + SumOf(SideOf(u, dir), D \ S)
    BY <1>1, SideCounts, SumSplit
  <2>2. \A k \in D \ S : SideOf(u, dir)[k] = SideOf(y, dir)[k] BY <1>1, <1>3 DEF SideOf
  <2>3. SumOf(SideOf(u, dir), D \ S) = SumOf(SideOf(y, dir), D \ S) BY <2>2, SumSame
  <2> QED BY <2>1, <2>3
<1>9. /\ StatsResyncs(y, Server) = SumOf(SideOf(y, Server), D \ S) + y.resyncs
      /\ StatsResyncs(y, Client) = SumOf(SideOf(y, Client), D \ S) + y.clientResyncs
      /\ SumOf(SideOf(y, Server), D \ S) \in Nat /\ SumOf(SideOf(y, Client), D \ S) \in Nat
  BY <1>3, <1>5, <1>7, StatsAre
<1>10. /\ StatsResyncs(u, Server) = SumOf(SideOf(u, Server), D) + u.resyncs
       /\ StatsResyncs(u, Client) = SumOf(SideOf(u, Client), D) + u.clientResyncs
  BY <1>1, <1>2, StatsAre
<1> HIDE DEF D
<1>11. StatsResyncs(y, Server) = StatsResyncs(u, Server)
  <2>1. SumOf(SideOf(u, Server), D) = SumOf(SideOf(u, Server), S) + SumOf(SideOf(y, Server), D \ S) BY <1>8
  <2>2. y.resyncs = u.resyncs + SumOf(SideOf(u, Server), S) /\ u.resyncs \in Nat BY <1>2, <1>3, <1>6 DEF Summed
  <2>3. SumOf(SideOf(u, Server), S) \in Nat /\ SumOf(SideOf(y, Server), D \ S) \in Nat BY <1>6, <1>9
  <2> QED BY <1>9, <1>10, <2>1, <2>2, <2>3
<1>12. StatsResyncs(y, Client) = StatsResyncs(u, Client)
  <2>1. SumOf(SideOf(u, Client), D) = SumOf(SideOf(u, Client), S) + SumOf(SideOf(y, Client), D \ S) BY <1>8
  <2>2. y.clientResyncs = u.clientResyncs + SumOf(SideOf(u, Client), S) /\ u.clientResyncs \in Nat
    BY <1>2, <1>3, <1>6 DEF Summed
  <2>3. SumOf(SideOf(u, Client), S) \in Nat /\ SumOf(SideOf(y, Client), D \ S) \in Nat BY <1>6, <1>9
  <2> QED BY <1>9, <1>10, <2>1, <2>2, <2>3
<1> QED BY <1>2, <1>7, <1>11, <1>12 DEF SameStats

\* What a payload adds is on its own stream.
LEMMA TakingStats ==
    ASSUME NEW x, Sound(x), NEW k \in DOMAIN x.streams, NEW o, o.resyncs \in Nat, o.held \in Nat, Summed(x),
           NEW y, y = Taking(x, k, o)
    PROVE  NoLess(x, y) /\ Summed(y)
<1> DEFINE D == DOMAIN x.streams
<1>1. /\ Sound(y) /\ y.resyncs = x.resyncs /\ y.clientResyncs = x.clientResyncs /\ DOMAIN y.streams = D
      /\ \A j \in D : j # k => y.streams[j] = x.streams[j]
      /\ y.streams[k].dir = x.streams[k].dir
      /\ y.streams[k].resyncs = x.streams[k].resyncs + o.resyncs
  BY TakingEffect
<1>2. IsDecoder(x) /\ IsDecoder(y) BY <1>1 DEF Sound
<1>3. Summed(y) BY <1>1 DEF Summed
<1>4. ASSUME NEW dir PROVE SumOf(SideOf(x, dir), D) <= SumOf(SideOf(y, dir), D)
  <2>1. \A j \in D : SideOf(x, dir)[j] <= SideOf(y, dir)[j]
    <3> SUFFICES ASSUME NEW j \in D PROVE SideOf(x, dir)[j] <= SideOf(y, dir)[j] OBVIOUS
    <3>1. x.streams[j].resyncs \in Nat BY <1>2 DEF IsDecoder, AStream
    <3>2. y.streams[j].dir = x.streams[j].dir BY <1>1
    <3>3. x.streams[j].resyncs <= y.streams[j].resyncs /\ y.streams[j].resyncs \in Nat BY <1>1, <3>1
    <3> QED BY <1>1, <3>1, <3>2, <3>3 DEF SideOf
  <2>2. IsFiniteSet(D) /\ Counts(SideOf(x, dir), D) /\ Counts(SideOf(y, dir), D) BY <1>1, <1>2, SideCounts
  <2> QED BY <2>1, <2>2, SumGrows
<1>5. /\ StatsResyncs(x, Server) = SumOf(SideOf(x, Server), D) + x.resyncs
      /\ StatsResyncs(x, Client) = SumOf(SideOf(x, Client), D) + x.clientResyncs
      /\ SumOf(SideOf(x, Server), D) \in Nat /\ SumOf(SideOf(x, Client), D) \in Nat
  BY <1>2, StatsAre
<1>6. /\ StatsResyncs(y, Server) = SumOf(SideOf(y, Server), D) + y.resyncs
      /\ StatsResyncs(y, Client) = SumOf(SideOf(y, Client), D) + y.clientResyncs
      /\ SumOf(SideOf(y, Server), D) \in Nat /\ SumOf(SideOf(y, Client), D) \in Nat
  BY <1>1, <1>2, <1>3, StatsAre
<1>7. StatsResyncs(y, Server) >= StatsResyncs(x, Server) BY <1>1, <1>4, <1>5, <1>6 DEF Summed
<1>8. StatsResyncs(y, Client) >= StatsResyncs(x, Client) BY <1>1, <1>4, <1>5, <1>6 DEF Summed
<1> QED BY <1>3, <1>7, <1>8 DEF NoLess

\* A stream made starts with none.
LEMMA MakeStats ==
    ASSUME NEW x, Sound(x), NEW k \in Keys, NEW t \in Times, Fits(x, k), k \notin DOMAIN x.streams, Summed(x),
           NEW y, y = Make(x, k, t)
    PROVE  SameStats(x, y) /\ Summed(y)
<1> DEFINE D == DOMAIN x.streams
<1>1. IsDecoder(x) /\ IsDecoder(y) BY MakeSound DEF Sound
<1>2. /\ y.resyncs = x.resyncs /\ y.clientResyncs = x.clientResyncs /\ DOMAIN y.streams = D \cup {k}
      /\ \A j \in D : y.streams[j] = x.streams[j]
      /\ y.streams[k] = NewStream(x, t)
  BY <1>1, MakeEffect
<1>3. y.streams[k].resyncs = 0 BY <1>2 DEF NewStream
<1>4. Summed(y) BY <1>2 DEF Summed
<1>5. ASSUME NEW dir PROVE SumOf(SideOf(y, dir), DOMAIN y.streams) = SumOf(SideOf(x, dir), D)
  <2>1. IsFiniteSet(DOMAIN y.streams) /\ Counts(SideOf(y, dir), DOMAIN y.streams) BY <1>1, SideCounts
  <2>2. {k} \subseteq DOMAIN y.streams /\ DOMAIN y.streams \ {k} = D BY <1>2
  <2>3. /\ SumOf(SideOf(y, dir), DOMAIN y.streams) = SumOf(SideOf(y, dir), {k}) + SumOf(SideOf(y, dir), D)
        /\ SumOf(SideOf(y, dir), D) \in Nat
    <3>1. /\ SumOf(SideOf(y, dir), DOMAIN y.streams)
                = SumOf(SideOf(y, dir), {k}) + SumOf(SideOf(y, dir), DOMAIN y.streams \ {k})
          /\ SumOf(SideOf(y, dir), DOMAIN y.streams \ {k}) \in Nat
      BY <2>1, <2>2, SumSplit
    <3> QED BY <2>2, <3>1
  <2>4. SideOf(y, dir)[k] = 0 BY <1>2, <1>3 DEF SideOf
  <2>5. SumOf(SideOf(y, dir), {k}) = 0 BY <2>4, SumOfOne
  <2>6. SumOf(SideOf(y, dir), D) = SumOf(SideOf(x, dir), D)
    <3>1. \A j \in D : SideOf(y, dir)[j] = SideOf(x, dir)[j] BY <1>2 DEF SideOf
    <3> QED BY <3>1, SumSame
  <2> QED BY <2>3, <2>5, <2>6
<1>6. /\ StatsResyncs(x, Server) = SumOf(SideOf(x, Server), D) + x.resyncs
      /\ StatsResyncs(x, Client) = SumOf(SideOf(x, Client), D) + x.clientResyncs
  BY <1>1, StatsAre
<1>7. /\ StatsResyncs(y, Server) = SumOf(SideOf(y, Server), DOMAIN y.streams) + y.resyncs
      /\ StatsResyncs(y, Client) = SumOf(SideOf(y, Client), DOMAIN y.streams) + y.clientResyncs
  BY <1>1, <1>4, StatsAre
<1> QED BY <1>2, <1>4, <1>5, <1>6, <1>7 DEF SameStats

\* The lock gives directions: what the stream counted while it hunted now counts, and what the other
\* side counted is its own, or is the client's from now on, if it was the server.
LEMMA BothStats ==
    ASSUME NEW x, Sound(x), NEW k \in DOMAIN x.streams, x.streams[k].dir = Hunting, Summed(x),
           NEW y, y = Both(x, k), NEW r, r = Reverse(k)
    PROVE  /\ Summed(y) /\ NoLessInAll(x, y)
           /\ ~(r \in DOMAIN x.streams /\ x.streams[r].dir = Server) => NoLess(x, y)
<1> DEFINE D == DOMAIN x.streams
<1>1. /\ IsDecoder(y) /\ Steady(x, y) /\ DOMAIN y.streams = D
      /\ \A j \in D : /\ Stays(x.streams[j], y.streams[j])
                      /\ y.streams[j].dir = IF j = k THEN Server ELSE IF j = r THEN Client ELSE x.streams[j].dir
  BY BothEffect DEF Sound, Paired
<1>2. IsDecoder(x) /\ r # k BY DecoderAssumption DEF Sound, IsDecoder
<1>3. y.resyncs = x.resyncs /\ y.clientResyncs = x.clientResyncs /\ Summed(y) BY <1>1 DEF Steady, Summed
<1>4. \A j \in D : y.streams[j].resyncs = x.streams[j].resyncs /\ x.streams[j].resyncs \in Nat
  BY <1>1, <1>2 DEF Stays, IsDecoder, AStream
<1>5. Server # Client /\ Server # Hunting /\ Client # Hunting BY DEF Server, Client, Hunting
<1>6. IsFiniteSet(D) /\ \A dir : Counts(SideOf(x, dir), D) /\ Counts(SideOf(y, dir), D)
  BY <1>1, <1>2, SideCounts
<1>7. /\ StatsResyncs(x, Server) = SumOf(SideOf(x, Server), D) + x.resyncs
      /\ StatsResyncs(x, Client) = SumOf(SideOf(x, Client), D) + x.clientResyncs
      /\ SumOf(SideOf(x, Server), D) \in Nat /\ SumOf(SideOf(x, Client), D) \in Nat
  BY <1>2, StatsAre
<1>8. /\ StatsResyncs(y, Server) = SumOf(SideOf(y, Server), D) + y.resyncs
      /\ StatsResyncs(y, Client) = SumOf(SideOf(y, Client), D) + y.clientResyncs
      /\ SumOf(SideOf(y, Server), D) \in Nat /\ SumOf(SideOf(y, Client), D) \in Nat
  BY <1>1, <1>3, StatsAre
<1>9. ASSUME ~(r \in D /\ x.streams[r].dir = Server) PROVE NoLess(x, y)
  <2>1. ASSUME NEW dir \in {Server, Client} PROVE SumOf(SideOf(x, dir), D) <= SumOf(SideOf(y, dir), D)
    <3>1. \A j \in D : SideOf(x, dir)[j] <= SideOf(y, dir)[j]
      <4> SUFFICES ASSUME NEW j \in D PROVE SideOf(x, dir)[j] <= SideOf(y, dir)[j] OBVIOUS
      <4>1. x.streams[j].dir = dir => y.streams[j].dir = dir BY <1>1, <1>5, <1>9, <2>1
      <4> QED BY <1>1, <1>4, <4>1 DEF SideOf
    <3> QED BY <1>6, <3>1, SumGrows
  <2>2. SumOf(SideOf(x, Server), D) <= SumOf(SideOf(y, Server), D)
        /\ SumOf(SideOf(x, Client), D) <= SumOf(SideOf(y, Client), D)
    BY <2>1
  <2>3. StatsResyncs(y, Server) >= StatsResyncs(x, Server) BY <1>3, <1>7, <1>8, <2>2 DEF Summed
  <2>4. StatsResyncs(y, Client) >= StatsResyncs(x, Client) BY <1>3, <1>7, <1>8, <2>2 DEF Summed
  <2> QED BY <2>3, <2>4 DEF NoLess
<1>10. NoLessInAll(x, y)
  <2>1. CASE ~(r \in D /\ x.streams[r].dir = Server)
    <3>1. /\ StatsResyncs(y, Server) >= StatsResyncs(x, Server)
          /\ StatsResyncs(y, Client) >= StatsResyncs(x, Client)
      BY <1>9, <2>1 DEF NoLess
    <3> QED BY <1>3, <1>7, <1>8, <3>1 DEF Summed, NoLessInAll
  <2>2. CASE r \in D /\ x.streams[r].dir = Server
    <3> DEFINE n == x.streams[r].resyncs
               g == [SideOf(x, Server) EXCEPT ![r] = 0]
    <3>1. n \in Nat BY <1>4, <2>2
    <3>2. /\ DOMAIN g = D /\ g[r] = 0 /\ \A j \in D \ {r} : g[j] = SideOf(x, Server)[j]
      BY <2>2 DEF SideOf
    <3> HIDE DEF g
    <3>3. Counts(g, D) BY <1>6, <3>2 DEF Counts
    <3>4. SumOf(g, D) = SumOf(SideOf(x, Server), D) - n
      <4>1. SideOf(x, Server)[r] = n BY <2>2 DEF SideOf
      <4>2. SumOf(g, D) = SumOf(SideOf(x, Server), D) - SideOf(x, Server)[r] + g[r]
        BY <1>6, <2>2, <3>2, <3>3, SumChanges
      <4> QED BY <1>7, <3>1, <3>2, <4>1, <4>2
    <3>5. SumOf(g, D) <= SumOf(SideOf(y, Server), D)
      <4>1. \A j \in D : g[j] <= SideOf(y, Server)[j]
        <5> SUFFICES ASSUME NEW j \in D PROVE g[j] <= SideOf(y, Server)[j] OBVIOUS
        <5>1. SideOf(y, Server)[j] \in Nat BY <1>1, <1>6 DEF Counts
        <5>2. CASE j = r BY <3>2, <5>1, <5>2
        <5>3. CASE j # r
          <6>1. x.streams[j].dir = Server => y.streams[j].dir = Server BY <1>1, <1>5, <5>3
          <6>2. g[j] = SideOf(x, Server)[j] BY <3>2, <5>3
          <6>3. SideOf(x, Server)[j] <= SideOf(y, Server)[j] BY <1>1, <1>4, <6>1 DEF SideOf
          <6> QED BY <6>2, <6>3
        <5> QED BY <5>2, <5>3
      <4> QED BY <1>6, <3>3, <4>1, SumGrows
    <3>6. SumOf(SideOf(y, Client), D) = SumOf(SideOf(x, Client), D) + n
      <4>1. \A j \in D \ {r} : SideOf(y, Client)[j] = SideOf(x, Client)[j]
        BY <1>1, <1>4, <1>5 DEF SideOf
      <4>2. SideOf(x, Client)[r] = 0 /\ SideOf(y, Client)[r] = n BY <1>1, <1>2, <1>4, <1>5, <2>2 DEF SideOf
      <4>3. SumOf(SideOf(y, Client), D) = SumOf(SideOf(x, Client), D) - SideOf(x, Client)[r] + SideOf(y, Client)[r]
        BY <1>6, <2>2, <4>1, SumChanges
      <4> QED BY <1>7, <3>1, <4>2, <4>3
    <3> HIDE DEF n
    <3> QED BY <1>3, <1>7, <1>8, <3>1, <3>4, <3>5, <3>6 DEF Summed, NoLessInAll
  <2> QED BY <2>1, <2>2
<1> QED BY <1>3, <1>9, <1>10

-----------------------------------------------------------------------------
\* How the lock, the directions and the totals come through a step.

\* Streams are numbered as they are made, the server side was not heard after lockAt, only the pair's
\* own key is a server, and the totals are numbers.
Young(x)        == \A k \in DOMAIN x.streams : x.streams[k].born < x.born
NotAhead(x)     == x.srv # Nil => x.streams[x.srv.key].last <= x.lockAt
ServerIsPair(x) == \A k \in DOMAIN x.streams : x.streams[k].dir = Server => k = x.pair

Apt(x) == Sound(x) /\ Young(x) /\ NotAhead(x) /\ ServerIsPair(x) /\ Summed(x)

\* What stands in y from before x was made stood in x.
Older(x, y) == /\ y.born >= x.born
               /\ \A k \in DOMAIN y.streams : y.streams[k].born < x.born =>
                     k \in DOMAIN x.streams /\ x.streams[k].born = y.streams[k].born

\* Methods are of three kinds: those that leave the lock as it is, those that drop its server, and
\* lock itself.
SameDirs(x, y) == \A k \in DOMAIN x.streams \cap DOMAIN y.streams :
                     y.streams[k].born = x.streams[k].born => y.streams[k].dir = x.streams[k].dir

Calm(x, y)  == /\ Older(x, y) /\ NoLess(x, y) /\ SameDirs(x, y)
               /\ y.srv = x.srv /\ y.pair = x.pair /\ y.locks = x.locks

Loose(x, y) == /\ Older(x, y) /\ NoLess(x, y)
               /\ x.srv # Nil /\ y.srv = Nil /\ ~Alive(x.srv, y) /\ y.pair = x.pair /\ y.locks = x.locks

Locked(x, y) == /\ Older(x, y) /\ NoLessInAll(x, y)
                /\ x.srv = Nil /\ y.srv # Nil /\ y.locks = x.locks + 1
                /\ NoLess(x, y) \/ (x.pair # NoKey /\ y.pair = Reverse(x.pair))

\* From the decoder b that the step began with, at time t: whether its lock may end.
Excused(b, x, t) == /\ b.srv # Nil
                    /\ ~Alive(b.srv, x) \/ t - b.streams[b.srv.key].last > LockIdle

ServerKept(b, x, t) == /\ b.srv # Nil => x.srv = b.srv \/ Excused(b, x, t)
                       /\ b.srv = Nil /\ x.locks = b.locks => x.srv = Nil

DirsKept(b, x, t) == \A k \in DOMAIN b.streams \cap DOMAIN x.streams :
    (x.streams[k].born = b.streams[k].born /\ b.streams[k].dir # Hunting) =>
        x.streams[k].dir = b.streams[k].dir \/ x.locks # b.locks \/ Excused(b, x, t)

\* At most one lock is taken in a step.
TotalsKept(b, x) ==
    \/ x.locks = b.locks /\ x.pair = b.pair /\ NoLess(b, x)
    \/ /\ x.locks = b.locks + 1 /\ NoLessInAll(b, x)
       /\ NoLess(b, x) \/ (b.pair # NoKey /\ x.pair = Reverse(b.pair))

Kept(b, x, t) == Older(b, x) /\ ServerKept(b, x, t) /\ DirsKept(b, x, t) /\ TotalsKept(b, x)

\* A lock taken in the step stands.
LockStands(b, x) == x.locks # b.locks => x.srv # Nil

LEMMA StatsNumbers ==
    ASSUME NEW x, IsDecoder(x), Summed(x)
    PROVE  StatsResyncs(x, Server) \in Nat /\ StatsResyncs(x, Client) \in Nat
BY StatsAre

LEMMA NoLessOn ==
    ASSUME NEW b, NEW x, NEW y, Apt(b), Apt(x), Apt(y), NoLess(x, y)
    PROVE  /\ NoLess(b, x) => NoLess(b, y)
           /\ NoLessInAll(b, x) => NoLessInAll(b, y)
<1>1. /\ StatsResyncs(b, Server) \in Nat /\ StatsResyncs(b, Client) \in Nat
      /\ StatsResyncs(x, Server) \in Nat /\ StatsResyncs(x, Client) \in Nat
      /\ StatsResyncs(y, Server) \in Nat /\ StatsResyncs(y, Client) \in Nat
  BY StatsNumbers DEF Apt, Sound
<1>2. StatsResyncs(y, Server) >= StatsResyncs(x, Server) /\ StatsResyncs(y, Client) >= StatsResyncs(x, Client)
  BY DEF NoLess
<1>3. ASSUME NoLess(b, x) PROVE NoLess(b, y)
  <2>1. StatsResyncs(x, Server) >= StatsResyncs(b, Server) /\ StatsResyncs(x, Client) >= StatsResyncs(b, Client)
    BY <1>3 DEF NoLess
  <2>2. StatsResyncs(y, Server) >= StatsResyncs(b, Server) /\ StatsResyncs(y, Client) >= StatsResyncs(b, Client)
    BY <1>1, <1>2, <2>1
  <2> QED BY <2>2 DEF NoLess
<1>4. NoLessInAll(b, x) => NoLessInAll(b, y) BY <1>1, <1>2 DEF NoLessInAll
<1> QED BY <1>3, <1>4

LEMMA NoLessBoth ==
    ASSUME NEW b, NEW x, NEW y, Apt(b), Apt(x), Apt(y), NoLess(b, x), NoLessInAll(x, y)
    PROVE  NoLessInAll(b, y)
<1>1. /\ StatsResyncs(b, Server) \in Nat /\ StatsResyncs(b, Client) \in Nat
      /\ StatsResyncs(x, Server) \in Nat /\ StatsResyncs(x, Client) \in Nat
      /\ StatsResyncs(y, Server) \in Nat /\ StatsResyncs(y, Client) \in Nat
  BY StatsNumbers DEF Apt, Sound
<1>2. StatsResyncs(x, Server) >= StatsResyncs(b, Server) /\ StatsResyncs(x, Client) >= StatsResyncs(b, Client)
  BY DEF NoLess
<1> QED BY <1>1, <1>2 DEF NoLessInAll

LEMMA Borns ==
    ASSUME NEW x, Apt(x)
    PROVE  x.born \in Nat /\ x.locks \in Nat /\ x.lockAt \in Nat
           /\ \A k \in DOMAIN x.streams : /\ x.streams[k].born \in Nat /\ x.streams[k].born < x.born
                                          /\ x.streams[k].last \in Nat
BY DecoderAssumption DEF Apt, Sound, Young, IsDecoder, Fields, AStream

LEMMA OlderOn ==
    ASSUME NEW b, NEW x, NEW y, Apt(b), Apt(x), Apt(y), Older(b, x), Older(x, y)
    PROVE  Older(b, y)
<1>1. b.born \in Nat /\ x.born \in Nat /\ y.born \in Nat /\ \A k \in DOMAIN y.streams : y.streams[k].born \in Nat
  BY Borns
<1>2. x.born >= b.born /\ y.born >= x.born BY DEF Older
<1>3. y.born >= b.born BY <1>1, <1>2
<1>4. ASSUME NEW k \in DOMAIN y.streams, y.streams[k].born < b.born
      PROVE  k \in DOMAIN b.streams /\ b.streams[k].born = y.streams[k].born
  <2>1. y.streams[k].born < x.born BY <1>1, <1>2, <1>4
  <2>2. k \in DOMAIN x.streams /\ x.streams[k].born = y.streams[k].born BY <2>1 DEF Older
  <2> QED BY <1>4, <2>2 DEF Older
<1> QED BY <1>3, <1>4 DEF Older

\* A stream that is gone does not come back.
LEMMA StaysDead ==
    ASSUME NEW b, NEW x, NEW y, Apt(b), Apt(x), Apt(y), Older(b, x), Older(x, y), NEW t
    PROVE  Excused(b, x, t) => Excused(b, y, t)
<1> SUFFICES ASSUME b.srv # Nil, Alive(b.srv, y) PROVE Alive(b.srv, x) BY DEF Excused
<1> DEFINE k == b.srv.key
<1>1. k \in DOMAIN b.streams /\ b.srv = Pointer(b, k) BY DEF Apt, Sound, Paired, PointersHold, Alive
<1>2. k \in DOMAIN y.streams /\ b.srv = Pointer(y, k) BY DEF Alive
<1>3. b.srv.born = b.streams[k].born /\ b.srv.born = y.streams[k].born BY <1>1, <1>2 DEF Pointer
<1>4. y.streams[k].born < x.born
  <2>1. b.streams[k].born < b.born /\ b.streams[k].born \in Nat /\ b.born \in Nat BY <1>1, Borns
  <2>2. x.born >= b.born /\ x.born \in Nat BY Borns DEF Older
  <2>3. y.streams[k].born = b.streams[k].born BY <1>3
  <2> QED BY <2>1, <2>2, <2>3
<1>5. k \in DOMAIN x.streams /\ x.streams[k].born = y.streams[k].born BY <1>2, <1>4 DEF Older
<1>6. b.srv = Pointer(x, k) BY <1>2, <1>5 DEF Pointer
<1> QED BY <1>5, <1>6 DEF Alive

\* A stream that y has from before b stood in x, too.
LEMMA StoodBetween ==
    ASSUME NEW b, NEW x, NEW y, Apt(b), Apt(x), Apt(y), Older(b, x), Older(x, y),
           NEW k \in DOMAIN b.streams \cap DOMAIN y.streams, y.streams[k].born = b.streams[k].born
    PROVE  k \in DOMAIN x.streams /\ x.streams[k].born = y.streams[k].born
<1>1. y.streams[k].born < x.born
  <2>1. b.streams[k].born < b.born /\ b.streams[k].born \in Nat /\ b.born \in Nat BY Borns
  <2>2. x.born >= b.born /\ x.born \in Nat BY Borns DEF Older
  <2> QED BY <2>1, <2>2
<1> QED BY <1>1 DEF Older

LEMMA CalmKeeps ==
    ASSUME NEW b, NEW x, NEW y, NEW t, Apt(b), Apt(x), Apt(y), Kept(b, x, t), Calm(x, y)
    PROVE  Kept(b, y, t) /\ (LockStands(b, x) => LockStands(b, y))
<1>1. Older(b, x) /\ Older(x, y) BY DEF Kept, Calm
<1>2. Older(b, y) BY <1>1, OlderOn
<1>3. Excused(b, x, t) => Excused(b, y, t) BY <1>1, StaysDead
<1>4. y.srv = x.srv /\ y.pair = x.pair /\ y.locks = x.locks BY DEF Calm
<1>5. ServerKept(b, y, t) BY <1>3, <1>4 DEF Kept, ServerKept
<1>6. DirsKept(b, y, t)
  <2> SUFFICES ASSUME NEW k \in DOMAIN b.streams \cap DOMAIN y.streams,
                      y.streams[k].born = b.streams[k].born, b.streams[k].dir # Hunting
               PROVE  y.streams[k].dir = b.streams[k].dir \/ y.locks # b.locks \/ Excused(b, y, t)
    BY DEF DirsKept
  <2>1. k \in DOMAIN x.streams /\ x.streams[k].born = y.streams[k].born BY <1>1, StoodBetween
  <2>2. y.streams[k].dir = x.streams[k].dir BY <2>1 DEF Calm, SameDirs
  <2>3. x.streams[k].dir = b.streams[k].dir \/ x.locks # b.locks \/ Excused(b, x, t)
    BY <2>1 DEF Kept, DirsKept
  <2> QED BY <1>3, <1>4, <2>2, <2>3
<1>7. TotalsKept(b, y)
  <2>1. (NoLess(b, x) => NoLess(b, y)) /\ (NoLessInAll(b, x) => NoLessInAll(b, y)) BY NoLessOn DEF Calm
  <2> QED BY <1>4, <2>1 DEF Kept, TotalsKept
<1> QED BY <1>2, <1>4, <1>5, <1>6, <1>7 DEF Kept, LockStands

\* Where the lock ends for a cause.
LEMMA ExcusedKeeps ==
    ASSUME NEW b, NEW x, NEW y, NEW t, Apt(b), Apt(x), Apt(y), Kept(b, x, t), Older(x, y), NoLess(x, y),
           x.srv # Nil, y.srv = Nil, y.pair = x.pair, y.locks = x.locks, b.srv # Nil => Excused(b, y, t)
    PROVE  Kept(b, y, t)
<1>1. Older(b, y) BY OlderOn DEF Kept
<1>2. b.srv = Nil => y.locks # b.locks BY DEF Kept, ServerKept
<1>3. ServerKept(b, y, t) BY DEF ServerKept
<1>4. DirsKept(b, y, t) BY <1>2 DEF DirsKept
<1>5. TotalsKept(b, y)
  <2>1. (NoLess(b, x) => NoLess(b, y)) /\ (NoLessInAll(b, x) => NoLessInAll(b, y)) BY NoLessOn
  <2> QED BY <2>1 DEF Kept, TotalsKept
<1> QED BY <1>1, <1>3, <1>4, <1>5 DEF Kept

LEMMA LooseKeeps ==
    ASSUME NEW b, NEW x, NEW y, NEW t, Apt(b), Apt(x), Apt(y), Kept(b, x, t), Loose(x, y)
    PROVE  Kept(b, y, t)
<1>1. Older(b, x) /\ Older(x, y) BY DEF Kept, Loose
<1>2. Excused(b, x, t) => Excused(b, y, t) BY <1>1, StaysDead
<1>3. b.srv # Nil => Excused(b, y, t) BY <1>2 DEF Loose, Kept, ServerKept, Excused
<1> QED BY <1>3, ExcusedKeeps DEF Loose

LEMMA LockedKeeps ==
    ASSUME NEW b, NEW x, NEW y, NEW t, Apt(b), Apt(x), Apt(y), Kept(b, x, t), LockStands(b, x), Locked(x, y)
    PROVE  Kept(b, y, t) /\ LockStands(b, y)
<1>1. Older(b, x) /\ Older(x, y) BY DEF Kept, Locked
<1>2. Older(b, y) BY <1>1, OlderOn
<1>3. Excused(b, x, t) => Excused(b, y, t) BY <1>1, StaysDead
<1>4. x.srv = Nil /\ y.srv # Nil /\ y.locks = x.locks + 1 BY DEF Locked
<1>5. x.locks = b.locks /\ x.pair = b.pair /\ NoLess(b, x)
  BY <1>4, Borns DEF LockStands, Kept, TotalsKept
<1>6. y.locks = b.locks + 1 /\ y.locks # b.locks BY <1>4, <1>5, Borns
<1>7. ServerKept(b, y, t) BY <1>3, <1>4, <1>6 DEF Kept, ServerKept
<1>8. DirsKept(b, y, t) BY <1>6 DEF DirsKept
<1>9. TotalsKept(b, y)
  <2>1. NoLessInAll(b, y) BY <1>5, NoLessBoth DEF Locked
  <2>2. NoLess(x, y) => NoLess(b, y) BY <1>5, NoLessOn
  <2> QED BY <1>5, <1>6, <2>1, <2>2 DEF Locked, TotalsKept
<1> QED BY <1>2, <1>4, <1>7, <1>8, <1>9 DEF Kept, LockStands

-----------------------------------------------------------------------------
\* The methods, by their kinds.

LEMMA SameIsNoLess ==
    ASSUME NEW x, NEW y, IsDecoder(x), Summed(x), SameStats(x, y)
    PROVE  NoLess(x, y)
BY StatsNumbers DEF SameStats, NoLess

\* What changes neither streams' marks nor the lock.
SameMarks(s, u) == u.dir = s.dir /\ u.born = s.born /\ u.last = s.last /\ u.resyncs = s.resyncs

LEMMA Unmoved ==
    ASSUME NEW x, NEW y, Apt(x), Sound(y), y.born = x.born, y.resyncs = x.resyncs,
           y.clientResyncs = x.clientResyncs, SameLock(x, y), DOMAIN y.streams = DOMAIN x.streams,
           \A k \in DOMAIN x.streams : SameMarks(x.streams[k], y.streams[k])
    PROVE  Calm(x, y) /\ Apt(y)
<1>1. IsDecoder(x) /\ IsDecoder(y) /\ Summed(x) BY DEF Apt, Sound
<1>2. SameStats(x, y) /\ Summed(y) BY <1>1, StatsSame DEF SameMarks
<1>3. NoLess(x, y) BY <1>1, <1>2, SameIsNoLess
<1>4. Older(x, y) BY Borns DEF Older, SameMarks
<1>5. SameDirs(x, y) BY DEF SameDirs, SameMarks
<1>6. Young(y) /\ ServerIsPair(y) BY DEF Apt, Young, ServerIsPair, SameLock, SameMarks
<1>7. NotAhead(y)
  <2>1. x.srv # Nil => x.srv.key \in DOMAIN x.streams BY DEF Apt, Sound, Paired, PairHolds
  <2> QED BY <2>1 DEF Apt, NotAhead, SameLock, SameMarks
<1> QED BY <1>2, <1>3, <1>4, <1>5, <1>6, <1>7 DEF Apt, Calm, SameLock

LEMMA CalmItself ==
    ASSUME NEW x, Apt(x)
    PROVE  Calm(x, x)
<1>1. \A k \in DOMAIN x.streams : SameMarks(x.streams[k], x.streams[k]) BY DEF SameMarks
<1> QED BY <1>1, Unmoved DEF Apt, SameLock

LEMMA CalmOn ==
    ASSUME NEW x, NEW m, NEW y, Apt(x), Apt(m), Apt(y), Calm(x, m), Calm(m, y)
    PROVE  Calm(x, y)
<1>1. Older(x, y) BY OlderOn DEF Calm
<1>2. NoLess(x, y) BY NoLessOn DEF Calm
<1>3. SameDirs(x, y)
  <2> SUFFICES ASSUME NEW k \in DOMAIN x.streams \cap DOMAIN y.streams, y.streams[k].born = x.streams[k].born
               PROVE  y.streams[k].dir = x.streams[k].dir
    BY DEF SameDirs
  <2>1. k \in DOMAIN m.streams /\ m.streams[k].born = y.streams[k].born BY StoodBetween DEF Calm
  <2> QED BY <2>1 DEF Calm, SameDirs
<1> QED BY <1>1, <1>2, <1>3 DEF Calm

\* drop: the lock goes if its server does, and only then.
LEMMA DropKind ==
    ASSUME NEW x, NEW S, Apt(x), S \subseteq DOMAIN x.streams, NEW y, y = Drop(x, S)
    PROVE  /\ Apt(y) /\ y.lockAt = x.lockAt /\ y.locks = x.locks
           /\ DOMAIN y.streams = DOMAIN x.streams \ S
           /\ Calm(x, y) \/ Loose(x, y)
           /\ (x.srv = Nil \/ x.srv.key \notin S) => Calm(x, y)
<1>1. Sound(x) /\ IsDecoder(x) /\ PointersHold(x) /\ Summed(x) BY DEF Apt, Sound, Paired
<1>2. IsFiniteSet(S) BY <1>1, FiniteTable, FS_Subset
<1>3. Sound(y) BY <1>1, <1>2, DropSound
<1>4. SameStats(x, y) /\ Summed(y) BY <1>1, DropStats
<1>5. NoLess(x, y) BY <1>1, <1>4, SameIsNoLess
<1>6. PICK u : u = Loosed(x, S) OBVIOUS
<1>7. /\ Quiet(x, y) /\ y.srv = u.srv /\ DOMAIN y.streams = DOMAIN x.streams \ S
      /\ \A k \in DOMAIN y.streams : Remains(x.streams[k], y.streams[k]) /\ y.streams[k].dir = u.streams[k].dir
  BY <1>1, <1>6, DropEffect
<1>8. /\ y.lockAt = x.lockAt /\ y.locks = x.locks /\ y.pair = x.pair /\ y.born = x.born
      /\ \A k \in DOMAIN y.streams : /\ k \in DOMAIN x.streams
                                     /\ y.streams[k].born = x.streams[k].born
                                     /\ y.streams[k].last = x.streams[k].last
  BY <1>7 DEF Quiet, Remains
<1>9. Older(x, y) /\ Young(y) BY <1>8, Borns DEF Apt, Older, Young
<1>10. x.srv = Nil => x.srv.key \notin S BY <1>1, DecoderAssumption DEF Nil, IsDecoder
<1>11. CASE PointsInto(x, x.srv, S)
  <2>1. u = Unlock(x) BY <1>6, <1>11 DEF Loosed
  <2>2. y.srv = Nil /\ \A k \in DOMAIN x.streams : u.streams[k].dir = Hunting BY <1>1, <1>7, <2>1, UnlockEffect
  <2>3. ServerIsPair(y) /\ NotAhead(y) BY <1>7, <1>8, <2>2 DEF ServerIsPair, NotAhead, Server, Hunting
  <2>4. Apt(y) BY <1>3, <1>4, <1>9, <2>3 DEF Apt
  <2>5. x.srv.key \in S BY <1>11 DEF PointsInto
  <2>6. ~Alive(x.srv, y) BY <1>7, <2>5 DEF Alive
  <2>7. Loose(x, y) BY <1>5, <1>8, <1>9, <1>10, <2>2, <2>5, <2>6 DEF Loose
  <2> QED BY <1>7, <1>8, <1>10, <2>4, <2>5, <2>7
<1>12. CASE ~PointsInto(x, x.srv, S)
  <2>1. u = x BY <1>6, <1>12 DEF Loosed
  <2>2. y.srv = x.srv /\ \A k \in DOMAIN y.streams : y.streams[k].dir = x.streams[k].dir BY <1>7, <2>1
  <2>3. ServerIsPair(y) BY <1>8, <2>2 DEF Apt, ServerIsPair
  <2>4. NotAhead(y)
    <3>1. y.srv # Nil => y.srv.key \in DOMAIN y.streams BY <1>3 DEF Sound, Paired, PairHolds
    <3> QED BY <1>8, <2>2, <3>1 DEF Apt, NotAhead
  <2>5. Apt(y) BY <1>3, <1>4, <1>9, <2>3, <2>4 DEF Apt
  <2>6. SameDirs(x, y) BY <2>2 DEF SameDirs
  <2>7. Calm(x, y) BY <1>5, <1>8, <1>9, <2>2, <2>6 DEF Calm
  <2> QED BY <1>7, <1>8, <2>5, <2>7
<1> QED BY <1>11, <1>12

\* Room is made of a hunting stream, which is not the lock's.
LEMMA MakeRoomKind ==
    ASSUME NEW x, Apt(x), NEW y, y = MakeRoom(x)
    PROVE  Apt(y) /\ Calm(x, y) /\ y.lockAt = x.lockAt /\ DOMAIN y.streams \subseteq DOMAIN x.streams
<1>1. CASE Cardinality(DOMAIN x.streams) >= MaxStreams
  <2>1. PICK h \in DOMAIN x.streams : x.streams[h].dir = Hunting BY <1>1, SomeHunt DEF Apt
  <2>2. Stalest(x) \in DOMAIN x.streams /\ x.streams[Stalest(x)].dir = Hunting BY <2>1, StalestHunts DEF Apt
  <2>3. x.srv = Nil \/ x.srv.key # Stalest(x)
    BY <2>2 DEF Apt, Sound, Paired, PairHolds, Server, Hunting
  <2> DEFINE S == {Stalest(x)}
  <2>4. y = Drop(x, S) BY <1>1 DEF MakeRoom
  <2>5. S \subseteq DOMAIN x.streams /\ (x.srv = Nil \/ x.srv.key \notin S) BY <2>2, <2>3
  <2> HIDE DEF S
  <2>6. /\ Apt(y) /\ y.lockAt = x.lockAt /\ DOMAIN y.streams = DOMAIN x.streams \ S
        /\ (x.srv = Nil \/ x.srv.key \notin S) => Calm(x, y)
    BY <2>4, <2>5, DropKind
  <2> QED BY <2>5, <2>6
<1>2. CASE ~(Cardinality(DOMAIN x.streams) >= MaxStreams)
  <2>1. y = x BY <1>2 DEF MakeRoom
  <2> QED BY <2>1, CalmItself
<1> QED BY <1>1, <1>2

LEMMA MakeKind ==
    ASSUME NEW x, NEW k \in Keys, NEW t \in Times, Apt(x), Fits(x, k), k \notin DOMAIN x.streams,
           NEW y, y = Make(x, k, t)
    PROVE  Apt(y) /\ Calm(x, y) /\ y.lockAt = x.lockAt
<1>1. Sound(x) /\ IsDecoder(x) /\ Summed(x) BY DEF Apt, Sound
<1>2. /\ SameLock(x, y) /\ y.born = x.born + 1 /\ DOMAIN y.streams = DOMAIN x.streams \cup {k}
      /\ \A j \in DOMAIN x.streams : y.streams[j] = x.streams[j]
      /\ y.streams[k] = NewStream(x, t)
  BY <1>1, MakeEffect
<1>3. Sound(y) BY <1>1, MakeSound
<1>4. SameStats(x, y) /\ Summed(y) BY <1>1, MakeStats
<1>5. NoLess(x, y) BY <1>1, <1>4, SameIsNoLess
<1>6. y.streams[k].born = x.born /\ y.streams[k].dir \in {Hunting, Client} BY <1>2 DEF NewStream
<1>7. x.born \in Nat /\ \A j \in DOMAIN x.streams : x.streams[j].born \in Nat /\ x.streams[j].born < x.born
  BY Borns
<1>8. Older(x, y)
  <2>1. y.born >= x.born BY <1>2, <1>7
  <2>2. ASSUME NEW j \in DOMAIN y.streams, y.streams[j].born < x.born
        PROVE  j \in DOMAIN x.streams /\ x.streams[j].born = y.streams[j].born
    <3>1. j # k BY <1>6, <1>7, <2>2
    <3> QED BY <1>2, <3>1
  <2> QED BY <2>1, <2>2 DEF Older
<1>9. Young(y)
  <2> SUFFICES ASSUME NEW j \in DOMAIN y.streams PROVE y.streams[j].born < y.born BY DEF Young
  <2>1. CASE j = k BY <1>2, <1>6, <1>7, <2>1
  <2>2. CASE j # k BY <1>2, <1>7, <2>2
  <2> QED BY <2>1, <2>2
<1>10. ServerIsPair(y)
  <2>1. Server # Hunting /\ Server # Client BY DEF Server, Client, Hunting
  <2> QED BY <1>2, <1>6, <2>1 DEF Apt, ServerIsPair, SameLock
<1>11. NotAhead(y)
  <2>1. x.srv # Nil => x.srv.key \in DOMAIN x.streams BY <1>1 DEF Sound, Paired, PairHolds
  <2> QED BY <1>2, <2>1 DEF Apt, NotAhead, SameLock
<1>12. SameDirs(x, y) BY <1>2 DEF SameDirs
<1> QED BY <1>2, <1>3, <1>4, <1>5, <1>8, <1>9, <1>10, <1>11, <1>12 DEF Apt, Calm, SameLock

\* stream: what is looked up, or made, is no server.
LEMMA StreamKind ==
    ASSUME NEW x, NEW k \in Keys, NEW t \in Times, Apt(x), Fits(x, k), NEW y, y = Stream(x, k, t)
    PROVE  Apt(y) /\ Calm(x, y) /\ y.lockAt = x.lockAt /\ Fits(y, k) /\ k \in DOMAIN y.streams
<1>1. Sound(x) /\ IsDecoder(x) BY DEF Apt, Sound
<1>2. Sound(y) /\ Fits(y, k) /\ k \in DOMAIN y.streams BY <1>1, StreamSound
<1>3. CASE y = x BY <1>2, <1>3, CalmItself
<1>4. CASE k \in DOMAIN x.streams /\ y = [x EXCEPT !.last = Pointer(x, k)]
  <2>1. /\ y.streams = x.streams /\ y.born = x.born /\ y.resyncs = x.resyncs
        /\ y.clientResyncs = x.clientResyncs /\ SameLock(x, y)
    BY <1>1, <1>4 DEF IsDecoder, Fields, SameLock
  <2>2. \A j \in DOMAIN x.streams : SameMarks(x.streams[j], y.streams[j]) BY <2>1 DEF SameMarks
  <2>3. Apt(y) /\ Calm(x, y) BY <1>2, <2>1, <2>2, Unmoved
  <2> QED BY <1>2, <2>1, <2>3 DEF SameLock
<1>5. CASE k \notin DOMAIN x.streams /\ y = Make(MakeRoom(x), k, t)
  <2>1. PICK m : m = MakeRoom(x) OBVIOUS
  <2>2. Apt(m) /\ Calm(x, m) /\ m.lockAt = x.lockAt /\ DOMAIN m.streams \subseteq DOMAIN x.streams
    BY <2>1, MakeRoomKind
  <2>3. Fits(m, k) BY <2>2 DEF Fits, InPair, Calm
  <2>4. k \notin DOMAIN m.streams BY <1>5, <2>2
  <2>5. y = Make(m, k, t) BY <1>5, <2>1
  <2>6. Apt(y) /\ Calm(m, y) /\ y.lockAt = m.lockAt BY <2>2, <2>3, <2>4, <2>5, MakeKind
  <2> QED BY <1>2, <2>2, <2>6, CalmOn
<1> QED BY <1>3, <1>4, <1>5 DEF Stream

LEMMA LockKind ==
    ASSUME NEW x, Apt(x), NEW k \in DOMAIN x.streams, x.streams[k].dir = Hunting, x.srv = Nil,
           NEW y, y = Lock(x, k)
    PROVE  /\ Apt(y) /\ Locked(x, y) /\ y.srv.key = k /\ k \in DOMAIN y.streams
           /\ y.streams[k].closed = x.streams[k].closed
<1> DEFINE r == Reverse(k)
           b == Both(x, k)
           S == DOMAIN x.streams \ {k, r}
<1>1. Sound(x) /\ IsDecoder(x) /\ PointersHold(x) /\ Summed(x) BY DEF Apt, Sound, Paired
<1>2. y = Drop(b, S) BY LockIs
<1>3. /\ IsDecoder(b) /\ PointersHold(b) /\ Steady(x, b)
      /\ b.srv = Pointer(x, k) /\ b.lockAt = x.streams[k].last /\ b.locks = x.locks + 1 /\ b.pair = k
      /\ DOMAIN b.streams = DOMAIN x.streams
      /\ \A j \in DOMAIN x.streams :
            /\ Stays(x.streams[j], b.streams[j])
            /\ b.streams[j].dir = IF j = k THEN Server ELSE IF j = r THEN Client ELSE x.streams[j].dir
  BY <1>1, BothEffect
<1>4. Summed(b) /\ NoLessInAll(x, b) /\ (~(r \in DOMAIN x.streams /\ x.streams[r].dir = Server) => NoLess(x, b))
  BY <1>1, BothStats
<1>5. Sound(y) /\ k \in DOMAIN y.streams /\ y.srv # Nil /\ y.srv.key = k BY <1>1, LockSound
<1>6. r # k /\ Reverse(r) = k /\ k \in Keys /\ r \in Keys /\ NoKey \notin Keys
  BY <1>1, DecoderAssumption DEF IsDecoder
<1>7. S \subseteq DOMAIN b.streams /\ k \notin S BY <1>3
<1> HIDE DEF b, S
<1>8. Loosed(b, S) = b BY <1>3, <1>7 DEF Loosed, PointsInto, Pointer
<1>9. SameStats(b, y) /\ Summed(y) BY <1>2, <1>3, <1>4, <1>7, DropStats
<1>10. /\ Quiet(b, y) /\ y.srv = b.srv /\ DOMAIN y.streams = DOMAIN b.streams \ S
       /\ \A j \in DOMAIN y.streams : Remains(b.streams[j], y.streams[j]) /\ y.streams[j].dir = b.streams[j].dir
  <2>1. PICK u : u = Loosed(b, S) OBVIOUS
  <2>2. /\ Quiet(b, y) /\ y.srv = u.srv /\ DOMAIN y.streams = DOMAIN b.streams \ S
        /\ \A j \in DOMAIN y.streams : Remains(b.streams[j], y.streams[j]) /\ y.streams[j].dir = u.streams[j].dir
    BY <1>2, <1>3, <2>1, DropEffect
  <2> QED BY <1>8, <2>1, <2>2
<1>11. /\ y.born = x.born /\ y.lockAt = x.streams[k].last /\ y.locks = x.locks + 1 /\ y.pair = k
       /\ \A j \in DOMAIN y.streams : /\ j \in DOMAIN x.streams /\ j \in {k, r}
                                      /\ y.streams[j].born = x.streams[j].born
                                      /\ y.streams[j].last = x.streams[j].last
                                      /\ y.streams[j].closed = x.streams[j].closed
                                      /\ y.streams[j].dir = IF j = k THEN Server ELSE Client
  BY <1>3, <1>10 DEF S, Quiet, Steady, Remains, Stays
<1>12. Older(x, y) /\ Young(y) BY <1>11, Borns DEF Apt, Older, Young
<1>13. ServerIsPair(y) BY <1>11 DEF ServerIsPair, Server, Client
<1>14. NotAhead(y) BY <1>5, <1>11, Borns DEF NotAhead
<1>15. Apt(y) BY <1>5, <1>9, <1>12, <1>13, <1>14 DEF Apt
<1>16. NoLessInAll(x, y) /\ (NoLess(x, b) => NoLess(x, y)) BY <1>4, <1>9 DEF SameStats, NoLess, NoLessInAll
<1>17. NoLess(x, y) \/ (x.pair # NoKey /\ y.pair = Reverse(x.pair))
  <2>1. CASE r \in DOMAIN x.streams /\ x.streams[r].dir = Server
    <3>1. x.pair = r BY <2>1 DEF Apt, ServerIsPair
    <3> QED BY <1>6, <1>11, <3>1
  <2>2. CASE ~(r \in DOMAIN x.streams /\ x.streams[r].dir = Server) BY <1>4, <1>16, <2>2
  <2> QED BY <2>1, <2>2
<1>18. Locked(x, y) BY <1>5, <1>11, <1>12, <1>16, <1>17 DEF Locked
<1> QED BY <1>5, <1>11, <1>15, <1>18

-----------------------------------------------------------------------------
\* What a segment does to the lock before its stream is fed, and what the stream's frames do.

\* admit: only a silence longer than LockIdle unlocks it, and then the server side's is no shorter.
LEMMA AdmitKeeps ==
    ASSUME NEW b, NEW x, NEW k, NEW t \in Times, Apt(b), Apt(x), Kept(b, x, t),
           x.locks = b.locks, x.lockAt = b.lockAt, Admits(x, k, t), NEW y, y = Admit(x, k, t)
    PROVE  /\ Apt(y) /\ Kept(b, y, t) /\ LockStands(b, y) /\ Fits(y, k)
           /\ y.srv = Nil \/ y.lockAt >= t
<1>1. Sound(x) /\ IsDecoder(x) /\ PointersHold(x) /\ Summed(x) BY DEF Apt, Sound, Paired
<1>2. Sound(y) /\ Fits(y, k) BY <1>1, AdmitSound
<1>3. CASE x.srv = Nil
  <2>1. y = x BY <1>3 DEF Admit
  <2> QED BY <1>2, <1>3, <2>1 DEF LockStands
<1>4. CASE x.srv # Nil /\ InPair(x, k)
  <2> DEFINE v == IF t > x.lockAt THEN t ELSE x.lockAt
  <2>1. v \in Nat /\ v >= t /\ v >= x.lockAt BY Borns, DecoderAssumption
  <2>2. y = [x EXCEPT !.lockAt = v] BY <1>1, <1>4 DEF Admit, IsDecoder, Fields
  <2> HIDE DEF v
  <2>3. /\ y.streams = x.streams /\ y.born = x.born /\ y.srv = x.srv /\ y.pair = x.pair /\ y.locks = x.locks
        /\ y.resyncs = x.resyncs /\ y.clientResyncs = x.clientResyncs /\ y.lockAt = v
    BY <1>1, <2>2 DEF IsDecoder, Fields
  <2>4. SameStats(x, y) /\ Summed(y) BY <1>1, <1>2, <2>3, StatsSame DEF Sound
  <2>5. NoLess(x, y) BY <1>1, <2>4, SameIsNoLess
  <2>6. Older(x, y) /\ Young(y) /\ SameDirs(x, y) /\ ServerIsPair(y)
    BY <2>3, Borns DEF Apt, Older, Young, SameDirs, ServerIsPair
  <2>7. NotAhead(y)
    <3>1. x.srv.key \in DOMAIN x.streams BY <1>1, <1>4 DEF Sound, Paired, PairHolds
    <3>2. x.streams[x.srv.key].last <= x.lockAt /\ x.streams[x.srv.key].last \in Nat /\ x.lockAt \in Nat
      BY <1>4, <3>1, Borns DEF Apt, NotAhead
    <3> QED BY <2>1, <2>3, <3>2 DEF NotAhead
  <2>8. Apt(y) /\ Calm(x, y) BY <1>2, <2>3, <2>4, <2>5, <2>6, <2>7 DEF Apt, Calm
  <2>9. Kept(b, y, t) BY <2>8, CalmKeeps
  <2> QED BY <1>2, <1>4, <2>1, <2>3, <2>8, <2>9 DEF LockStands
<1>5. CASE x.srv # Nil /\ ~InPair(x, k)
  <2>1. t - x.lockAt > LockIdle /\ y = Unlock(x) BY <1>5 DEF Admits, Admit
  <2>2. /\ Quiet(x, y) /\ y.srv = Nil /\ DOMAIN y.streams = DOMAIN x.streams
        /\ \A j \in DOMAIN x.streams : Remains(x.streams[j], y.streams[j]) /\ y.streams[j].dir = Hunting
    BY <1>1, <2>1, UnlockEffect
  <2>3. SameStats(x, y) /\ Summed(y) BY <1>1, <2>1, UnlockStats
  <2>4. NoLess(x, y) BY <1>1, <2>3, SameIsNoLess
  <2>5. Older(x, y) /\ Young(y) BY <2>2, Borns DEF Older, Young, Quiet, Remains
  <2>6. ServerIsPair(y) /\ NotAhead(y) BY <2>2 DEF ServerIsPair, NotAhead, Server, Hunting
  <2>7. Apt(y) BY <1>2, <2>3, <2>5, <2>6 DEF Apt
  <2>8. ASSUME b.srv # Nil, x.srv = b.srv PROVE t - b.streams[b.srv.key].last > LockIdle
    <3>1. b.srv.key \in DOMAIN b.streams BY <2>8 DEF Apt, Sound, Paired, PairHolds
    <3>2. b.streams[b.srv.key].last <= b.lockAt /\ b.streams[b.srv.key].last \in Nat /\ b.lockAt \in Nat
      BY <2>8, <3>1, Borns DEF Apt, NotAhead
    <3>3. t \in Nat /\ LockIdle \in Nat BY DecoderAssumption
    <3> QED BY <2>1, <3>2, <3>3
  <2>9. b.srv # Nil => Excused(b, y, t)
    <3>1. Excused(b, x, t) => Excused(b, y, t) BY <2>5, <2>7, StaysDead DEF Kept
    <3> QED BY <2>8, <3>1 DEF Kept, ServerKept, Excused
  <2>10. Kept(b, y, t) BY <1>5, <2>2, <2>4, <2>5, <2>7, <2>9, ExcusedKeeps DEF Quiet
  <2> QED BY <1>2, <2>2, <2>7, <2>10 DEF LockStands, Quiet
<1> QED BY <1>3, <1>4, <1>5

\* emit: a lock may be earned, of the stream itself, where none stands.
LEMMA EmitKeeps ==
    ASSUME NEW b, NEW x, NEW k \in DOMAIN x.streams, NEW f, NEW t, Apt(b), Apt(x), Kept(b, x, t),
           LockStands(b, x), NEW y, y = Emit(x, k, f)
    PROVE  /\ Apt(y) /\ Kept(b, y, t) /\ LockStands(b, y)
           /\ k \in DOMAIN y.streams /\ y.streams[k].closed = x.streams[k].closed
           /\ SameLock(x, y) \/ (y.srv # Nil /\ y.srv.key = k)
<1> DEFINE h == IF x.srv = Nil THEN Hunt(x, k, f) ELSE x
           c == Counting(x, k, f)
<1>1. Sound(x) BY DEF Apt
<1>2. /\ Apt(h) /\ Kept(b, h, t) /\ LockStands(b, h)
      /\ k \in DOMAIN h.streams /\ h.streams[k].closed = x.streams[k].closed
      /\ SameLock(x, h) \/ (h.srv # Nil /\ h.srv.key = k)
  <2>1. CASE h = x BY <2>1 DEF SameLock
  <2>2. CASE x.srv = Nil /\ h = Hunt(x, k, f)
    <3>1. /\ Sound(c) /\ Steady(x, c) /\ SameLock(x, c) /\ DOMAIN c.streams = DOMAIN x.streams
          /\ \A j \in DOMAIN x.streams : j # k => c.streams[j] = x.streams[j]
          /\ Remains(x.streams[k], c.streams[k])
          /\ c.streams[k].dir = x.streams[k].dir /\ c.streams[k].resyncs = x.streams[k].resyncs
          /\ h = x \/ (x.streams[k].dir = Hunting /\ (h = c \/ h = Lock(c, k)))
      BY <1>1, <2>2, HuntEffect
    <3> HIDE DEF h, c
    <3>2. \A j \in DOMAIN x.streams : SameMarks(x.streams[j], c.streams[j]) BY <3>1 DEF SameMarks, Remains
    <3>3. Apt(c) /\ Calm(x, c) BY <3>1, <3>2, Unmoved DEF Steady
    <3>4. Kept(b, c, t) /\ LockStands(b, c) BY <3>3, CalmKeeps
    <3>5. CASE h = c BY <3>1, <3>3, <3>4, <3>5 DEF Remains
    <3>6. CASE x.streams[k].dir = Hunting /\ h = Lock(c, k)
      <4>1. c.srv = Nil /\ k \in DOMAIN c.streams /\ c.streams[k].dir = Hunting
        BY <2>2, <3>1, <3>6 DEF SameLock
      <4>2. /\ Apt(h) /\ Locked(c, h) /\ h.srv.key = k /\ k \in DOMAIN h.streams
            /\ h.streams[k].closed = c.streams[k].closed
        BY <3>3, <3>6, <4>1, LockKind
      <4>3. Kept(b, h, t) /\ LockStands(b, h) BY <3>3, <3>4, <4>2, LockedKeeps
      <4> QED BY <3>1, <4>2, <4>3 DEF Locked, Remains
    <3> QED BY <2>1, <3>1, <3>5, <3>6
  <2> QED BY <2>1, <2>2
<1>3. y = Sort(h, k, f) BY DEF Emit
<1> HIDE DEF h, c
<1>4. PICK s, u : s = h.streams[k] /\ u = y.streams[k] OBVIOUS
<1>5. /\ Sound(y) /\ Steady(h, y) /\ SameLock(h, y) /\ DOMAIN y.streams = DOMAIN h.streams
      /\ \A j \in DOMAIN h.streams : j # k => y.streams[j] = h.streams[j]
      /\ u.last = s.last /\ u.closed = s.closed /\ u.born = s.born /\ u.resyncs = s.resyncs /\ u.dir = s.dir
  BY <1>2, <1>3, <1>4, SortEffect DEF Apt
<1>6. \A j \in DOMAIN h.streams : SameMarks(h.streams[j], y.streams[j]) BY <1>4, <1>5 DEF SameMarks
<1>7. Apt(y) /\ Calm(h, y) BY <1>2, <1>5, <1>6, Unmoved DEF Steady
<1>8. Kept(b, y, t) /\ LockStands(b, y) BY <1>2, <1>7, CalmKeeps
<1>9. SameLock(x, y) \/ (y.srv # Nil /\ y.srv.key = k) BY <1>2, <1>5 DEF SameLock
<1> QED BY <1>2, <1>4, <1>5, <1>7, <1>8, <1>9

\* What a stream's own frames come to.
Earning(b, x, y, k, t) ==
    /\ Apt(y) /\ Kept(b, y, t) /\ LockStands(b, y)
    /\ k \in DOMAIN y.streams /\ y.streams[k].closed = x.streams[k].closed
    /\ SameLock(x, y) \/ (y.srv # Nil /\ y.srv.key = k)

\* Before its frames, it leaves the lock as it is.
LEMMA TakingKind ==
    ASSUME NEW x, Apt(x), NEW k \in DOMAIN x.streams, NEW o, o.resyncs \in Nat, o.held \in Nat,
           NEW z, z = Taking(x, k, o)
    PROVE  /\ Apt(z) /\ Calm(x, z) /\ SameLock(x, z) /\ z.config = x.config /\ z.queue = x.queue /\ z.born = x.born
           /\ DOMAIN z.streams = DOMAIN x.streams
           /\ \A j \in DOMAIN x.streams : /\ z.streams[j].closed = x.streams[j].closed
                                          /\ z.streams[j].born = x.streams[j].born
                                          /\ z.streams[j].dir = x.streams[j].dir
                                          /\ z.streams[j].early = x.streams[j].early
                                          /\ z.streams[j].emitted = x.streams[j].emitted
<1>1. Sound(x) /\ Summed(x) BY DEF Apt
<1>2. /\ Sound(z) /\ SameLock(x, z) /\ z.config = x.config /\ z.queue = x.queue /\ z.born = x.born
      /\ DOMAIN z.streams = DOMAIN x.streams
      /\ \A j \in DOMAIN x.streams : j # k => z.streams[j] = x.streams[j]
      /\ z.streams[k].last = x.streams[k].last /\ z.streams[k].closed = x.streams[k].closed
      /\ z.streams[k].born = x.streams[k].born /\ z.streams[k].dir = x.streams[k].dir
      /\ z.streams[k].early = x.streams[k].early /\ z.streams[k].emitted = x.streams[k].emitted
  BY <1>1, TakingEffect
<1>3. NoLess(x, z) /\ Summed(z) BY <1>1, TakingStats
<1>4. \A j \in DOMAIN x.streams : /\ z.streams[j].last = x.streams[j].last
                                  /\ z.streams[j].closed = x.streams[j].closed
                                  /\ z.streams[j].born = x.streams[j].born
                                  /\ z.streams[j].dir = x.streams[j].dir
                                  /\ z.streams[j].early = x.streams[j].early
                                  /\ z.streams[j].emitted = x.streams[j].emitted
  BY <1>2
<1>5. Older(x, z) /\ Young(z) /\ SameDirs(x, z) /\ ServerIsPair(z)
  BY <1>2, <1>4, Borns DEF Apt, Older, Young, SameDirs, ServerIsPair, SameLock
<1>6. NotAhead(z)
  <2>1. x.srv # Nil => x.srv.key \in DOMAIN x.streams BY <1>1 DEF Sound, Paired, PairHolds
  <2> QED BY <1>2, <1>4, <2>1 DEF Apt, NotAhead, SameLock
<1>7. Apt(z) /\ Calm(x, z) BY <1>2, <1>3, <1>5, <1>6 DEF Apt, Calm, SameLock
<1> QED BY <1>2, <1>4, <1>7

LEMMA TakeKeeps ==
    ASSUME NEW b, NEW x, NEW k \in DOMAIN x.streams, NEW o, o.resyncs \in Nat, o.held \in Nat, NEW t,
           Apt(b), Apt(x), Kept(b, x, t), LockStands(b, x), NEW y, y = Take(x, k, o)
    PROVE  Earning(b, x, y, k, t)
<1> DEFINE z == Taking(x, k, o)
           e == Emit(z, k, o.frames[1])
<1>1. y = EmitAll(z, k, o.frames) BY TakeIs
<1>2. /\ Apt(z) /\ Calm(x, z) /\ SameLock(x, z)
      /\ DOMAIN z.streams = DOMAIN x.streams /\ z.streams[k].closed = x.streams[k].closed
  BY TakingKind
<1> HIDE DEF z
<1>3. Kept(b, z, t) /\ LockStands(b, z) BY <1>2, CalmKeeps
<1>4. k \in DOMAIN z.streams BY <1>2
<1>5. /\ Apt(e) /\ Kept(b, e, t) /\ LockStands(b, e)
      /\ k \in DOMAIN e.streams /\ e.streams[k].closed = z.streams[k].closed
      /\ SameLock(z, e) \/ (e.srv # Nil /\ e.srv.key = k)
  BY <1>2, <1>3, <1>4, EmitKeeps
<1>6. y = z \/ y = e \/ y = Emit(e, k, o.frames[2]) BY <1>1 DEF EmitAll
<1> HIDE DEF e
<1>7. CASE y = z BY <1>2, <1>3, <1>4, <1>7 DEF Earning
<1>8. CASE y = e BY <1>2, <1>5, <1>8 DEF SameLock, Earning
<1>9. CASE y = Emit(e, k, o.frames[2])
  <2>1. /\ Apt(y) /\ Kept(b, y, t) /\ LockStands(b, y)
        /\ k \in DOMAIN y.streams /\ y.streams[k].closed = e.streams[k].closed
        /\ SameLock(e, y) \/ (y.srv # Nil /\ y.srv.key = k)
    BY <1>5, <1>9, EmitKeeps
  <2> QED BY <1>2, <1>5, <2>1 DEF SameLock, Earning
<1> QED BY <1>6, <1>7, <1>8, <1>9

\* No lock but k's is new.
LocksOnly(x, y, k) == SameLock(x, y) \/ (y.srv # Nil /\ y.srv.key = k)

LEMMA AckedKeeps ==
    ASSUME NEW b, NEW x, NEW k, NEW o, o.resyncs \in Nat, o.held \in Nat, NEW t,
           Apt(b), Apt(x), Kept(b, x, t), LockStands(b, x), NEW y, y = Acked(x, k, o)
    PROVE  Apt(y) /\ Kept(b, y, t) /\ LockStands(b, y) /\ LocksOnly(x, y, k)
<1>1. CASE y = x BY <1>1 DEF SameLock, LocksOnly
<1>2. CASE k \in DOMAIN x.streams /\ y = Take(x, k, o)
  <2>1. k \in DOMAIN x.streams BY <1>2
  <2>2. y = Take(x, k, o) BY <1>2
  <2>3. Earning(b, x, y, k, t) BY <2>1, <2>2, TakeKeeps
  <2> QED BY <2>3 DEF Earning, LocksOnly
<1> QED BY <1>1, <1>2 DEF Acked

-----------------------------------------------------------------------------
\* A segment.

\* The server side was not heard later than lockAt, nor is it by this segment, of k at t.
Timely(x, k, t) == x.srv # Nil => x.lockAt >= t \/ x.srv.key # k

LEMMA HeardKeeps ==
    ASSUME NEW x, Apt(x), NEW k \in DOMAIN x.streams, NEW t \in Times, Timely(x, k, t),
           NEW y, y = Heard(x, k, t) \/ y = Synced(x, k, t)
    PROVE  Apt(y) /\ Calm(x, y) /\ DOMAIN y.streams = DOMAIN x.streams
<1>1. Sound(x) /\ IsDecoder(x) /\ Summed(x) BY DEF Apt, Sound
<1>2. PICK s, u : s = x.streams[k] /\ u = y.streams[k] OBVIOUS
<1>3. /\ Sound(y) /\ Steady(x, y) /\ SameLock(x, y) /\ DOMAIN y.streams = DOMAIN x.streams
      /\ \A j \in DOMAIN x.streams : j # k => y.streams[j] = x.streams[j]
      /\ u.last = t /\ u.born = s.born /\ u.dir = s.dir /\ u.resyncs = s.resyncs
  BY <1>1, <1>2, HeardEffect
<1>4. \A j \in DOMAIN x.streams : /\ y.streams[j].born = x.streams[j].born
                                  /\ y.streams[j].dir = x.streams[j].dir
                                  /\ y.streams[j].resyncs = x.streams[j].resyncs
                                  /\ y.streams[j].last = IF j = k THEN t ELSE x.streams[j].last
  BY <1>2, <1>3
<1>5. SameStats(x, y) /\ Summed(y) BY <1>1, <1>3, <1>4, StatsSame DEF Sound, Steady
<1>6. NoLess(x, y) BY <1>1, <1>5, SameIsNoLess
<1>7. Older(x, y) /\ Young(y) /\ SameDirs(x, y) /\ ServerIsPair(y)
  BY <1>3, <1>4, Borns DEF Apt, Older, Young, SameDirs, ServerIsPair, SameLock, Steady
<1>8. NotAhead(y)
  <2>1. x.srv # Nil => x.srv.key \in DOMAIN x.streams BY <1>1 DEF Sound, Paired, PairHolds
  <2>2. x.srv # Nil /\ x.srv.key = k => x.lockAt >= t BY DEF Timely
  <2>3. t \in Nat /\ x.lockAt \in Nat BY Borns, DecoderAssumption
  <2> QED BY <1>3, <1>4, <2>1, <2>2, <2>3 DEF Apt, NotAhead, SameLock
<1> QED BY <1>3, <1>5, <1>6, <1>7, <1>8 DEF Apt, Calm, SameLock

LEMMA CloseKind ==
    ASSUME NEW x, Apt(x), NEW k \in DOMAIN x.streams, NEW t \in Times, NEW y, y = Close(x, k, t)
    PROVE  /\ Apt(y) /\ Calm(x, y) /\ DOMAIN y.streams = DOMAIN x.streams /\ y.streams[k].closed = t
           /\ \A j \in DOMAIN x.streams : j # k => y.streams[j] = x.streams[j]
<1>1. PICK s, u : s = x.streams[k] /\ u = y.streams[k] OBVIOUS
<1>2. /\ Sound(y) /\ SameLock(x, y) /\ y.born = x.born /\ DOMAIN y.streams = DOMAIN x.streams
      /\ y.resyncs = x.resyncs /\ y.clientResyncs = x.clientResyncs
      /\ \A j \in DOMAIN x.streams : j # k => y.streams[j] = x.streams[j]
      /\ u.last = s.last /\ u.born = s.born /\ u.dir = s.dir /\ u.resyncs = s.resyncs /\ u.closed = t
  BY <1>1, CloseEffect DEF Apt
<1>3. \A j \in DOMAIN x.streams : SameMarks(x.streams[j], y.streams[j]) BY <1>1, <1>2 DEF SameMarks
<1> QED BY <1>1, <1>2, <1>3, Unmoved

LEMMA MarkKeeps ==
    ASSUME NEW x, Apt(x), NEW k \in DOMAIN x.streams, NEW t \in Times, Timely(x, k, t), NEW ctl,
           NEW y, y = Mark(x, k, t, ctl)
    PROVE  /\ Apt(y) /\ Calm(x, y) /\ k \in DOMAIN y.streams
           /\ ctl = "fin" => y.streams[k].closed = t
<1> DEFINE m == Synced(x, k, t)
<1>1. Apt(m) /\ Calm(x, m) /\ DOMAIN m.streams = DOMAIN x.streams BY HeardKeeps
<1>2. y = IF ctl = "fin" THEN Close(m, k, t) ELSE m BY MarkIs
<1> HIDE DEF m
<1>3. CASE ctl = "fin"
  <2>1. /\ Apt(y) /\ Calm(m, y) /\ DOMAIN y.streams = DOMAIN m.streams /\ y.streams[k].closed = t
    BY <1>1, <1>2, <1>3, CloseKind
  <2> QED BY <1>1, <2>1, CalmOn
<1>4. CASE ctl # "fin" BY <1>1, <1>2, <1>4
<1> QED BY <1>3, <1>4

LEMMA FoundKeeps ==
    ASSUME NEW b, NEW x, NEW k \in Keys, NEW t \in Times, NEW ctl, Apt(b), Apt(x), Fits(x, k),
           Kept(b, x, t), LockStands(b, x), Timely(x, k, t), NEW y, y = Found(x, k, t, ctl)
    PROVE  /\ Apt(y) /\ Kept(b, y, t) /\ Timely(y, k, t) /\ k \in DOMAIN y.streams
           /\ ctl # "renew" => LockStands(b, y)
<1> DEFINE s == Stream(x, k, t)
           e == Drop(s, {k})
<1>1. Apt(s) /\ Calm(x, s) /\ s.lockAt = x.lockAt /\ Fits(s, k) /\ k \in DOMAIN s.streams BY StreamKind
<1>2. y = IF ctl = "renew" THEN Stream(e, k, t) ELSE s BY DEF Found, Renew
<1> HIDE DEF s
<1>3. Kept(b, s, t) /\ LockStands(b, s) BY <1>1, CalmKeeps
<1>4. Timely(s, k, t) BY <1>1 DEF Timely, Calm
<1>5. CASE ctl # "renew" BY <1>1, <1>2, <1>3, <1>4, <1>5
<1>6. CASE ctl = "renew"
  <2>1. Apt(e) /\ e.lockAt = s.lockAt /\ (Calm(s, e) \/ Loose(s, e))
    <3>1. {k} \subseteq DOMAIN s.streams BY <1>1
    <3> QED BY <1>1, <3>1, DropKind
  <2> HIDE DEF e
  <2>2. Kept(b, e, t) BY <1>1, <1>3, <2>1, CalmKeeps, LooseKeeps
  <2>3. e.srv = s.srv \/ e.srv = Nil BY <2>1 DEF Calm, Loose
  <2>4. Fits(e, k) /\ Timely(e, k, t) BY <1>1, <1>4, <2>1, <2>3 DEF Fits, InPair, Timely
  <2>5. Apt(y) /\ Calm(e, y) /\ y.lockAt = e.lockAt /\ k \in DOMAIN y.streams
    BY <1>2, <1>6, <2>1, <2>4, StreamKind
  <2>6. Kept(b, y, t) BY <2>1, <2>2, <2>5, CalmKeeps
  <2>7. Timely(y, k, t) BY <2>4, <2>5 DEF Timely, Calm
  <2> QED BY <1>6, <2>5, <2>6, <2>7
<1> QED BY <1>5, <1>6

\* At the end of a step the lock may also have been let go, where a side has closed at that time.
LockKept(b, y, t) == b.srv # Nil /\ y.srv # b.srv =>
    \/ Excused(b, y, t)
    \/ \E k \in DOMAIN y.streams : k \in {b.srv.key, Reverse(b.srv.key)} /\ y.streams[k].closed = t

Ended(b, y, t) == LockKept(b, y, t) /\ DirsKept(b, y, t) /\ TotalsKept(b, y)

LEMMA KeptEnds ==
    ASSUME NEW b, NEW x, NEW t, Kept(b, x, t)
    PROVE  Ended(b, x, t)
BY DEF Kept, Ended, ServerKept, LockKept

LEMMA LetGoEnds ==
    ASSUME NEW b, NEW x, NEW k \in DOMAIN x.streams, NEW t \in Times, Apt(b), Apt(x), Kept(b, x, t),
           x.srv # Nil, x.streams[k].closed = t, NEW y, y = LetGo(x, k, t)
    PROVE  Apt(y) /\ Ended(b, y, t)
<1> DEFINE z == Unset(x)
           r == Reverse(k)
<1>1. Sound(x) /\ Summed(x) /\ IsDecoder(x) BY DEF Apt, Sound
<1>2. /\ Sound(z) /\ Steady(x, z) /\ z.streams = x.streams
      /\ z.srv = Nil /\ z.lockAt = x.lockAt /\ z.locks = x.locks /\ z.pair = x.pair
  BY <1>1, UnsetEffect
<1>3. y = IF r \in DOMAIN z.streams /\ z.streams[r].closed = Open THEN Close(z, r, t) ELSE z BY LetGoIs
<1>4. r # k BY <1>1, DecoderAssumption DEF IsDecoder
<1> HIDE DEF z, r
<1>5. SameStats(x, z) /\ Summed(z) BY <1>1, <1>2, StatsSame DEF Sound, Steady
<1>6. NoLess(x, z) BY <1>1, <1>5, SameIsNoLess
<1>7. Older(x, z) /\ Young(z) /\ ServerIsPair(z) /\ NotAhead(z)
  BY <1>2, Borns DEF Apt, Older, Young, ServerIsPair, NotAhead, Steady
<1>8. Apt(z) BY <1>2, <1>5, <1>7 DEF Apt
<1>9. /\ Apt(y) /\ Calm(z, y) /\ DOMAIN y.streams = DOMAIN x.streams /\ y.streams[k].closed = t
  BY <1>2, <1>3, <1>4, <1>8, CloseKind, CalmItself
<1>10. Older(x, y) /\ NoLess(x, y) /\ y.srv = Nil /\ y.pair = x.pair /\ y.locks = x.locks
  BY <1>2, <1>6, <1>7, <1>8, <1>9, OlderOn, NoLessOn DEF Calm
<1>11. Excused(b, x, t) => Excused(b, y, t) BY <1>9, <1>10, StaysDead DEF Kept
<1>12. LockKept(b, y, t)
  <2> SUFFICES ASSUME b.srv # Nil, x.srv = b.srv PROVE k \in {b.srv.key, Reverse(b.srv.key)}
    BY <1>9, <1>11 DEF LockKept, Kept, ServerKept
  <2> QED BY <1>1 DEF Sound, Paired, PairHolds
<1>13. DirsKept(b, y, t)
  <2> SUFFICES ASSUME NEW j \in DOMAIN b.streams \cap DOMAIN y.streams,
                      y.streams[j].born = b.streams[j].born, b.streams[j].dir # Hunting
               PROVE  y.streams[j].dir = b.streams[j].dir \/ y.locks # b.locks \/ Excused(b, y, t)
    BY DEF DirsKept
  <2>1. j \in DOMAIN x.streams /\ x.streams[j].born = y.streams[j].born BY <1>9, <1>10, StoodBetween DEF Kept
  <2>2. y.streams[j].dir = x.streams[j].dir BY <1>2, <1>9, <2>1 DEF Calm, SameDirs
  <2>3. x.streams[j].dir = b.streams[j].dir \/ x.locks # b.locks \/ Excused(b, x, t)
    BY <2>1 DEF Kept, DirsKept
  <2> QED BY <1>10, <1>11, <2>2, <2>3
<1>14. TotalsKept(b, y)
  <2>1. (NoLess(b, x) => NoLess(b, y)) /\ (NoLessInAll(b, x) => NoLessInAll(b, y)) BY <1>9, <1>10, NoLessOn
  <2> QED BY <1>10, <2>1 DEF Kept, TotalsKept
<1> QED BY <1>9, <1>12, <1>13, <1>14 DEF Ended

LEMMA FedEnds ==
    ASSUME NEW b, NEW x, NEW k \in DOMAIN x.streams, NEW t \in Times, NEW ctl, NEW o,
           Apt(b), Apt(x), Kept(b, x, t), Timely(x, k, t), o.resyncs \in Nat, o.held \in Nat,
           NEW m, m = Mark(x, k, t, ctl),
           NEW p, p = m \/ (p = Take(m, k, o) /\ LockStands(b, x)),
           NEW y, y = p \/ (p.srv # Nil /\ ctl = "fin" /\ y = LetGo(p, k, t))
    PROVE  Apt(y) /\ Ended(b, y, t)
<1>1. /\ Apt(m) /\ Calm(x, m) /\ k \in DOMAIN m.streams
      /\ ctl = "fin" => m.streams[k].closed = t
  BY MarkKeeps
<1>2. Kept(b, m, t) /\ (LockStands(b, x) => LockStands(b, m)) BY <1>1, CalmKeeps
<1>3. Apt(p) /\ Kept(b, p, t) /\ k \in DOMAIN p.streams /\ p.streams[k].closed = m.streams[k].closed
  <2>1. CASE p = Take(m, k, o) /\ LockStands(b, x)
    <3>1. Earning(b, m, p, k, t) BY <1>1, <1>2, <2>1, TakeKeeps
    <3> QED BY <3>1 DEF Earning
  <2>2. CASE p = m BY <1>1, <1>2, <2>2
  <2> QED BY <2>1, <2>2
<1>4. CASE y = p BY <1>3, <1>4, KeptEnds
<1>5. CASE p.srv # Nil /\ ctl = "fin" /\ y = LetGo(p, k, t) BY <1>1, <1>3, <1>5, LetGoEnds
<1> QED BY <1>4, <1>5

-----------------------------------------------------------------------------
\* The lock, the directions and the totals in every step.

LInv == IInv /\ Apt(d)

LEMMA InitApt == Init => LInv
<1> SUFFICES ASSUME Init PROVE LInv OBVIOUS
<1>1. IInv BY InitHolds
<1>2. Sound(d) BY <1>1 DEF IInv, TypeOK, Sound
<1>3. d.streams = <<>> /\ d.srv = Nil /\ d.resyncs = 0 /\ d.clientResyncs = 0 BY DEF Init
<1>4. DOMAIN d.streams = {} BY <1>3
<1>5. Young(d) /\ NotAhead(d) /\ ServerIsPair(d) /\ Summed(d)
  BY <1>3, <1>4 DEF Young, NotAhead, ServerIsPair, Summed
<1> QED BY <1>1, <1>2, <1>5 DEF LInv, Apt

\* Where a step begins, and what its sweep leaves.
LEMMA DrainedKeeps ==
    ASSUME Apt(d), NEW t
    PROVE  /\ Apt(Drained) /\ Kept(d, Drained, t) /\ LockStands(d, Drained)
           /\ Drained.streams = d.streams /\ Drained.locks = d.locks /\ Drained.lockAt = d.lockAt
<1>1. Sound(Drained) /\ Drained.streams = d.streams BY DrainedSound DEF Apt
<1>2. Steady(d, Drained) /\ SameLock(d, Drained)
  BY DEF Apt, Sound, IsDecoder, Fields, Drained, Steady, SameLock
<1>3. \A k \in DOMAIN d.streams : SameMarks(d.streams[k], Drained.streams[k]) BY <1>1 DEF SameMarks
<1>4. Apt(Drained) /\ Calm(d, Drained) BY <1>1, <1>2, <1>3, Unmoved DEF Steady
<1>5. Calm(d, d) BY CalmItself
<1>6. Kept(d, d, t) /\ LockStands(d, d)
  BY <1>5 DEF Calm, Kept, ServerKept, DirsKept, TotalsKept, LockStands
<1> QED BY <1>1, <1>2, <1>4, <1>6, CalmKeeps DEF SameLock

LEMMA SweptKeeps ==
    ASSUME Apt(d), NEW t
    PROVE  /\ Apt(Swept(t)) /\ Kept(d, Swept(t), t)
           /\ Swept(t).locks = d.locks /\ Swept(t).lockAt = d.lockAt
<1>1. PICK b, x, y : b = d /\ x = Drained /\ y = Swept(t) OBVIOUS
<1> DEFINE S == {k \in DOMAIN x.streams : x.streams[k].closed # Open /\ t - x.streams[k].closed >= CloseGrace}
<1>2. Apt(b) /\ Apt(x) /\ Kept(b, x, t) /\ x.locks = b.locks /\ x.lockAt = b.lockAt
  BY <1>1, DrainedKeeps
<1>3. y = x \/ y = Drop(x, S) BY <1>1 DEF Swept, Sweep
<1>4. S \subseteq DOMAIN x.streams OBVIOUS
<1> HIDE DEF S
<1>5. CASE y = x BY <1>1, <1>2, <1>5
<1>6. CASE y = Drop(x, S)
  <2>1. Apt(y) /\ y.lockAt = x.lockAt /\ y.locks = x.locks /\ (Calm(x, y) \/ Loose(x, y))
    BY <1>2, <1>4, <1>6, DropKind
  <2>2. Kept(b, y, t) BY <1>2, <2>1, CalmKeeps, LooseKeeps
  <2> QED BY <1>1, <1>2, <2>1, <2>2
<1> QED BY <1>3, <1>5, <1>6

LEMMA AdmittedKeeps ==
    ASSUME Apt(d), NEW k \in Keys, NEW t \in Times, Admits(Swept(t), k, t), NEW a, a = Admit(Swept(t), k, t)
    PROVE  /\ Apt(a) /\ Kept(d, a, t) /\ LockStands(d, a) /\ Fits(a, k)
           /\ a.srv = Nil \/ a.lockAt >= t
<1> DEFINE x == Swept(t)
<1>1. Apt(x) /\ Kept(d, x, t) /\ x.locks = d.locks /\ x.lockAt = d.lockAt BY SweptKeeps
<1>2. Admits(x, k, t) /\ a = Admit(x, k, t) OBVIOUS
<1> HIDE DEF x
<1> QED BY <1>1, <1>2, AdmitKeeps

LEMMA SegmentEnds ==
    ASSUME Apt(d), NEW k \in Keys, NEW t \in Times, FeedSegment(k, t)
    PROVE  Apt(d') /\ Ended(d, d', t)
<1>1. PICK q, a, y : q = d /\ a = Admit(Swept(t), k, t) /\ y = d' OBVIOUS
<1>2. /\ Apt(q) /\ Apt(a) /\ Kept(q, a, t) /\ LockStands(q, a) /\ Fits(a, k)
      /\ a.srv = Nil \/ a.lockAt >= t
  BY <1>1, AdmittedKeeps DEF FeedSegment
<1>3. PICK o \in AckOutcomes(a, Reverse(k)), ctl \in Controls \ {"feed"} :
         FeedStream(Found(Acked(a, Reverse(k), o), k, t, ctl), k, t, ctl)
  BY <1>1 DEF FeedSegment, FeedAdmitted
<1> DEFINE b == Acked(a, Reverse(k), o)
           s == Found(b, k, t, ctl)
<1>4. o.resyncs \in Nat /\ o.held \in Nat BY <1>2, <1>3, OutcomeType DEF Apt, Sound
<1>5. Apt(b) /\ Kept(q, b, t) /\ LockStands(q, b) /\ LocksOnly(a, b, Reverse(k))
  BY <1>2, <1>4, AckedKeeps
<1> HIDE DEF b
<1>6. Reverse(k) # k BY DecoderAssumption
<1>7. Fits(b, k) BY <1>2, <1>5 DEF Fits, InPair, SameLock, LocksOnly
<1>8. Timely(b, k, t) BY <1>2, <1>5, <1>6 DEF Timely, SameLock, LocksOnly
<1>9. /\ Apt(s) /\ Kept(q, s, t) /\ Timely(s, k, t) /\ k \in DOMAIN s.streams
      /\ ctl # "renew" => LockStands(q, s)
  BY <1>2, <1>5, <1>7, <1>8, FoundKeeps
<1>10. FeedStream(s, k, t, ctl) BY <1>3 DEF b
<1> HIDE DEF s
<1>11. PICK payload \in BOOLEAN, p \in Placed(s, k, ctl) \cup {Nothing(s, k)}, inOrder \in InOrder(s, k, ctl) :
         y = Fed(s, k, t, ctl, payload, p, inOrder) /\ (payload => p \in Placed(s, k, ctl))
  BY <1>1, <1>10 DEF FeedStream, Becomes
<1>12. p.resyncs \in Nat /\ p.held \in Nat BY <1>9, <1>11, OutcomeType DEF Apt, Sound, Placed
<1>13. PICK m, z : m = Mark(s, k, t, ctl) /\ z = IF payload THEN Take(m, k, p) ELSE m OBVIOUS
<1>14. z = m \/ (z = Take(m, k, p) /\ LockStands(q, s)) BY <1>9, <1>11, <1>13 DEF Placed
<1>15. y = z \/ (z.srv # Nil /\ ctl = "fin" /\ y = LetGo(z, k, t)) BY <1>11, <1>13 DEF Fed, LetGoIf
<1>16. Apt(y) /\ Ended(q, y, t) BY <1>2, <1>9, <1>12, <1>13, <1>14, <1>15, FedEnds
<1> QED BY <1>1, <1>16

LEMMA PayloadEnds ==
    ASSUME Apt(d), NEW k \in Keys, NEW t \in Times, Feed(k, t)
    PROVE  Apt(d') /\ Ended(d, d', t)
<1> DEFINE a == Admit(Swept(t), k, t)
           s == Stream(a, k, t)
           fed == Heard(s, k, t)
<1>1. Apt(a) /\ Kept(d, a, t) /\ LockStands(d, a) /\ Fits(a, k) /\ (a.srv = Nil \/ a.lockAt >= t)
  BY AdmittedKeeps DEF Feed
<1>2. PICK o \in Outcomes(0) : d' = Take(fed, k, [o EXCEPT !.held = s.streams[k].held])
  BY DEF Feed, FeedPayload, Becomes, Heard
<1> HIDE DEF a
<1>3. Apt(s) /\ Calm(a, s) /\ s.lockAt = a.lockAt /\ k \in DOMAIN s.streams BY <1>1, StreamKind
<1> HIDE DEF s
<1>4. Timely(s, k, t) BY <1>1, <1>3 DEF Timely, Calm
<1>5. Kept(d, s, t) /\ LockStands(d, s) BY <1>1, <1>3, CalmKeeps
<1> DEFINE p == [o EXCEPT !.held = s.streams[k].held]
<1>6. p.resyncs \in Nat /\ p.held \in Nat
  <2>1. s.streams[k].held \in Nat BY <1>3 DEF Apt, Sound, IsDecoder, AStream
  <2> QED BY <2>1 DEF Outcomes
<1> HIDE DEF p
<1>7. Apt(fed) /\ Calm(s, fed) /\ k \in DOMAIN fed.streams BY <1>3, <1>4, HeardKeeps
<1> HIDE DEF fed
<1>8. Kept(d, fed, t) /\ LockStands(d, fed) BY <1>3, <1>5, <1>7, CalmKeeps
<1>9. d' = Take(fed, k, p) BY <1>2 DEF p
<1>10. PICK y : y = d' OBVIOUS
<1>11. Earning(d, fed, y, k, t) BY <1>6, <1>7, <1>8, <1>9, <1>10, TakeKeeps
<1>12. Apt(y) /\ Ended(d, y, t) BY <1>11, KeptEnds DEF Earning
<1> QED BY <1>10, <1>12

LEMMA NextEnds == LInv /\ [Next]_vars => Apt(d') /\ Ended(d, d', now')
<1> SUFFICES ASSUME LInv, [Next]_vars PROVE Apt(d') /\ Ended(d, d', now') OBVIOUS
<1>1. Apt(d) /\ IInv BY DEF LInv
<1>2. ASSUME NEW k \in Keys, NEW t \in Times, Refuse(k, t) PROVE Apt(d') /\ Ended(d, d', now')
  <2>1. d' = Swept(t) /\ now' = t BY <1>2 DEF Refuse, Becomes, At
  <2>2. Apt(Swept(t)) /\ Kept(d, Swept(t), t) BY <1>1, SweptKeeps
  <2> QED BY <2>1, <2>2, KeptEnds
<1>3. ASSUME NEW k \in Keys, NEW t \in Times, BareAck(k, t) PROVE Apt(d') /\ Ended(d, d', now')
  <2>1. PICK q, a, y : q = d /\ a = Admit(Swept(t), k, t) /\ y = d' OBVIOUS
  <2>2. Apt(q) /\ Apt(a) /\ Kept(q, a, t) /\ LockStands(q, a)
    BY <1>1, <1>3, <2>1, AdmittedKeeps DEF BareAck
  <2>3. PICK o \in AckOutcomes(a, Reverse(k)) : y = Acked(a, Reverse(k), o)
    BY <1>3, <2>1 DEF BareAck, HeedAck, Becomes
  <2>4. o.resyncs \in Nat /\ o.held \in Nat BY <2>2, <2>3, OutcomeType DEF Apt, Sound
  <2>5. Apt(y) /\ Kept(q, y, t) BY <2>2, <2>3, <2>4, AckedKeeps
  <2>6. now' = t BY <1>3 DEF BareAck, At
  <2> QED BY <2>1, <2>5, <2>6, KeptEnds
<1>4. ASSUME NEW k \in Keys, NEW t \in Times, FeedSegment(k, t) PROVE Apt(d') /\ Ended(d, d', now')
  BY <1>1, <1>4, SegmentEnds DEF FeedSegment, At
<1>5. ASSUME NEW k \in Keys, NEW t \in Times, Feed(k, t) PROVE Apt(d') /\ Ended(d, d', now')
  BY <1>1, <1>5, PayloadEnds DEF Feed, At
<1>6. Apt(Drained) /\ Kept(d, Drained, now') /\ LockStands(d, Drained) /\ Drained.streams = d.streams
  BY <1>1, DrainedKeeps
<1>7. CASE BeginFlush BY <1>6, <1>7, KeptEnds DEF BeginFlush
<1>8. CASE FlushStream
  <2>1. PICK k \in flushing, o \in Outcomes(0) : d' = Take(Drained, k, o)
    BY <1>8 DEF FlushStream, FlushTo, Becomes
  <2>2. k \in DOMAIN Drained.streams BY <1>1, <1>6 DEF IInv, TypeOK
  <2>3. o.resyncs \in Nat /\ o.held \in Nat BY DEF Outcomes
  <2>4. PICK x, y, t : x = Drained /\ y = d' /\ t = now' OBVIOUS
  <2>5. Earning(d, x, y, k, t) BY <1>1, <1>6, <2>1, <2>2, <2>3, <2>4, TakeKeeps
  <2>6. Apt(y) /\ Ended(d, y, t) BY <2>5, KeptEnds DEF Earning
  <2> QED BY <2>4, <2>6
<1>9. CASE EndFlush
  <2>1. PICK x, y : x = Drained /\ y = d' OBVIOUS
  <2>2. Apt(x) /\ y = Forgotten(x) BY <1>6, <1>9, <2>1 DEF EndFlush
  <2>3. /\ Sound(y) /\ Steady(x, y) /\ SameLock(x, y) /\ DOMAIN y.streams = DOMAIN x.streams
        /\ \A k \in DOMAIN x.streams : Stays(x.streams[k], y.streams[k]) /\ y.streams[k].dir = x.streams[k].dir
    BY <2>2, ForgottenEffect DEF Apt
  <2>4. \A k \in DOMAIN x.streams : SameMarks(x.streams[k], y.streams[k]) BY <2>3 DEF SameMarks, Stays
  <2>5. Apt(y) /\ Calm(x, y) BY <2>2, <2>3, <2>4, Unmoved DEF Steady
  <2>6. Kept(d, y, now') BY <1>1, <1>6, <2>1, <2>2, <2>5, CalmKeeps
  <2> QED BY <2>1, <2>5, <2>6, KeptEnds
<1>10. CASE UNCHANGED vars
  <2>1. d' = d BY <1>10 DEF vars
  <2>2. Calm(d, d) BY <1>1, CalmItself
  <2>3. Kept(d, d, now') BY <2>2 DEF Calm, Kept, ServerKept, DirsKept, TotalsKept
  <2> QED BY <1>1, <2>1, <2>3, KeptEnds
<1> QED BY <1>2, <1>3, <1>4, <1>5, <1>7, <1>8, <1>9, <1>10 DEF Next

LEMMA NextApt == LInv /\ [Next]_vars => LInv'
<1> SUFFICES ASSUME LInv, [Next]_vars PROVE LInv' OBVIOUS
<1>1. IInv' BY NextHolds DEF LInv
<1>2. Apt(d') BY NextEnds
<1> QED BY <1>1, <1>2 DEF LInv, Apt, Young, NotAhead, ServerIsPair, Summed, Sound, Paired, IsDecoder,
        PairHolds, PointersHold, Directed, Alive, Pointer, Fields, Pointers

LEMMA AptHolds == Spec => []LInv
BY InitApt, NextApt, PTL DEF Spec

\* The resyncs that Stats reports never go down, and a side's own only where a lock finds the pair
\* the other way round: unlock, drop and lock fold what they forget, once (decoder.go, stats.go).
THEOREM NoResyncIsForgotten == Spec => ResyncsNeverForgotten
<1> DEFINE Kind == /\ StatsResyncs(d', Server) + StatsResyncs(d', Client)
                         >= StatsResyncs(d, Server) + StatsResyncs(d, Client)
                   /\ ~Turned => \A dir \in {Server, Client} : StatsResyncs(d', dir) >= StatsResyncs(d, dir)
<1>1. LInv /\ [Next]_vars => [Kind]_vars
  <2> SUFFICES ASSUME LInv, [Next]_vars PROVE Kind OBVIOUS
  <2>1. PICK x, y, t : x = d /\ y = d' /\ t = now' OBVIOUS
  <2>2. Apt(x) /\ Apt(y) /\ TotalsKept(x, y) BY <2>1, NextEnds DEF LInv, Ended
  <2>3. NoLess(x, y) => NoLessInAll(x, y)
    <3>1. /\ StatsResyncs(x, Server) \in Nat /\ StatsResyncs(x, Client) \in Nat
          /\ StatsResyncs(y, Server) \in Nat /\ StatsResyncs(y, Client) \in Nat
      BY <2>2, StatsNumbers DEF Apt, Sound
    <3> QED BY <3>1 DEF NoLess, NoLessInAll
  <2>4. NoLessInAll(x, y) /\ (NoLess(x, y) \/ (x.pair # NoKey /\ y.pair = Reverse(x.pair)))
    BY <2>2, <2>3 DEF TotalsKept
  <2>5. NoLessInAll(x, y) /\ (~Turned => NoLess(x, y)) BY <2>1, <2>4 DEF Turned
  <2> QED BY <2>1, <2>5 DEF NoLess, NoLessInAll
<1> HIDE DEF Kind
<1>2. LInv /\ [Next]_vars => [Kind]_vars BY <1>1
<1>3. Spec => [][Kind]_vars BY <1>2, AptHolds, PTL DEF Spec
<1> QED BY <1>3 DEF ResyncsNeverForgotten, Kind

\* The lock stands until its server is dropped or silent, or a side of its pair closes, and until
\* then, or another lock, a stream keeps its direction (admit, letGo, sweep, lock).
THEOREM TheLockIsKept == Spec => OnlyACauseEndsIt
<1> DEFINE Cause == d.srv # Nil /\ d'.srv # d.srv =>
                        \/ ~Alive(d.srv, d')
                        \/ Silent
                        \/ \E k \in DOMAIN d'.streams : k \in {d.srv.key, Reverse(d.srv.key)}
                                                       /\ d'.streams[k].closed = now'
           Marked == \A k \in Keys :
                        (/\ Same(k) /\ d.streams[k].dir # Hunting
                         /\ d'.locks = d.locks
                         /\ d.srv # Nil => Alive(d.srv, d') /\ ~Silent)
                        => d'.streams[k].dir = d.streams[k].dir
<1>1. LInv /\ [Next]_vars => Cause
  <2> SUFFICES ASSUME LInv, [Next]_vars PROVE Cause OBVIOUS
  <2>1. LockKept(d, d', now') BY NextEnds DEF Ended
  <2> QED BY <2>1 DEF LockKept, Excused, Silent
<1>2. LInv /\ [Next]_vars => Marked
  <2> SUFFICES ASSUME LInv, [Next]_vars PROVE Marked OBVIOUS
  <2>1. DirsKept(d, d', now') BY NextEnds DEF Ended
  <2> QED BY <2>1 DEF DirsKept, Excused, Silent, Same
<1> HIDE DEF Cause, Marked
<1>3. LInv /\ [Next]_vars => [Cause]_vars /\ [Marked]_vars BY <1>1, <1>2
<1>4. Spec => [][Cause]_vars /\ [][Marked]_vars BY <1>3, AptHolds, PTL DEF Spec
<1> QED BY <1>4 DEF OnlyACauseEndsIt, LockEndsForCause, DirectionHolds, Cause, Marked
=============================================================================
