---------------------------- MODULE CaptureProofs ----------------------------
(***************************************************************************)
(* The live captures of Windows.                                           *)
(*                                                                         *)
(* First one capture, for every capacity of its queue, any number of       *)
(* packets and of lost events, with and without a recording: the types,    *)
(* who breaks a trace, what a Close leaves, what is reported lost, and     *)
(* where each packet goes.  The inductive invariant is a conjunction of    *)
(* parts, each with a lemma that every step keeps it; the parts it needs   *)
(* besides itself are in the lemma's ASSUME.                               *)
(*                                                                         *)
(* Then the sessions of a machine, for any processes, process numbers and  *)
(* foreign sessions: what a capture stops is of the dead, what was killed  *)
(* before it began is stopped, and pktmon is stopped by who started it.    *)
(* The argument rests on names: no two processes are created at the same   *)
(* time, so a name with a number is one capture's for good, and a name     *)
(* whose capture is dead is never given to a session again.                *)
(***************************************************************************)
EXTENDS LiveCapture, Sessions, SequenceTheorems, TLAPS
LOCAL INSTANCE SequencesExt

\* OpenLive registers what it begins in this order.
StageAt(i) == IF i = 1 THEN "etw" ELSE IF i = 2 THEN "log" ELSE "pktmon"
Staged(s) == /\ s \in Seq({"etw", "log", "pktmon"})
             /\ Len(s) <= 3
             /\ \A i \in 1 .. Len(s) : s[i] = StageAt(i)

\* The types, beyond TypeOK's.
Types ==
    /\ Places
    /\ packets \in Seq(Nat) /\ Len(packets) <= QueueCap
    /\ seen \in Nat /\ dropped \in Nat /\ late \in Nat /\ lostEvents \in Nat
    /\ Staged(closers) /\ Staged(todo)
    /\ once = "consumer" => Len(todo) = 1

\* Where undoing stands, of what was begun.
Place(what) == IF what = "session" THEN 1 ELSE IF what = "log" THEN 2 ELSE 3
Covered(n) == {what \in {"session", "log", "pktmon"} : Place(what) <= n}

\* Nobody closes before OpenLive and Capture are through.
Unclosed == once = "no" /\ reader = "reading" /\ \A c \in Callers : calls[c] = "idle"

\* How far OpenLive came, what stands and what it registered.
Opened ==
    /\ opening \in {"stale", "name"} => Len(closers) = 0
    /\ opening \in {"enable", "start", "mkdir"} => Len(closers) = 1
    /\ opening = "pktmon" => Len(closers) = 2
    /\ opening \in {"stale", "name", "enable"} => standing = {} /\ trace = "nil"
    /\ opening = "start" => trace = "nil" /\ started = TRUE
    /\ trace # "nil" => started = TRUE /\ Len(closers) >= 1
    /\ "session" \in standing => started = TRUE
    /\ opening \notin {"failing", "open"} => Unclosed

\* What stands is registered to be undone, and later still to be undone or reported.
Undone ==
    /\ once = "no" => standing \subseteq Covered(Len(closers))
    /\ once = "no" /\ opening = "pktmon" => "log" \in standing
    /\ once = "undoing" => standing \subseteq closeErr \cup Covered(Len(todo))
    /\ once = "consumer" => standing \subseteq closeErr
    /\ once = "done" => standing \subseteq closeErr
    /\ LogOutlivesPktmon

\* While the capture goes on, only an outsider can have stopped the session.
Broken ==
    /\ once # "no" => cause # None
    /\ cause = None /\ started = TRUE => outside = TRUE \/ "session" \in standing
    /\ cause = None /\ trace = "ended" => outside = TRUE
    /\ cause \in {"trace", "stopped"} => outside = TRUE

\* The callback runs only while the trace does, and that has ended when Close looks at the counters.
Final ==
    /\ callback # "idle" => trace = "running"
    /\ trace = "nil" => lostEvents = 0
    /\ once \in {"undoing", "done"} /\ trace = "running" => Len(todo) >= 1
    /\ once = "done" => Len(todo) = 0
    /\ LostIsFinal

\* After the end at most the packet that the callback was at is queued.
Late ==
    /\ late \in {0, 1}
    /\ late = 1 => cause # None /\ callback # "queueing"

\* The packets are numbered as they come, so the last is the largest.
Accounted ==
    /\ read \in Seq(Nat)
    /\ EveryPacketAccounted
    /\ \A i \in DOMAIN Kept : Kept[i] <= seen /\ (callback = "queueing" => Kept[i] < seen)

IInv == Flags /\ Types /\ Opened /\ Undone /\ Broken /\ Final /\ Late /\ Accounted

-----------------------------------------------------------------------------
\* Types.

\* Nothing begun is a stage.
LEMMA EmptyStaged == Staged(<<>>)
BY DEF Staged, StageAt

\* What is undone last first stays in order, and its length says what goes next.
LEMMA FrontStaged ==
    ASSUME NEW s, Staged(s), s # <<>> 
    PROVE  /\ Staged(Front(s)) /\ Len(Front(s)) = Len(s) - 1 /\ Len(s) \in 1 .. 3
           /\ Last(s) = StageAt(Len(s))
<1>1. Len(s) \in 1 .. 3
  <2>1. Len(s) \in Nat \ {0}
    BY EmptySeq DEF Staged
  <2>2. Len(s) <= 3
    BY DEF Staged
  <2>3. \A n \in Nat \ {0} : n <= 3 => n \in 1 .. 3
    OBVIOUS
  <2> QED BY <2>1, <2>2, <2>3, Zenon
<1>2. /\ Front(s) \in Seq({"etw", "log", "pktmon"}) /\ Len(Front(s)) = Len(s) - 1
      /\ \A i \in 1 .. Len(s) - 1 : Front(s)[i] = s[i]
  BY <1>1, SubSeqProperties DEF Front, Staged
<1> QED BY <1>1, <1>2 DEF Staged, Last

\* What is begun in order is registered in order.
LEMMA AppendStaged == 
    ASSUME NEW s, Staged(s), Len(s) < 3, NEW what, what = StageAt(Len(s) + 1)
    PROVE  Staged(Append(s, what)) /\ Len(Append(s, what)) = Len(s) + 1
BY DEF Staged, StageAt


\* Every step leaves the flags Boolean.
LEMMA StepFlags == ASSUME Flags, [Next]_vars PROVE Flags'
<1> USE DEF Flags, opener, etw, queue, flushes, closing, reading
<1>1. CASE StopStale \/ OwnSessionName \/ EnableProvider \/ StartTrace
  BY <1>1, Zenon DEF StopStale, OwnSessionName, EnableProvider, StartTrace
<1>2. CASE MakeLog \/ StartPktmon \/ Record
  BY <1>2, Zenon DEF MakeLog, StartPktmon, Record, Begin
<1>3. CASE Event \/ FailEvent \/ Queue \/ LoseEvents
  BY <1>3, Zenon DEF Event, FailEvent, Queue, LoseEvents
<1>4. CASE TraceEnds \/ OutsiderStops
  BY <1>4, Zenon DEF TraceEnds, OutsiderStops
<1>5. CASE Watch \/ Tick \/ FlusherEnds
  BY <1>5, Zenon DEF Watch, Tick, FlusherEnds
<1>6. CASE Flush
  <2>1. (cause = None) \in BOOLEAN
    OBVIOUS
  <2> QED BY <1>6, <2>1, Zenon DEF Flush
<1>7. CASE ReadSegment \/ ReadEnd \/ StopReading
  BY <1>7, Zenon DEF ReadSegment, ReadEnd, StopReading
<1>8. CASE \E c \in Callers : CallClose(c) \/ CloseReturns(c)
  BY <1>8, Zenon DEF CallClose, CloseReturns
<1>9. CASE BeginClose \/ Undo \/ ConsumerStops \/ Degraded
  BY <1>9, Zenon DEF BeginClose, Undo, ConsumerStops, Degraded
<1>10. CASE UNCHANGED vars
  BY <1>10, Zenon DEF vars
<1> QED BY <1>1, <1>2, <1>3, <1>4, <1>5, <1>6, <1>7, <1>8, <1>9, <1>10 DEF Next, Open

\* OpenLive and Capture keep every type.
LEMMA OpenTypes == ASSUME Types, Opened, Open PROVE Types'
<1> USE DEF Types, Places, opener, etw, queue, flushes, closing, reading, Fail
<1>1. CASE StopStale
  BY <1>1 DEF StopStale
<1>2. CASE OwnSessionName
  <2>1. Staged(<<"etw">>)
    BY DEF Staged, StageAt
  <2> QED BY <1>2, <2>1 DEF OwnSessionName
<1>3. CASE EnableProvider
  <2>1. /\ opening' \in {"start", "failing"}
        /\ standing' \in {standing, standing \cup {"session"}}
        /\ UNCHANGED <<closers, trace, lostEvents, queue, flusher, closing, reading, cause, watcher>>
    BY <1>3, Zenon DEF EnableProvider
  <2> QED BY <2>1
<1>4. CASE StartTrace
  BY <1>4 DEF StartTrace
<1>5. CASE MakeLog
  <2>1. /\ opening = "mkdir"
        /\ opening' \in {"pktmon", "failing"}
        /\ standing' \in {standing, standing \cup {"log"}}
        /\ closers' \in {closers, Append(closers, "log")}
        /\ UNCHANGED <<trace, lostEvents, queue, flusher, closing, reading, cause, watcher>>
    BY <1>5, Zenon DEF MakeLog, Begin
  <2>2. Staged(closers')
    <3>1. Len(closers) = 1 /\ Staged(closers)
      BY <2>1 DEF Opened
    <3>2. Len(closers) < 3 /\ "log" = StageAt(Len(closers) + 1)
      BY <3>1 DEF StageAt
    <3>3. Staged(Append(closers, "log"))
      BY <3>1, <3>2, AppendStaged
    <3> QED BY <2>1, <3>1, <3>3, Zenon
  <2> QED BY <2>1, <2>2
<1>6. CASE StartPktmon
  <2>1. /\ opening = "pktmon"
        /\ opening' \in {"record", "open", "failing"}
        /\ standing' \in {standing, standing \cup {"pktmon"}}
        /\ closers' \in {closers, Append(closers, "pktmon")}
        /\ UNCHANGED <<trace, lostEvents, queue, flusher, closing, reading, cause, watcher>>
    BY <1>6, Zenon DEF StartPktmon, Begin
  <2>2. Staged(closers')
    <3>1. Len(closers) = 2 /\ Staged(closers)
      BY <2>1 DEF Opened
    <3>2. Len(closers) < 3 /\ "pktmon" = StageAt(Len(closers) + 1)
      BY <3>1 DEF StageAt
    <3>3. Staged(Append(closers, "pktmon"))
      BY <3>1, <3>2, AppendStaged
    <3> QED BY <2>1, <3>1, <3>3, Zenon
  <2> QED BY <2>1, <2>2
<1>7. CASE Record
  BY <1>7 DEF Record
<1> QED BY <1>1, <1>2, <1>3, <1>4, <1>5, <1>6, <1>7 DEF Open

\* Every step keeps every type, and the queue within its capacity.
LEMMA StepTypes == ASSUME Types, Opened, LiveAssumption, [Next]_vars PROVE Types'
<1> USE DEF Types, Places, opener, etw, queue, flushes, closing, reading
<1>1. CASE Open
  BY <1>1, OpenTypes
<1>2. CASE Event
  BY <1>2 DEF Event
<1>3. CASE FailEvent
  BY <1>3 DEF FailEvent, End, None
<1>4. CASE Queue
  <2>1. late' \in Nat
    BY <1>4 DEF Queue
  <2>2. CASE Len(packets) < QueueCap
    <3>1. packets' = Append(packets, seen) /\ UNCHANGED dropped
      BY <1>4, <2>2 DEF Queue
    <3>2. packets' \in Seq(Nat) /\ Len(packets') = Len(packets) + 1
      BY <3>1
    <3> QED BY <1>4, <2>1, <2>2, <3>1, <3>2 DEF Queue, LiveAssumption
  <2>3. CASE ~(Len(packets) < QueueCap)
    BY <1>4, <2>1, <2>3 DEF Queue, LiveAssumption
  <2> QED BY <2>2, <2>3
<1>5. CASE LoseEvents
  BY <1>5 DEF LoseEvents
<1>6. CASE TraceEnds
  BY <1>6 DEF TraceEnds
<1>7. CASE OutsiderStops
  BY <1>7 DEF OutsiderStops
<1>8. CASE Watch
  BY <1>8 DEF Watch, End, None
<1>9. CASE Tick \/ FlusherEnds
  <2>1. CASE Tick
    BY <2>1 DEF Tick
  <2>2. CASE FlusherEnds
    BY <2>2 DEF FlusherEnds
  <2> QED BY <1>9, <2>1, <2>2
<1>10. CASE Flush
  BY <1>10 DEF Flush, None
<1>11. CASE ReadSegment
  BY <1>11, HeadTailProperties DEF ReadSegment
<1>12. CASE ReadEnd \/ StopReading
  <2>1. CASE ReadEnd
    BY <2>1 DEF ReadEnd
  <2>2. CASE StopReading
    BY <2>2 DEF StopReading
  <2> QED BY <1>12, <2>1, <2>2
<1>13. CASE \E c \in Callers : CallClose(c) \/ CloseReturns(c)
  <2>1. PICK c \in Callers : CallClose(c) \/ CloseReturns(c)
    BY <1>13
  <2>2. CASE CallClose(c)
    BY <2>2 DEF CallClose
  <2>3. CASE CloseReturns(c)
    BY <2>3 DEF CloseReturns
  <2> QED BY <2>1, <2>2, <2>3
<1>14. CASE BeginClose
  BY <1>14 DEF BeginClose, End, None
<1>15. CASE Undo
  <2>1. standing' \subseteq standing /\ closeErr' \subseteq closeErr \cup {"session", "log", "pktmon"}
    BY <1>15, FrontStaged DEF Undo, Stop, StopSession, StageAt
  <2>2. /\ todo # <<>>
        /\ \/ once' = "consumer" /\ Last(todo) = "etw" /\ todo' = todo
           \/ once' = once /\ todo' = Front(todo)
        /\ UNCHANGED <<calls, opener, started, trace, lostEvents, queue, flushes, reading, cause, watcher>>
    BY <1>15, Zenon DEF Undo
  <2>3. Staged(todo) /\ Staged(Front(todo)) /\ Len(todo) \in 1 .. 3 /\ Last(todo) = StageAt(Len(todo))
    BY <2>2, FrontStaged
  <2>4. once' = "consumer" => Len(todo') = 1
    BY <1>15, <2>2, <2>3 DEF StageAt, Undo
  <2>5. once' \in {"undoing", "consumer"} /\ Staged(todo')
    BY <1>15, <2>2, <2>3 DEF Undo
  <2> QED BY <2>1, <2>2, <2>4, <2>5
<1>16. CASE ConsumerStops
  <2>1. /\ once' = "undoing" /\ todo' = Front(todo)
        /\ closeErr' \in {closeErr, closeErr \cup {"trace"}}
        /\ UNCHANGED <<calls, opener, etw, queue, flushes, reading, cause, watcher, outside>>
    BY <1>16, Zenon DEF ConsumerStops
  <2>2. todo # <<>>
    <3>1. Len(todo) # 0
      <4>1. once = "consumer"
        BY <1>16, Zenon DEF ConsumerStops
      <4>2. Len(todo) = 1
        BY <4>1
      <4> QED BY <4>2
    <3>2. Len(<<>>) = 0
      BY EmptySeq, Zenon
    <3> QED BY <3>1, <3>2, Zenon
  <2> QED BY <2>1, <2>2, FrontStaged
<1>17. CASE Degraded
  BY <1>17 DEF Degraded
<1>18. CASE UNCHANGED vars
  BY <1>18 DEF vars
<1> QED BY <1>1, <1>2, <1>3, <1>4, <1>5, <1>6, <1>7, <1>8, <1>9,
       <1>10, <1>11, <1>12, <1>13, <1>14, <1>15, <1>16, <1>17, <1>18 DEF Next

-----------------------------------------------------------------------------
\* The parts.

\* Once the capture has ended, the callback can only finish the packet it is at.
LEMMA StepLate == ASSUME Late, Types, [Next]_vars PROVE Late'
<1> USE DEF Late, opener, etw, queue, flushes, closing, reading
<1>1. CASE Event
  BY <1>1 DEF Event
<1>2. CASE Queue
  <2>1. cause' = cause /\ callback' = "idle" /\ callback = "queueing"
        /\ late' = IF cause = None THEN late ELSE late + 1
    BY <1>2 DEF Queue
  <2> QED BY <2>1
<1>3. CASE FailEvent
  <2>1. cause # None => cause' # None
    BY <1>3 DEF FailEvent, End
  <2> QED BY <1>3, <2>1 DEF FailEvent
<1>4. CASE Watch
  <2>1. cause # None => cause' # None
    BY <1>4 DEF Watch, End
  <2> QED BY <1>4, <2>1 DEF Watch
<1>5. CASE BeginClose
  <2>1. cause # None => cause' # None
    BY <1>5 DEF BeginClose, End
  <2> QED BY <1>5, <2>1 DEF BeginClose
<1>6. CASE UNCHANGED <<late, cause, callback>>
  BY <1>6
<1>7. ASSUME Next \/ UNCHANGED vars, ~Event, ~Queue, ~FailEvent, ~Watch, ~BeginClose
      PROVE  UNCHANGED <<late, cause, callback>>
  <2>1. Open => UNCHANGED <<late, cause, callback>>
    BY DEF Open, StopStale, OwnSessionName, EnableProvider, StartTrace, MakeLog, StartPktmon, Record, Begin
  <2>2. LoseEvents \/ TraceEnds \/ OutsiderStops \/ Tick \/ Flush \/ FlusherEnds 
        => UNCHANGED <<late, cause, callback>>
    BY DEF LoseEvents, TraceEnds, OutsiderStops, Tick, Flush, FlusherEnds
  <2>3. ReadSegment \/ ReadEnd \/ StopReading => UNCHANGED <<late, cause, callback>>
    BY DEF ReadSegment, ReadEnd, StopReading
  <2>4. (\E c \in Callers : CallClose(c) \/ CloseReturns(c)) => UNCHANGED <<late, cause, callback>>
    BY DEF CallClose, CloseReturns
  <2>5. Undo \/ ConsumerStops \/ Degraded => UNCHANGED <<late, cause, callback>>
    BY DEF Undo, ConsumerStops, Degraded
  <2> QED BY <1>7, <2>1, <2>2, <2>3, <2>4, <2>5, Zenon DEF Next, vars
<1> QED BY <1>1, <1>2, <1>3, <1>4, <1>5, <1>6, <1>7

\* Every step keeps in agreement how far OpenLive came and what it registered.
LEMMA StepOpened == ASSUME Opened, Types, [Next]_vars PROVE Opened'
<1> USE DEF opener, etw, queue, flushes, closing, reading, Fail
<1>1. CASE StopStale
  BY <1>1 DEF StopStale, Opened, Unclosed
<1>2. CASE OwnSessionName
  <2>1. Len(<<"etw">>) = 1
    OBVIOUS
  <2> QED BY <1>2, <2>1 DEF OwnSessionName, Opened, Unclosed
<1>3. CASE EnableProvider
  BY <1>3 DEF EnableProvider, Opened, Unclosed
<1>4. CASE StartTrace
  BY <1>4 DEF StartTrace, Opened, Unclosed
<1>5. CASE MakeLog
  <2>1. Len(Append(closers, "log")) = Len(closers) + 1
    BY DEF Types, Staged
  <2>2. /\ opening = "mkdir"
        /\ \/ opening' = "pktmon" /\ closers' = Append(closers, "log")
           \/ opening' = "failing" /\ closers' = closers
        /\ standing' \in {standing, standing \cup {"log"}}
        /\ UNCHANGED <<started, trace, once, calls, reader>>
    BY <1>5, Zenon DEF MakeLog, Begin
  <2>3. Len(closers) = 1 /\ Unclosed /\ Unclosed'
    BY <2>2 DEF Opened, Unclosed
  <2>4. Len(closers') \in {1, 2} /\ (opening' = "pktmon" => Len(closers') = 2)
    <3>1. CASE opening' = "pktmon" /\ closers' = Append(closers, "log")
      <4>1. Len(closers') = Len(closers) + 1
        BY <2>1, <3>1, Zenon
      <4>2. Len(closers') = 2
        BY <2>3, <4>1
      <4> QED BY <4>2
    <3>2. CASE opening' = "failing" /\ closers' = closers
      <4>1. Len(closers') = 1 /\ opening' # "pktmon"
        BY <2>3, <3>2
      <4> QED BY <4>1
    <3> QED BY <2>2, <3>1, <3>2, Zenon
  <2>5. "session" \in standing' => "session" \in standing
    BY <2>2
  <2> QED BY <2>2, <2>3, <2>4, <2>5 DEF Opened
<1>6. CASE StartPktmon
  <2>1. Len(Append(closers, "pktmon")) = Len(closers) + 1
    BY DEF Types, Staged
  <2> QED BY <1>6, <2>1 DEF StartPktmon, Begin, Opened, Unclosed
<1>7. CASE Record
  BY <1>7 DEF Record, Opened, Unclosed
<1>8. CASE Event \/ FailEvent \/ Queue \/ Watch \/ LoseEvents
  BY <1>8 DEF Event, FailEvent, Queue, Watch, LoseEvents, Opened, Unclosed
<1>9. CASE TraceEnds
  BY <1>9 DEF TraceEnds, Opened, Unclosed
<1>10. CASE OutsiderStops
  BY <1>10 DEF OutsiderStops, Opened, Unclosed
<1>11. CASE Tick \/ Flush \/ FlusherEnds
  BY <1>11 DEF Tick, Flush, FlusherEnds, Opened, Unclosed
<1>12. CASE ReadSegment \/ ReadEnd \/ StopReading
  BY <1>12 DEF ReadSegment, ReadEnd, StopReading, Opened, Unclosed
<1>13. CASE \E c \in Callers : CallClose(c) \/ CloseReturns(c)
  <2>1. PICK c \in Callers : CallClose(c) \/ CloseReturns(c)
    BY <1>13
  <2>2. opening \in {"failing", "open"}
    BY <2>1 DEF CallClose, CloseReturns, MayClose, Opened, Unclosed, Callers
  <2> QED BY <2>1, <2>2 DEF CallClose, CloseReturns, Opened
<1>14. CASE BeginClose
  BY <1>14 DEF BeginClose, Opened, Unclosed
<1>15. CASE Undo \/ ConsumerStops \/ Degraded
  <2>1. once # "no" /\ standing' \subseteq standing /\ UNCHANGED <<opener, started, trace, calls, reader>>
    BY <1>15 DEF Undo, ConsumerStops, Degraded, Stop, StopSession
  <2>2. opening \in {"failing", "open"}
    BY <2>1 DEF Opened, Unclosed
  <2> QED BY <2>1, <2>2 DEF Opened
<1>16. CASE UNCHANGED vars
  BY <1>16 DEF vars, Opened, Unclosed
<1> QED BY <1>1, <1>2, <1>3, <1>4, <1>5, <1>6, <1>7, <1>8, <1>9,
       <1>10, <1>11, <1>12, <1>13, <1>14, <1>15, <1>16 DEF Next, Open

\* Every step keeps: the session is gone, while the capture goes on, only by an outsider.
LEMMA StepBroken == ASSUME Broken, Opened, Types, [Next]_vars PROVE Broken'
<1> USE DEF Broken, opener, etw, queue, flushes, closing, reading
<1>1. CASE StopStale \/ OwnSessionName \/ Record
  BY <1>1 DEF StopStale, OwnSessionName, Record
<1>2. CASE EnableProvider
  BY <1>2 DEF EnableProvider
<1>3. CASE StartTrace
  BY <1>3 DEF StartTrace
<1>4. CASE MakeLog \/ StartPktmon
  <2>1. standing \subseteq standing' /\ UNCHANGED <<once, cause, started, trace, outside>>
    BY <1>4 DEF MakeLog, StartPktmon, Begin
  <2> QED BY <2>1
<1>5. CASE Event \/ Queue \/ LoseEvents
  BY <1>5 DEF Event, Queue, LoseEvents
<1>6. CASE FailEvent
  <2>1. cause' = IF cause = None THEN "event" ELSE cause
    BY <1>6 DEF FailEvent, End
  <2> QED BY <1>6, <2>1 DEF FailEvent, None
<1>7. CASE TraceEnds
  BY <1>7 DEF TraceEnds, Opened
<1>8. CASE OutsiderStops
  BY <1>8 DEF OutsiderStops
<1>9. CASE Watch
  <2>1. cause = None => outside = TRUE
    BY <1>9 DEF Watch
  <2>2. cause # None => cause' = cause
    BY <1>9 DEF Watch, End
  <2>3. cause' # None
    BY <1>9 DEF Watch, End, None
  <2> QED BY <1>9, <2>1, <2>2, <2>3 DEF Watch
<1>10. CASE Tick \/ Flush \/ FlusherEnds
  BY <1>10 DEF Tick, Flush, FlusherEnds
<1>11. CASE ReadSegment \/ ReadEnd \/ StopReading
  BY <1>11 DEF ReadSegment, ReadEnd, StopReading
<1>12. CASE \E c \in Callers : CallClose(c) \/ CloseReturns(c)
  BY <1>12 DEF CallClose, CloseReturns
<1>13. CASE BeginClose
  <2>1. cause' = IF cause = None THEN "EOF" ELSE cause
    BY <1>13 DEF BeginClose, End
  <2> QED BY <1>13, <2>1 DEF BeginClose, None
<1>14. CASE Undo \/ ConsumerStops \/ Degraded
  <2>1. once # "no" /\ UNCHANGED <<cause, started, trace, outside>>
    BY <1>14 DEF Undo, ConsumerStops, Degraded
  <2> QED BY <2>1
<1>15. CASE UNCHANGED vars
  BY <1>15 DEF vars
<1> QED BY <1>1, <1>2, <1>3, <1>4, <1>5, <1>6, <1>7, <1>8, <1>9,
       <1>10, <1>11, <1>12, <1>13, <1>14, <1>15 DEF Next, Open

\* Every step keeps: what stands is registered, or still to be undone, or reported.
LEMMA StepUndone == ASSUME Undone, Opened, Types, [Next]_vars PROVE Undone'
<1> USE DEF opener, etw, queue, flushes, closing, reading, Fail
<1>1. CASE StopStale
  BY <1>1 DEF StopStale, Undone, LogOutlivesPktmon
<1>2. CASE OwnSessionName
  BY <1>2 DEF OwnSessionName, Undone, LogOutlivesPktmon, Opened, Unclosed
<1>3. CASE EnableProvider
  BY <1>3 DEF EnableProvider, Undone, LogOutlivesPktmon, Opened, Unclosed, Covered, Place
<1>4. CASE StartTrace
  BY <1>4 DEF StartTrace, Undone, LogOutlivesPktmon
<1>5. CASE MakeLog
  <2>1. Len(Append(closers, "log")) = Len(closers) + 1
    BY DEF Types, Staged
  <2>2. /\ opening = "mkdir"
        /\ \/ opening' = "pktmon" /\ closers' = Append(closers, "log") /\ standing' = standing \cup {"log"}
           \/ opening' = "failing" /\ UNCHANGED <<standing, closers>>
        /\ UNCHANGED <<once, todo, closeErr>>
    BY <1>5, Zenon DEF MakeLog, Begin
  <2>3. once = "no" /\ Len(closers) = 1
    BY <2>2 DEF Opened, Unclosed
  <2> QED BY <2>1, <2>2, <2>3 DEF Undone, LogOutlivesPktmon, Covered, Place
<1>6. CASE StartPktmon
  <2>1. Len(Append(closers, "pktmon")) = Len(closers) + 1
    BY DEF Types, Staged
  <2>2. /\ opening = "pktmon" /\ opening' # "pktmon"
        /\ \/ closers' = Append(closers, "pktmon") /\ standing' = standing \cup {"pktmon"}
           \/ UNCHANGED <<standing, closers>>
        /\ UNCHANGED <<once, todo, closeErr>>
    BY <1>6 DEF StartPktmon, Begin
  <2>3. once = "no" /\ Len(closers) = 2
    BY <2>2 DEF Opened, Unclosed
  <2> QED BY <2>1, <2>2, <2>3 DEF Undone, LogOutlivesPktmon, Covered, Place
<1>7. CASE Record
  BY <1>7 DEF Record, Undone, LogOutlivesPktmon
<1>8. CASE Event \/ FailEvent \/ Queue \/ LoseEvents \/ TraceEnds \/ Watch
  BY <1>8 DEF Event, FailEvent, Queue, LoseEvents, TraceEnds, Watch, Undone, LogOutlivesPktmon
<1>9. CASE OutsiderStops
  BY <1>9 DEF OutsiderStops, Undone, LogOutlivesPktmon
<1>10. CASE Tick \/ Flush \/ FlusherEnds
  BY <1>10 DEF Tick, Flush, FlusherEnds, Undone, LogOutlivesPktmon
<1>11. CASE ReadSegment \/ ReadEnd \/ StopReading
  BY <1>11 DEF ReadSegment, ReadEnd, StopReading, Undone, LogOutlivesPktmon
<1>12. CASE \E c \in Callers : CallClose(c) \/ CloseReturns(c)
  BY <1>12 DEF CallClose, CloseReturns, Undone, LogOutlivesPktmon
<1>13. CASE BeginClose
  BY <1>13 DEF BeginClose, Undone, LogOutlivesPktmon
<1>14. CASE Undo
  <2>1. /\ once = "undoing" /\ todo # <<>>
        /\ \/ once' = "consumer" /\ Last(todo) = "etw" /\ todo' = todo
           \/ once' = once /\ todo' = Front(todo)
        /\ UNCHANGED <<opening, closers>>
    BY <1>14, Zenon DEF Undo
  <2>2. Len(todo) \in 1 .. 3 /\ Last(todo) = StageAt(Len(todo)) /\ Len(Front(todo)) = Len(todo) - 1
    BY <2>1, FrontStaged DEF Types
  <2>3. standing' \subseteq standing /\ closeErr \subseteq closeErr'
    BY <1>14 DEF Undo, Stop, StopSession
  <2>4. \A what \in standing' : Place(what) = Len(todo) => what \in closeErr'
    <3>1. CASE Last(todo) = "etw"
      BY <1>14, <2>2, <2>3, <3>1 DEF Undo, StopSession, Stop, StageAt, Place, Opened, Types, Places
    <3>2. CASE Last(todo) # "etw"
      <4>1. Stop(Last(todo))
        BY <1>14, <3>2 DEF Undo
      <4>2. \A what \in {"session", "log", "pktmon"} : Place(what) = Len(todo) => what = Last(todo)
        BY <2>2, <3>2 DEF Place, StageAt
      <4>3. standing \subseteq {"session", "log", "pktmon"}
        BY DEF Types, Places
      <4> QED BY <2>3, <4>1, <4>2, <4>3 DEF Stop
    <3> QED BY <3>1, <3>2
  <2>5. standing' \subseteq closeErr' \cup Covered(Len(todo) - 1)
    BY <2>1, <2>2, <2>3, <2>4 DEF Undone, Covered, Place
  <2>6. "pktmon" \in standing' => "log" \in standing' \/ "pktmon" \in closeErr'
    <3>1. CASE Len(todo) = 3
      <4>1. Last(todo) = "pktmon"
        BY <2>2, <3>1 DEF StageAt
      <4>2. "log" \in standing => "log" \in standing'
        BY <1>14, <4>1 DEF Undo, Stop
      <4> QED BY <2>3, <4>2 DEF Undone, LogOutlivesPktmon
    <3>2. CASE Len(todo) # 3
      BY <2>1, <2>2, <2>3, <3>2 DEF Undone, Covered, Place
    <3> QED BY <3>1, <3>2
  <2>7. once' = "consumer" => Len(todo) = 1
    BY <2>1, <2>2 DEF StageAt
  <2> QED BY <2>1, <2>2, <2>5, <2>6, <2>7 DEF Undone, LogOutlivesPktmon, Covered, Place
<1>15. CASE ConsumerStops
  <2>1. /\ once = "consumer" /\ once' = "undoing" /\ closeErr \subseteq closeErr'
        /\ UNCHANGED <<standing, opening, closers>>
    BY <1>15 DEF ConsumerStops
  <2> QED BY <2>1 DEF Undone, LogOutlivesPktmon
<1>16. CASE Degraded
  <2>1. Len(todo) = 0
    BY <1>16, EmptySeq DEF Degraded
  <2> QED BY <1>16, <2>1 DEF Degraded, Undone, LogOutlivesPktmon, Covered, Place
<1>17. CASE UNCHANGED vars
  BY <1>17 DEF vars, Undone, LogOutlivesPktmon
<1> QED BY <1>1, <1>2, <1>3, <1>4, <1>5, <1>6, <1>7, <1>8, <1>9,
       <1>10, <1>11, <1>12, <1>13, <1>14, <1>15, <1>16, <1>17 DEF Next, Open

\* Every step keeps: the callback is over when the consumer has been stopped.
LEMMA StepFinal == ASSUME Final, Opened, Types, [Next]_vars PROVE Final'
<1> USE DEF opener, etw, queue, flushes, closing, reading, Fail
<1>1. CASE Open
  <2>1. once = "no" /\ once' = "no" /\ UNCHANGED <<callback, lostEvents>> /\ (trace' = "nil" => trace = "nil")
    BY <1>1 DEF Open, StopStale, OwnSessionName, EnableProvider, StartTrace, MakeLog, StartPktmon, Record,
                Begin, Opened, Unclosed
  <2>2. callback # "idle" => trace' = "running"
    BY <1>1 DEF Open, StopStale, OwnSessionName, EnableProvider, StartTrace, MakeLog, StartPktmon, Record,
                Begin, Opened, Final
  <2> QED BY <2>1, <2>2 DEF Final, LostIsFinal
<1>2. CASE Event
  BY <1>2 DEF Event, Final, LostIsFinal
<1>3. CASE Queue
  <2>1. trace = "running" /\ once # "done"
    BY <1>3 DEF Queue, Final
  <2> QED BY <1>3, <2>1 DEF Queue, Final, LostIsFinal
<1>4. CASE FailEvent \/ Watch
  BY <1>4 DEF FailEvent, Watch, Final, LostIsFinal
<1>5. CASE LoseEvents
  <2>1. trace = "running" /\ once # "done"
    BY <1>5 DEF LoseEvents, Final
  <2> QED BY <1>5, <2>1 DEF LoseEvents, Final, LostIsFinal
<1>6. CASE TraceEnds
  BY <1>6 DEF TraceEnds, Final, LostIsFinal
<1>7. CASE OutsiderStops
  BY <1>7 DEF OutsiderStops, Final, LostIsFinal
<1>8. CASE Tick \/ Flush \/ FlusherEnds
  BY <1>8 DEF Tick, Flush, FlusherEnds, Final, LostIsFinal
<1>9. CASE ReadSegment \/ ReadEnd \/ StopReading
  BY <1>9 DEF ReadSegment, ReadEnd, StopReading, Final, LostIsFinal
<1>10. CASE \E c \in Callers : CallClose(c) \/ CloseReturns(c)
  BY <1>10 DEF CallClose, CloseReturns, Final, LostIsFinal
<1>11. CASE BeginClose
  BY <1>11 DEF BeginClose, Final, LostIsFinal, Opened
<1>12. CASE Undo
  <2>1. /\ once = "undoing" /\ todo # <<>>
        /\ \/ once' = "consumer"
           \/ once' = once /\ todo' = Front(todo) /\ (Last(todo) # "etw" \/ trace = "nil")
        /\ UNCHANGED <<callback, trace, lostEvents>>
    BY <1>12, Zenon DEF Undo
  <2>2. Len(todo) \in 1 .. 3 /\ Last(todo) = StageAt(Len(todo)) /\ Len(Front(todo)) = Len(todo) - 1
    BY <2>1, FrontStaged DEF Types
  <2> QED BY <2>1, <2>2 DEF Final, LostIsFinal, StageAt
<1>13. CASE ConsumerStops
  BY <1>13 DEF ConsumerStops, Final, LostIsFinal
<1>14. CASE Degraded
  <2>1. Len(todo) = 0
    BY <1>14, EmptySeq DEF Degraded
  <2>2. lost'.dropped = dropped /\ lost'.events = lostEvents
    BY <1>14 DEF Degraded, Final
  <2> QED BY <1>14, <2>1, <2>2 DEF Degraded, Final, LostIsFinal
<1>15. CASE UNCHANGED vars
  BY <1>15 DEF vars, Final, LostIsFinal
<1> QED BY <1>1, <1>2, <1>3, <1>4, <1>5, <1>6, <1>7, <1>8, <1>9,
       <1>10, <1>11, <1>12, <1>13, <1>14, <1>15 DEF Next, Open

\* Reading moves the queue's first packet to the end of those read, and changes nothing else.
LEMMA HeadMoves ==
    ASSUME NEW s \in Seq(Nat), NEW t \in Seq(Nat), t # <<>>
    PROVE  Append(s, Head(t)) \in Seq(Nat) /\ Append(s, Head(t)) \o Tail(t) = s \o t
<1> DEFINE h == Head(t)  u == Tail(t)  a == Append(s, h)
<1>1. /\ h \in Nat /\ u \in Seq(Nat) /\ Len(u) = Len(t) - 1 /\ \A i \in 1 .. Len(u) : u[i] = t[i + 1]
      /\ h = t[1]
  BY HeadTailProperties
<1>2. Len(s) \in Nat /\ Len(t) \in Nat \ {0} /\ Len(u) \in Nat
  BY <1>1, EmptySeq, LenProperties
<1>3. /\ a \in Seq(Nat) /\ Len(a) = Len(s) + 1 /\ a[Len(s) + 1] = h
      /\ \A i \in 1 .. Len(s) : a[i] = s[i]
  BY <1>1, AppendProperties
<1>4. /\ s \o t \in Seq(Nat) /\ Len(s \o t) = Len(s) + Len(t)
      /\ \A i \in 1 .. Len(s) + Len(t) : (s \o t)[i] = IF i <= Len(s) THEN s[i] ELSE t[i - Len(s)]
  BY ConcatProperties
<1>5. /\ a \o u \in Seq(Nat) /\ Len(a \o u) = Len(a) + Len(u)
      /\ \A i \in 1 .. Len(a) + Len(u) : (a \o u)[i] = IF i <= Len(a) THEN a[i] ELSE u[i - Len(a)]
  BY <1>1, <1>3, ConcatProperties
<1> HIDE DEF h, u, a
<1>6. Len(a \o u) = Len(s \o t)
  BY <1>1, <1>2, <1>3, <1>4, <1>5
<1>7. ASSUME NEW i \in 1 .. Len(a \o u) PROVE (a \o u)[i] = (s \o t)[i]
  <2>1. i \in Nat /\ i >= 1 /\ i <= Len(s) + Len(t)
    BY <1>2, <1>4, <1>6
  <2>2. CASE i <= Len(s)
    BY <1>2, <1>3, <1>4, <1>5, <1>6, <2>1, <2>2
  <2>3. CASE i = Len(s) + 1
    BY <1>1, <1>2, <1>3, <1>4, <1>5, <1>6, <2>1, <2>3
  <2>4. CASE i > Len(s) + 1
    <3>1. (a \o u)[i] = u[i - Len(s) - 1] /\ (s \o t)[i] = t[i - Len(s)]
      <4>1. i \in 1 .. Len(s) + Len(t) /\ i \in 1 .. Len(a) + Len(u)
        BY <1>1, <1>2, <1>3, <2>1
      <4>2. ~(i <= Len(s)) /\ ~(i <= Len(a)) /\ i - Len(a) = i - Len(s) - 1
        BY <1>2, <1>3, <2>1, <2>4
      <4>3. (a \o u)[i] = u[i - Len(a)]
        BY <1>5, <4>1, <4>2
      <4>4. (s \o t)[i] = t[i - Len(s)]
        BY <1>4, <4>1, <4>2
      <4> QED BY <4>2, <4>3, <4>4
    <3>2. i - Len(s) - 1 \in 1 .. Len(u)
      BY <1>1, <1>2, <2>1, <2>4
    <3>3. u[i - Len(s) - 1] = t[(i - Len(s) - 1) + 1]
      BY <1>1, <3>2
    <3> QED BY <1>2, <2>1, <3>1, <3>3
  <2>5. i <= Len(s) \/ i = Len(s) + 1 \/ i > Len(s) + 1
    BY <1>2, <2>1
  <2> QED BY <2>2, <2>3, <2>4, <2>5
<1>8. a \o u = s \o t
  BY <1>4, <1>5, <1>6, <1>7, SeqEqual
<1> QED BY <1>3, <1>8 DEF h, u, a

\* Every step keeps the count and the order of the packets that came.
LEMMA StepAccounted == ASSUME Accounted, Types, LiveAssumption, [Next]_vars PROVE Accounted'
<1> USE DEF opener, etw, queue, flushes, closing, reading
<1>0. /\ read \in Seq(Nat) /\ packets \in Seq(Nat) /\ Kept \in Seq(Nat) /\ Len(Kept) \in Nat
      /\ DOMAIN Kept = 1 .. Len(Kept)
  BY ConcatProperties, LenProperties DEF Accounted, Types, Kept
<1>1. CASE Event
  <2>1. callback = "idle" /\ Kept' = Kept /\ UNCHANGED <<read, dropped>>
    BY <1>1 DEF Event, Kept
  <2>2. CASE callback' = "queueing" /\ seen' = seen + 1
    BY <1>0, <2>1, <2>2 DEF Accounted, EveryPacketAccounted, Types
  <2>3. CASE callback' = "failing" /\ seen' = seen
    BY <1>0, <2>1, <2>3 DEF Accounted, EveryPacketAccounted, Types
  <2> QED BY <1>1, <2>2, <2>3 DEF Event
<1>2. CASE FailEvent
  <2>1. callback # "queueing" /\ callback' # "queueing" /\ Kept' = Kept /\ UNCHANGED <<read, dropped, seen>>
    BY <1>2 DEF FailEvent, Kept
  <2> QED BY <1>0, <2>1 DEF Accounted, EveryPacketAccounted
<1>3. CASE Queue
  <2>1. callback = "queueing" /\ callback' = "idle" /\ UNCHANGED <<read, seen>>
    BY <1>3 DEF Queue
  <2>2. CASE packets' = Append(packets, seen) /\ dropped' = dropped
    <3>1. Kept' = Append(Kept, seen)
      <4>1. Kept' = read \o Append(packets, seen)
        BY <2>1, <2>2 DEF Kept
      <4>2. <<seen>> \in Seq(Nat) /\ Append(packets, seen) = packets \o <<seen>>
            /\ Append(Kept, seen) = Kept \o <<seen>>
        <5>1. seen \in Nat /\ packets \in Seq(Nat) /\ Kept \in Seq(Nat)
          BY <1>0 DEF Types
        <5>2. <<seen>> \in Seq(Nat)
          BY <5>1
        <5> QED BY <5>1, <5>2, AppendIsConcat
      <4> QED BY <1>0, <4>1, <4>2, ConcatAssociative DEF Kept
    <3>2. /\ Len(Kept') = Len(Kept) + 1 /\ Kept' \in Seq(Nat)
          /\ \A i \in 1 .. Len(Kept) : Kept'[i] = Kept[i]
          /\ Kept'[Len(Kept) + 1] = seen
          /\ DOMAIN Kept' = 1 .. Len(Kept) + 1
      BY <1>0, <3>1, AppendProperties, LenProperties DEF Types
    <3>3. seen' = Len(Kept') + dropped' + 0
      BY <1>0, <2>1, <2>2, <3>2 DEF Accounted, EveryPacketAccounted, Types
    <3>4. \A i \in 1 .. Len(Kept) : Kept[i] \in Nat /\ Kept[i] < seen
      BY <1>0, <2>1, ElementOfSeq DEF Accounted
    <3>5. \A i, j \in 1 .. Len(Kept) + 1 : i < j => Kept'[i] < Kept'[j]
      <4> SUFFICES ASSUME NEW i \in 1 .. Len(Kept) + 1, NEW j \in 1 .. Len(Kept) + 1, i < j
                   PROVE  Kept'[i] < Kept'[j]
        OBVIOUS
      <4>1. i \in 1 .. Len(Kept) /\ Kept'[i] = Kept[i]
        BY <1>0, <3>2
      <4>2. CASE j \in 1 .. Len(Kept)
        <5>1. Kept'[j] = Kept[j] /\ Kept[i] < Kept[j]
          BY <1>0, <3>2, <4>1, <4>2 DEF Accounted, EveryPacketAccounted
        <5> QED BY <4>1, <5>1
      <4>3. CASE j = Len(Kept) + 1
        <5>1. Kept'[j] = seen /\ Kept[i] < seen
          BY <3>2, <3>4, <4>1, <4>3
        <5> QED BY <4>1, <5>1
      <4>4. j \in 1 .. Len(Kept) \/ j = Len(Kept) + 1
        <5>1. Len(Kept) \in Nat
          BY <1>0
        <5> QED BY <5>1
      <4> QED BY <4>2, <4>3, <4>4
    <3>6. \A i \in 1 .. Len(Kept) + 1 : Kept'[i] <= seen
      <4> SUFFICES ASSUME NEW i \in 1 .. Len(Kept) + 1 PROVE Kept'[i] <= seen
        OBVIOUS
      <4>1. seen \in Nat
        BY DEF Types
      <4>2. CASE i \in 1 .. Len(Kept)
        <5>1. Kept'[i] = Kept[i] /\ Kept[i] \in Nat /\ Kept[i] < seen
          BY <3>2, <3>4, <4>2
        <5> QED BY <4>1, <5>1
      <4>3. CASE i = Len(Kept) + 1
        BY <3>2, <4>1, <4>3
      <4>4. i \in 1 .. Len(Kept) \/ i = Len(Kept) + 1
        <5>1. Len(Kept) \in Nat
          BY <1>0
        <5> QED BY <5>1
      <4> QED BY <4>2, <4>3, <4>4
    <3> QED BY <1>0, <2>1, <3>2, <3>3, <3>5, <3>6 DEF Accounted, EveryPacketAccounted
  <2>3. CASE dropped' = dropped + 1 /\ packets' = packets
    <3>1. Kept' = Kept
      BY <2>1, <2>3 DEF Kept
    <3> QED BY <1>0, <2>1, <2>3, <3>1 DEF Accounted, EveryPacketAccounted, Types
  <2> QED BY <1>3, <2>2, <2>3 DEF Queue
<1>4. CASE ReadSegment
  <2>1. /\ packets # <<>> /\ read' = Append(read, Head(packets)) /\ packets' = Tail(packets)
        /\ UNCHANGED <<callback, dropped, seen>>
    BY <1>4 DEF ReadSegment
  <2>2. read' \in Seq(Nat) /\ Kept' = Kept
    BY <1>0, <2>1, HeadMoves DEF Kept
  <2> QED BY <1>0, <2>1, <2>2 DEF Accounted, EveryPacketAccounted
<1>5. CASE UNCHANGED <<read, packets, callback, dropped, seen>>
  BY <1>5 DEF Accounted, EveryPacketAccounted, Kept
<1>6. ASSUME Next \/ UNCHANGED vars, ~Event, ~FailEvent, ~Queue, ~ReadSegment
      PROVE  UNCHANGED <<read, packets, callback, dropped, seen>>
  <2>1. Open => UNCHANGED <<read, packets, callback, dropped, seen>>
    BY DEF Open, StopStale, OwnSessionName, EnableProvider, StartTrace, MakeLog, StartPktmon, Record, Begin
  <2>2. LoseEvents \/ TraceEnds \/ OutsiderStops \/ Tick \/ Flush \/ FlusherEnds \/ Watch
        => UNCHANGED <<read, packets, callback, dropped, seen>>
    BY DEF LoseEvents, TraceEnds, OutsiderStops, Tick, Flush, FlusherEnds, Watch
  <2>3. ReadEnd \/ StopReading => UNCHANGED <<read, packets, callback, dropped, seen>>
    BY DEF ReadEnd, StopReading
  <2>4. (\E c \in Callers : CallClose(c) \/ CloseReturns(c))
        => UNCHANGED <<read, packets, callback, dropped, seen>>
    BY DEF CallClose, CloseReturns
  <2>5. BeginClose \/ Undo \/ ConsumerStops \/ Degraded => UNCHANGED <<read, packets, callback, dropped, seen>>
    BY DEF BeginClose, Undo, ConsumerStops, Degraded
  <2> QED BY <1>6, <2>1, <2>2, <2>3, <2>4, <2>5, Zenon DEF Next, vars
<1> QED BY <1>1, <1>2, <1>3, <1>4, <1>5, <1>6

-----------------------------------------------------------------------------
\* The invariant and the theorems.

\* Before OpenLive does anything, all of it holds.
LEMMA InitHolds == ASSUME LiveAssumption, Init PROVE IInv
<1>1. Flags
  BY Zenon DEF Init, Flags
<1>2. <<>> \in Seq(Nat) /\ Len(<<>>) = 0 /\ Staged(<<>>)
  BY EmptySeq, EmptyStaged
<1>3. Types
  BY <1>2 DEF Init, Types, Places, LiveAssumption, None
<1>4. Opened /\ Undone
  BY <1>2 DEF Init, Opened, Unclosed, Undone, LogOutlivesPktmon
<1>5. Broken /\ Final /\ Late
  BY <1>2 DEF Init, Broken, Final, LostIsFinal, Late, None
<1>6. Kept = <<>>
  BY ConcatEmptySeq, <1>2 DEF Init, Kept
<1>7. Accounted
  BY <1>2, <1>6 DEF Init, Accounted, EveryPacketAccounted
<1> QED BY <1>1, <1>3, <1>4, <1>5, <1>7 DEF IInv

\* Every step keeps all of it.
LEMMA NextHolds == ASSUME LiveAssumption, IInv, [Next]_vars PROVE IInv'
BY StepFlags, StepTypes, StepOpened, StepUndone, StepBroken, StepFinal, StepLate, StepAccounted DEF IInv

\* It holds in every state: the theorems share it.
LEMMA Holds == Spec => []IInv
BY LiveAssumption, InitHolds, NextHolds, PTL DEF Spec

\* Every variable has its type, and the queue never outgrows its capacity, however the callback and
\* the reader interleave.
THEOREM TypeCorrect == Spec => []TypeOK
<1>1. IInv => TypeOK
  BY DEF IInv, Types, TypeOK
<1> QED BY Holds, <1>1, PTL

\* The reader is told of a broken trace only when something outside stopped the session.
THEOREM OnlyOutsidersBreakIt == Spec => []OnlyOutsidersBreak
<1>1. IInv => OnlyOutsidersBreak
  BY DEF IInv, Broken, OnlyOutsidersBreak
<1> QED BY Holds, <1>1, PTL

\* When Close has returned, what OpenLive began is undone or reported, wherever it failed.
THEOREM WhatBeganIsUndone == Spec => []UndoneOrReported
<1>1. IInv => UndoneOrReported
  BY DEF IInv, Undone, UndoneOrReported
<1> QED BY Holds, <1>1, PTL

\* pktmon's log is there as long as pktmon runs.
THEOREM LogIsRemovedLast == Spec => []LogOutlivesPktmon
<1>1. IInv => LogOutlivesPktmon
  BY DEF IInv, Undone
<1> QED BY Holds, <1>1, PTL

\* What Close found lost is all there is.
THEOREM LossesAreFinal == Spec => []LostIsFinal
<1>1. IInv => LostIsFinal
  BY DEF IInv, Final
<1> QED BY Holds, <1>1, PTL

\* At most one packet is queued or dropped after the capture has ended.
THEOREM AtMostOneLate == Spec => []OneComesLate
<1>1. IInv => OneComesLate
  BY DEF IInv, Late, OneComesLate
<1> QED BY Holds, <1>1, PTL

\* Every packet that came is read, in order, waits, or is counted as dropped.
THEOREM PacketsAccounted == Spec => []EveryPacketAccounted
<1>1. IInv => EveryPacketAccounted
  BY DEF IInv, Accounted
<1> QED BY Holds, <1>1, PTL

\* Only the first call of end counts, from whatever goroutine.
THEOREM FirstCauseIsKept == Spec => FirstCauseStands
<1>1. ASSUME [Next]_vars PROVE [cause # None => cause' = cause]_cause
  <2> USE DEF opener, etw, queue, flushes, closing, reading
  <2>1. CASE Open
    BY <2>1 DEF Open, StopStale, OwnSessionName, EnableProvider, StartTrace, MakeLog, StartPktmon, Record,
                Begin
  <2>2. CASE Event \/ Queue \/ LoseEvents \/ TraceEnds \/ OutsiderStops
    BY <2>2 DEF Event, Queue, LoseEvents, TraceEnds, OutsiderStops
  <2>3. CASE FailEvent \/ Watch \/ BeginClose
    BY <2>3 DEF FailEvent, Watch, BeginClose, End
  <2>4. CASE Tick \/ Flush \/ FlusherEnds
    BY <2>4 DEF Tick, Flush, FlusherEnds
  <2>5. CASE ReadSegment \/ ReadEnd \/ StopReading
    BY <2>5 DEF ReadSegment, ReadEnd, StopReading
  <2>6. CASE \E c \in Callers : CallClose(c) \/ CloseReturns(c)
    BY <2>6 DEF CallClose, CloseReturns
  <2>7. CASE Undo \/ ConsumerStops \/ Degraded
    BY <2>7 DEF Undo, ConsumerStops, Degraded
  <2>8. CASE UNCHANGED vars
    BY <2>8 DEF vars
  <2> QED BY <1>1, <2>1, <2>2, <2>3, <2>4, <2>5, <2>6, <2>7, <2>8 DEF Next
<1> QED BY <1>1, PTL DEF Spec, FirstCauseStands

\* However far a capture came and however it ends, nothing of it is left, and pktmon's log goes last.
THEOREM NothingIsLeftRunning == Spec => []LeavesNothingRunning
BY WhatBeganIsUndone, LogIsRemovedLast, PTL DEF LeavesNothingRunning

\* What Close found lost is all there is, and at most one packet comes after the end.
THEOREM LossesAreAll == Spec => []LostIsAll
BY LossesAreFinal, AtMostOneLate, PTL DEF LostIsAll

\* The cause that the reader is told is the first, and a broken trace only when it broke.
THEOREM CauseStaysTrue == Spec => CauseIsTrue
BY OnlyOutsidersBreakIt, FirstCauseIsKept, PTL DEF CauseIsTrue

-----------------------------------------------------------------------------
\* The sessions of a machine.

ProcPlaces == {"unborn", "running", "list", "check", "stop", "begin", "pktmon", "open", "close",
           "closed", "dead", "odd"}

\* The places of a capture that starts, or runs.
Starting == {"list", "check", "stop", "begin"}
Begun == {"pktmon", "open", "close", "closed"}

\* The names of the captures there have been.
Named == {Name(i) : i \in {j \in Procs : proc[j].at # "unborn" /\ proc[j].capture}}

SessionTypes ==
    /\ proc \in [Procs -> [capture : BOOLEAN, denied : BOOLEAN, pid : Nat, created : Nat, at : ProcPlaces]]
    /\ held \subseteq Dead /\ clock \in Nat
    /\ failed \in [Procs -> BOOLEAN]
    /\ listed \in [Procs -> SUBSET (Foreign \cup Named)]
    /\ doomed \in [Procs -> SUBSET Named]
    /\ due \in [Procs -> SUBSET Named]
    /\ sessions \subseteq Foreign \cup Named

\* A process that was created has a number, and a time of its own.
Created ==
    /\ \A i \in Procs : proc[i].pid \in Pids \cup {0}
    /\ \A i \in Procs : proc[i].at # "unborn" => proc[i].pid \in Pids /\ proc[i].created < clock
    /\ \A i \in Procs : proc[i].at \in Starting \cup Begun => proc[i].capture
    /\ \A i, j \in Procs :
          proc[i].at # "unborn" /\ proc[j].at # "unborn" /\ proc[i].created = proc[j].created => i = j

\* What a capture will stop, and what it has to, is of the dead.
OfTheDead ==
    \A i \in Procs :
        /\ doomed[i] # {} => proc[i].at \in {"check", "stop"}
        /\ \A s \in doomed[i] \cup due[i] : Owner(s) \subseteq Dead

\* Where a capture has what it has to stop, on its way through stopStale.
OnTheWay ==
    \A i \in Procs :
        /\ proc[i].at = "check" => due[i] \cap sessions \subseteq listed[i] \cup doomed[i]
        /\ proc[i].at = "stop" /\ ~failed[i] => due[i] \cap sessions \subseteq doomed[i]
        /\ proc[i].at = "begin" /\ ~failed[i] => due[i] \cap sessions = {}

\* pktmon was started by one process, which runs it or was killed.
Pktmon ==
    /\ pktmon \subseteq Procs
    /\ \A i, j \in pktmon : i = j
    /\ \A i \in pktmon : proc[i].at = "open" \/ i \in Dead
    /\ \A i \in Procs : proc[i].at = "open" => i \in pktmon

SessionsInv == SessionTypes /\ Created /\ OfTheDead /\ OnTheWay /\ Pktmon

-----------------------------------------------------------------------------
\* What every step leaves of a process: who it is stays, and the dead stay dead; one that is created
\* has the time of the clock.
LEMMA Aging == ASSUME SessionsAssumption, SessionTypes, [SessionsNext]_sessionsVars
               PROVE  /\ proc' \in [Procs -> [capture : BOOLEAN, denied : BOOLEAN, pid : Nat, created : Nat,
                                              at : ProcPlaces]]
                      /\ clock' \in Nat /\ clock <= clock'
                      /\ \A i \in Procs : proc[i].at # "unborn" =>
                            /\ proc'[i].at # "unborn" /\ proc'[i].capture = proc[i].capture
                            /\ proc'[i].pid = proc[i].pid /\ proc'[i].created = proc[i].created
                      /\ \A i \in Procs : proc[i].at = "unborn" =>
                            \/ proc'[i] = proc[i]
                            \/ /\ proc'[i].at = IF proc'[i].capture THEN "list" ELSE "running"
                               /\ proc'[i].pid \in Pids /\ proc'[i].created = clock /\ clock' = clock + 1
                               /\ \A j \in Procs \ {i} : proc'[j] = proc[j]
                      /\ \A i \in Dead : proc'[i] = proc[i]
                      /\ \A i \in Procs : proc[i].at = "running" => proc'[i].at \in {"running", "dead", "odd"}
<1> USE DEF SessionTypes, ProcPlaces, Goes
<1>1. CASE \E i \in Procs : Step(i)
  <2>1. PICK i \in Procs : Step(i) BY <1>1
  <2>2. clock' = clock BY <2>1, SMTT(30) DEF Step, ListMore, List, ListFails, Check, Checked, StopOne, StopOneFails, Stopped,
        BeginSession, RunPktmon, RunPktmonFails, StopPktmon, StopETW
  <2>3. \/ proc' = proc
        \/ /\ proc[i].at \in {"list", "check", "stop", "begin", "pktmon", "open", "close"}
           /\ \E at \in {"check", "stop", "begin", "pktmon", "open", "close", "closed"} : Goes(i, at)
    BY <2>1, SMTT(30) DEF Step, ListMore, List, ListFails, Check, Checked, StopOne, StopOneFails, Stopped,
       BeginSession, RunPktmon, RunPktmonFails, StopPktmon, StopETW
  <2>4. CASE proc' = proc BY <2>2, <2>4 DEF Dead
  <2>5. CASE /\ proc[i].at \in {"list", "check", "stop", "begin", "pktmon", "open", "close"}
             /\ \E at \in {"check", "stop", "begin", "pktmon", "open", "close", "closed"} : Goes(i, at)
    BY <2>2, <2>5 DEF Dead
  <2> QED BY <2>3, <2>4, <2>5
<1>4. CASE \E i \in Procs, capture, denied \in BOOLEAN, pid \in Pids : Create(i, capture, denied, pid)
  <2>1. PICK i \in Procs, capture \in BOOLEAN, denied \in BOOLEAN, pid \in Pids : Create(i, capture, denied, pid)
    BY <1>4
  <2> DEFINE new == [capture |-> capture, denied |-> denied, pid |-> pid, created |-> clock,
                     at |-> IF capture THEN "list" ELSE "running"]
  <2>2. /\ proc[i].at = "unborn" /\ pid \in Nat /\ clock' = clock + 1
        /\ proc' = [proc EXCEPT ![i] = new]
    BY <2>1 DEF Create, SessionsAssumption
  <2>3. /\ new \in [capture : BOOLEAN, denied : BOOLEAN, pid : Nat, created : Nat, at : ProcPlaces]
        /\ new.capture = capture /\ new.pid = pid /\ new.created = clock
        /\ new.at = IF new.capture THEN "list" ELSE "running"
    BY <2>2
  <2> HIDE DEF new
  <2>4. proc'[i] = new /\ \A j \in Procs \ {i} : proc'[j] = proc[j] BY <2>2
  <2>5. proc' \in [Procs -> [capture : BOOLEAN, denied : BOOLEAN, pid : Nat, created : Nat, at : ProcPlaces]]
    BY <2>2, <2>3
  <2>6. i \notin Dead BY <2>2 DEF Dead
  <2> QED BY <2>2, <2>3, <2>4, <2>5, <2>6 DEF Dead
<1>5. CASE \E i \in Procs, handle, odd \in BOOLEAN : Kill(i, handle, odd)
  BY <1>5 DEF Kill, Running, Dead
<1>6. CASE \E i \in Procs : Release(i)
  BY <1>6 DEF Release, Dead
<1>7. CASE \E s \in Foreign : Other(s)
  BY <1>7 DEF Other, Dead
<1>8. CASE UserStopsPktmon
  BY <1>8 DEF UserStopsPktmon, Dead
<1>9. CASE UNCHANGED sessionsVars
  BY <1>9 DEF sessionsVars, Dead
<1> QED BY <1>1, <1>4, <1>5, <1>6, <1>7, <1>8, <1>9 DEF SessionsNext

\* A name stays its capture's, and the dead stay dead.
LEMMA NamesStay == ASSUME SessionsAssumption, SessionTypes, Created, [SessionsNext]_sessionsVars
                   PROVE  /\ Named \subseteq Named'
                          /\ Dead \subseteq Dead'
                          /\ \A s \in Named : Owner(s)' = Owner(s)
<1> DEFINE Who(i) == [pid |-> proc[i].pid, created |-> proc[i].created]
           Born == {i \in Procs : proc[i].at # "unborn"}
           BornNext == {i \in Procs : proc'[i].at # "unborn"}
           WhoNext(i) == [pid |-> proc'[i].pid, created |-> proc'[i].created]
<1>1. \A i \in Born : i \in BornNext /\ WhoNext(i) = Who(i) /\ proc'[i].capture = proc[i].capture
  BY Aging
<1>2. \A i \in BornNext \ Born : proc'[i].created = clock
  BY Aging
<1>3. Dead \subseteq Dead'
  BY Aging DEF Dead
<1>4. \A i \in Born : proc[i].created < clock /\ clock \in Nat /\ proc[i].created \in Nat BY DEF Created, SessionTypes
<1>5. /\ \A s : s \in Named <=> \E i \in Born : proc[i].capture /\ s = Who(i)
      /\ \A s : s \in Named' <=> \E i \in BornNext : proc'[i].capture /\ s = WhoNext(i)
      /\ \A s : Owner(s) = {i \in Born : Who(i) = s /\ proc[i].capture}
      /\ \A s \in Named : Owner(s)' = {i \in BornNext : WhoNext(i) = s /\ proc'[i].capture}
  BY DEF Named, Name, Owner
<1>6. \A s \in Named, i \in BornNext \ Born : WhoNext(i) # s
  <2>1. TAKE s \in Named, i \in BornNext \ Born
  <2>2. PICK k \in Born : s = Who(k) BY <1>5
  <2>3. WhoNext(i).created = clock BY <1>2
  <2>4. s.created < clock /\ s.created \in Nat /\ clock \in Nat BY <1>4, <2>2
  <2> QED BY <2>3, <2>4
<1> HIDE DEF Who, Born, BornNext, WhoNext
<1>7. Named \subseteq Named'
  BY <1>1, <1>5
<1>8. ASSUME NEW s \in Named PROVE Owner(s)' = Owner(s)
  BY <1>1, <1>5, <1>6
<1> QED BY <1>3, <1>7, <1>8

\* Whoever is created is the only one with the time of the clock, which runs on.
LEMMA StepCreated == ASSUME SessionsAssumption, SessionTypes, Created, [SessionsNext]_sessionsVars PROVE Created'
<1>1. /\ proc' \in [Procs -> [capture : BOOLEAN, denied : BOOLEAN, pid : Nat, created : Nat, at : ProcPlaces]]
      /\ \A i \in Procs : proc[i].at = "unborn" /\ proc'[i] # proc[i] =>
            /\ proc'[i].at \in {"list", "running"} /\ (proc'[i].at = "list" => proc'[i].capture)
            /\ proc'[i].pid \in Pids /\ proc'[i].created = clock /\ clock' = clock + 1
            /\ \A j \in Procs \ {i} : proc'[j] = proc[j]
  BY Aging
<1>2. \A i \in Procs : proc[i].at # "unborn" =>
         /\ proc'[i].at # "unborn" /\ proc'[i].capture = proc[i].capture
         /\ proc'[i].pid = proc[i].pid /\ proc'[i].created = proc[i].created
  BY Aging
<1>3. clock \in Nat /\ clock' \in Nat /\ clock <= clock' BY Aging DEF SessionTypes
<1>4. \A i \in Procs : proc[i].created \in Nat BY DEF SessionTypes
<1>5. \A i \in Procs : proc'[i].pid \in Pids \cup {0}
  BY <1>1, <1>2 DEF Created
<1>6. \A i \in Procs : proc'[i].at # "unborn" => proc'[i].pid \in Pids /\ proc'[i].created < clock'
  BY <1>1, <1>2, <1>3, <1>4 DEF Created
<1>7. ASSUME NEW i \in Procs, proc'[i].at \in Starting \cup Begun PROVE proc'[i].capture
  <2>1. CASE proc[i].at = "unborn" BY <1>1, <1>7, <2>1 DEF Created, Starting, Begun
  <2>2. CASE proc[i].at # "unborn"
    <3>1. proc[i].at \in Starting \cup Begun \/ proc[i].at = "running" \/ i \in Dead
      BY <2>2 DEF SessionTypes, ProcPlaces, Starting, Begun, Dead
    <3>2. i \notin Dead BY <1>7, Aging DEF Dead, Starting, Begun
    <3>3. proc[i].at = "running" => proc'[i].at \in {"running", "dead", "odd"} BY Aging
    <3> QED BY <3>1, <3>2, <3>3, <1>2, <1>7 DEF Created, Starting, Begun
  <2> QED BY <2>1, <2>2
<1>8. ASSUME NEW i \in Procs, NEW j \in Procs,
             proc'[i].at # "unborn", proc'[j].at # "unborn", proc'[i].created = proc'[j].created
      PROVE  i = j
  <2>1. CASE proc[i].at # "unborn" /\ proc[j].at # "unborn" BY <1>2, <1>8, <2>1 DEF Created
  <2>2. CASE proc[i].at = "unborn" /\ proc[j].at # "unborn"
    <3>1. proc'[i].created = clock BY <1>1, <1>8, <2>2
    <3>2. proc'[j].created < clock BY <1>2, <2>2 DEF Created
    <3> QED BY <3>1, <3>2, <1>3, <1>8
  <2>3. CASE proc[i].at # "unborn" /\ proc[j].at = "unborn"
    <3>1. proc'[j].created = clock BY <1>1, <1>8, <2>3
    <3>2. proc'[i].created < clock BY <1>2, <2>3 DEF Created
    <3> QED BY <3>1, <3>2, <1>3, <1>8
  <2>4. CASE proc[i].at = "unborn" /\ proc[j].at = "unborn" BY <1>1, <1>8, <2>4
  <2> QED BY <2>1, <2>2, <2>3, <2>4
<1> QED BY <1>5, <1>6, <1>7, <1>8 DEF Created

\* The sets a capture works on are of names, and what it stops has a number in its name.
LEMMA StepSessionTypes ==
    ASSUME SessionsAssumption, SessionTypes, Created, [SessionsNext]_sessionsVars
    PROVE  SessionTypes'
<1> DEFINE Names == Foreign \cup Named
           NamesNext == Foreign \cup Named'
<1>1. /\ proc' \in [Procs -> [capture : BOOLEAN, denied : BOOLEAN, pid : Nat, created : Nat, at : ProcPlaces]]
      /\ clock' \in Nat
  BY Aging
<1>2. Named \subseteq Named' /\ Dead \subseteq Dead' BY NamesStay
<1>3. /\ held \subseteq Dead /\ failed \in [Procs -> BOOLEAN]
      /\ listed \in [Procs -> SUBSET Names] /\ doomed \in [Procs -> SUBSET Named]
      /\ due \in [Procs -> SUBSET Named] /\ sessions \subseteq Names
  BY DEF SessionTypes
<1>4. \A i \in Procs : proc[i].at = "begin" => Name(i) \in Named BY DEF Named, Created, Starting
<1>5. \A s \in Names : Ours(s) => s \in Named BY DEF Ours, SessionsAssumption
<1>6. \A s : Owner(s) # {} => s \in Named BY DEF Owner, Named
<1> DEFINE Goal == /\ held' \subseteq Dead' /\ failed' \in [Procs -> BOOLEAN]
                   /\ listed' \in [Procs -> SUBSET NamesNext] /\ doomed' \in [Procs -> SUBSET Named']
                   /\ due' \in [Procs -> SUBSET Named'] /\ sessions' \subseteq NamesNext
<1> HIDE DEF Names
<1>7. /\ listed \in [Procs -> SUBSET NamesNext] /\ doomed \in [Procs -> SUBSET Named']
      /\ due \in [Procs -> SUBSET Named'] /\ sessions \subseteq NamesNext
  BY <1>2, <1>3 DEF Names
<1> HIDE DEF NamesNext
<1>8. Names \subseteq NamesNext BY <1>2 DEF Names, NamesNext
<1>9. Goal
  <2> USE <1>2, <1>3, <1>7, <1>8
  <2>1. ASSUME NEW i \in Procs, Step(i) PROVE Goal
    <3>1. CASE ListMore(i) BY <3>1 DEF ListMore
    <3>2. CASE List(i) BY <3>2 DEF List, Goes
    <3>3. CASE ListFails(i) BY <3>3 DEF ListFails, Goes
    <3>4. ASSUME NEW s \in listed[i], Check(i, s) PROVE Goal
      <4>1. listed' \in [Procs -> SUBSET NamesNext] BY <3>4 DEF Check
      <4>2. doomed' \in [Procs -> SUBSET Named']
        <5>1. Ours(s) => s \in Named' BY <1>5
        <5> QED BY <5>1, <3>4 DEF Check
      <4>3. due' \in [Procs -> SUBSET Named'] BY <3>4 DEF Check
      <4> QED BY <3>4, <4>1, <4>2, <4>3 DEF Check
    <3>5. CASE Checked(i) BY <3>5 DEF Checked, Goes, scan
    <3>6. ASSUME NEW s \in doomed[i], StopOne(i, s) PROVE Goal BY <3>6 DEF StopOne
    <3>7. ASSUME NEW s \in doomed[i], StopOneFails(i, s) PROVE Goal BY <3>7 DEF StopOneFails
    <3>8. CASE Stopped(i) BY <3>8 DEF Stopped, Goes, scan
    <3>9. CASE BeginSession(i)
      <4>1. Name(i) \in NamesNext BY <1>4, <3>9 DEF BeginSession, NamesNext
      <4> QED BY <3>9, <4>1 DEF BeginSession, Goes
    <3>10. CASE RunPktmon(i) BY <3>10 DEF RunPktmon, Goes, scan
    <3>11. CASE RunPktmonFails(i) BY <3>11 DEF RunPktmonFails, Goes, scan
    <3>12. CASE StopPktmon(i) BY <3>12 DEF StopPktmon, Goes, scan
    <3>13. CASE StopETW(i) BY <3>13 DEF StopETW, Goes, scan
    <3> QED BY <2>1, <3>1, <3>2, <3>3, <3>4, <3>5, <3>6, <3>7, <3>8, <3>9, <3>10, <3>11, <3>12, <3>13 DEF Step
  <2>2. ASSUME NEW i \in Procs, NEW capture \in BOOLEAN, NEW denied \in BOOLEAN, NEW pid \in Pids,
               Create(i, capture, denied, pid)
        PROVE  Goal
    <3>1. {s \in sessions : Owner(s) # {} /\ Owner(s) \subseteq Dead} \subseteq Named' BY <1>6
    <3> QED BY <3>1, <2>2 DEF Create
  <2>3. ASSUME NEW i \in Procs, NEW handle \in BOOLEAN, NEW odd \in BOOLEAN, Kill(i, handle, odd) PROVE Goal
    <3>1. i \in Dead'
      <4>1. proc'[i].at \in {"dead", "odd"} BY <2>3 DEF Kill, SessionTypes
      <4> QED BY <4>1 DEF Dead
    <3> QED BY <3>1, <2>3 DEF Kill
  <2>4. ASSUME NEW i \in Procs, Release(i) PROVE Goal BY <2>4 DEF Release, scan
  <2>5. ASSUME NEW s \in Foreign, Other(s) PROVE Goal
    <3>1. s \in NamesNext BY DEF NamesNext
    <3> QED BY <3>1, <2>5 DEF Other, scan
  <2>6. CASE UserStopsPktmon BY <2>6 DEF UserStopsPktmon, scan
  <2>7. CASE UNCHANGED sessionsVars BY <2>7 DEF sessionsVars
  <2> QED BY <2>1, <2>2, <2>3, <2>4, <2>5, <2>6, <2>7 DEF SessionsNext
<1> QED BY <1>1, <1>9 DEF SessionTypes, NamesNext

\* processAlive: who runs, and is named, is found alive.
LEMMA TheDeadAreNotAlive == ASSUME NEW s PROVE ~ProcessAlive(s) => Owner(s) \subseteq Dead
<1> SUFFICES ASSUME ~ProcessAlive(s), NEW i \in Owner(s), i \notin Dead PROVE FALSE OBVIOUS
<1>1. i \in Holders(s.pid) BY DEF Holders, Running, Owner, Name
<1>2. proc[i].at # "dead" /\ proc[i].created = s.created BY DEF Owner, Name, Dead
<1> QED BY <1>1, <1>2 DEF ProcessAlive

\* A capture dooms only what it found dead, and who is dead stays so.
LEMMA StepOfTheDead ==
    ASSUME SessionsAssumption, SessionTypes, Created, OfTheDead, [SessionsNext]_sessionsVars
    PROVE  OfTheDead'
<1>1. /\ Named \subseteq Named' /\ Dead \subseteq Dead'
      /\ \A s \in Named : Owner(s)' = Owner(s)
  BY NamesStay
<1>2. SessionTypes' BY StepSessionTypes
<1>3. ASSUME NEW i \in Procs, NEW s \in Named, Owner(s) \subseteq Dead PROVE Owner(s)' \subseteq Dead'
  BY <1>1, <1>3
<1>4. \A i \in Procs : doomed[i] \subseteq Named /\ due[i] \subseteq Named BY DEF SessionTypes
<1> DEFINE Doomed(i) == /\ doomed'[i] # {} => proc'[i].at \in {"check", "stop"}
                        /\ \A s \in (doomed'[i] \cup due'[i]) \ (doomed[i] \cup due[i]) :
                              s \in Named /\ Owner(s) \subseteq Dead
<1>5. ASSUME NEW j \in Procs PROVE Doomed(j)
  <2> USE DEF SessionTypes
  <2>1. ASSUME NEW i \in Procs, Step(i) PROVE Doomed(j)
    <3>1. CASE ListMore(i) BY <3>1 DEF ListMore, OfTheDead
    <3>2. CASE List(i) BY <3>2 DEF List, Goes, OfTheDead
    <3>3. CASE ListFails(i) BY <3>3 DEF ListFails, Goes, OfTheDead
    <3>4. ASSUME NEW s \in listed[i], Check(i, s) PROVE Doomed(j)
      <4>1. s \in doomed'[j] \ doomed[j] => Ours(s) /\ ~ProcessAlive(s) BY <3>4 DEF Check
      <4>2. Ours(s) => s \in Named BY DEF Ours, SessionsAssumption
      <4>3. doomed'[j] \subseteq doomed[j] \cup {s} /\ due'[j] \subseteq due[j] BY <3>4 DEF Check
      <4>4. doomed'[j] # doomed[j] => j = i BY <3>4 DEF Check
      <4>5. proc' = proc /\ proc[i].at = "check" BY <3>4 DEF Check
      <4> QED BY <4>1, <4>2, <4>3, <4>4, <4>5, TheDeadAreNotAlive DEF OfTheDead
    <3>5. CASE Checked(i) BY <3>5 DEF Checked, Goes, scan, OfTheDead
    <3>6. ASSUME NEW s \in doomed[i], StopOne(i, s) PROVE Doomed(j) BY <3>6 DEF StopOne, OfTheDead
    <3>7. ASSUME NEW s \in doomed[i], StopOneFails(i, s) PROVE Doomed(j) BY <3>7 DEF StopOneFails, OfTheDead
    <3>8. CASE Stopped(i) BY <3>8 DEF Stopped, Goes, scan, OfTheDead
    <3>9. CASE BeginSession(i) BY <3>9 DEF BeginSession, Goes, OfTheDead
    <3>10. CASE RunPktmon(i) BY <3>10 DEF RunPktmon, Goes, scan, OfTheDead
    <3>11. CASE RunPktmonFails(i) BY <3>11 DEF RunPktmonFails, Goes, scan, OfTheDead
    <3>12. CASE StopPktmon(i) BY <3>12 DEF StopPktmon, Goes, scan, OfTheDead
    <3>13. CASE StopETW(i) BY <3>13 DEF StopETW, Goes, scan, OfTheDead
    <3> QED BY <2>1, <3>1, <3>2, <3>3, <3>4, <3>5, <3>6, <3>7, <3>8, <3>9, <3>10, <3>11, <3>12, <3>13 DEF Step
  <2>2. ASSUME NEW i \in Procs, NEW capture \in BOOLEAN, NEW denied \in BOOLEAN, NEW pid \in Pids,
               Create(i, capture, denied, pid)
        PROVE  Doomed(j)
    <3>1. \A s : Owner(s) # {} => s \in Named BY DEF Owner, Named
    <3>2. \A s \in due'[j] \ due[j] : Owner(s) # {} /\ Owner(s) \subseteq Dead BY <2>2 DEF Create
    <3>3. doomed'[j] = doomed[j] /\ (doomed[j] # {} => j # i) /\ (j # i => proc'[j] = proc[j])
      BY <2>2 DEF Create, OfTheDead
    <3> QED BY <3>1, <3>2, <3>3 DEF OfTheDead
  <2>3. ASSUME NEW i \in Procs, NEW handle \in BOOLEAN, NEW odd \in BOOLEAN, Kill(i, handle, odd) PROVE Doomed(j)
    BY <2>3 DEF Kill, OfTheDead
  <2>4. ASSUME NEW i \in Procs, Release(i) PROVE Doomed(j) BY <2>4 DEF Release, scan, OfTheDead
  <2>5. ASSUME NEW s \in Foreign, Other(s) PROVE Doomed(j) BY <2>5 DEF Other, scan, OfTheDead
  <2>6. CASE UserStopsPktmon BY <2>6 DEF UserStopsPktmon, scan, OfTheDead
  <2>7. CASE UNCHANGED sessionsVars BY <2>7 DEF sessionsVars, OfTheDead
  <2> QED BY <2>1, <2>2, <2>3, <2>4, <2>5, <2>6, <2>7 DEF SessionsNext
<1>6. ASSUME NEW i \in Procs, NEW s \in doomed'[i] \cup due'[i] PROVE Owner(s)' \subseteq Dead'
  <2>1. s \in Named /\ Owner(s) \subseteq Dead BY <1>4, <1>5 DEF OfTheDead
  <2> QED BY <2>1, <1>3
<1> QED BY <1>5, <1>6 DEF OfTheDead

\* What a capture has to stop is in one of its sets, or gone: no name of the dead is given again.
LEMMA StepOnTheWay ==
    ASSUME SessionsAssumption, SessionTypes, Created, OfTheDead, OnTheWay, [SessionsNext]_sessionsVars
    PROVE  OnTheWay'
<1> DEFINE Way(i) == /\ proc'[i].at = "check" => due'[i] \cap sessions' \subseteq listed'[i] \cup doomed'[i]
                     /\ proc'[i].at = "stop" /\ ~failed'[i] => due'[i] \cap sessions' \subseteq doomed'[i]
                     /\ proc'[i].at = "begin" /\ ~failed'[i] => due'[i] \cap sessions' = {}
<1>1. \A i \in Procs : \A s \in due[i] :
         s \in Named /\ s \notin Foreign /\ Ours(s) /\ Owner(s) # {} /\ Owner(s) \subseteq Dead
  <2>1. TAKE i \in Procs
  <2> TAKE s \in due[i]
  <2>2. s \in Named /\ Owner(s) \subseteq Dead BY DEF SessionTypes, OfTheDead
  <2>3. PICK k \in Procs : proc[k].at # "unborn" /\ proc[k].capture /\ s = Name(k) BY <2>2 DEF Named
  <2>4. s.pid = proc[k].pid /\ proc[k].pid \in Nat \ {0} BY <2>3 DEF Name, Created, SessionsAssumption
  <2>5. s \notin Foreign BY <2>4 DEF SessionsAssumption
  <2>6. k \in Owner(s) BY <2>3 DEF Owner
  <2> QED BY <2>2, <2>4, <2>5, <2>6 DEF Ours
<1>2. ASSUME NEW j \in Procs PROVE Way(j)
  <2> USE DEF SessionTypes
  <2>1. ASSUME NEW i \in Procs, Step(i) PROVE Way(j)
    <3>1. CASE ListMore(i) BY <3>1 DEF ListMore, OnTheWay
    <3>2. CASE List(i) BY <3>2 DEF List, Goes, OnTheWay
    <3>3. CASE ListFails(i) BY <3>3 DEF ListFails, Goes, OnTheWay
    <3>4. ASSUME NEW s \in listed[i], Check(i, s) PROVE Way(j)
      <4>1. proc' = proc /\ proc[i].at = "check" /\ sessions' = sessions /\ failed' = failed BY <3>4 DEF Check
      <4>2. CASE j # i BY <4>1, <4>2, <3>4 DEF Check, OnTheWay
      <4>3. CASE j = i
        <5>1. due'[i] \subseteq due[i] /\ listed'[i] = listed[i] \ {s} /\ doomed[i] \subseteq doomed'[i]
          BY <3>4 DEF Check
        <5>2. s \in due'[i] => s \in doomed'[i]
          <6>1. SUFFICES ASSUME s \in due'[i], s \notin doomed'[i] PROVE FALSE OBVIOUS
          <6>2. s \in due[i] /\ ~Hidden(s) BY <6>1, <3>4 DEF Check
          <6>3. ProcessAlive(s) BY <6>1, <6>2, <1>1, <3>4 DEF Check
          <6>4. PICK k \in Holders(s.pid) : proc[k].at # "dead" /\ proc[k].at # "odd" /\ proc[k].created = s.created
            BY <6>2, <6>3 DEF ProcessAlive, Hidden
          <6>5. k \in Running BY <6>4 DEF Holders, Dead
          <6>6. PICK d \in Owner(s) : d \in Dead BY <6>2, <1>1
          <6>7. proc[d].created = s.created BY <6>6 DEF Owner, Name
          <6>8. k = d BY <6>4, <6>5, <6>6, <6>7 DEF Created, Running, Owner, Dead
          <6> QED BY <6>5, <6>6, <6>8 DEF Running
        <5> QED BY <4>1, <4>3, <5>1, <5>2 DEF OnTheWay
      <4> QED BY <4>2, <4>3
    <3>5. CASE Checked(i) BY <3>5 DEF Checked, Goes, scan, OnTheWay
    <3>6. ASSUME NEW s \in doomed[i], StopOne(i, s) PROVE Way(j) BY <3>6 DEF StopOne, OnTheWay
    <3>7. ASSUME NEW s \in doomed[i], StopOneFails(i, s) PROVE Way(j) BY <3>7 DEF StopOneFails, OnTheWay
    <3>8. CASE Stopped(i) BY <3>8 DEF Stopped, Goes, scan, OnTheWay
    <3>9. CASE BeginSession(i)
      <4>1. \A s \in due[j] : s # Name(i)
        <5>1. proc[i].at = "begin" /\ proc[i].capture BY <3>9 DEF BeginSession, Created, Starting
        <5>2. i \in Owner(Name(i)) /\ i \notin Dead BY <5>1 DEF Owner, Dead
        <5> QED BY <5>2, <1>1
      <4> QED BY <4>1, <3>9 DEF BeginSession, Goes, OnTheWay
    <3>10. CASE RunPktmon(i) BY <3>10 DEF RunPktmon, Goes, scan, OnTheWay
    <3>11. CASE RunPktmonFails(i) BY <3>11 DEF RunPktmonFails, Goes, scan, OnTheWay
    <3>12. CASE StopPktmon(i) BY <3>12 DEF StopPktmon, Goes, scan, OnTheWay
    <3>13. CASE StopETW(i) BY <3>13 DEF StopETW, Goes, scan, OnTheWay
    <3> QED BY <2>1, <3>1, <3>2, <3>3, <3>4, <3>5, <3>6, <3>7, <3>8, <3>9, <3>10, <3>11, <3>12, <3>13 DEF Step
  <2>2. ASSUME NEW i \in Procs, NEW capture \in BOOLEAN, NEW denied \in BOOLEAN, NEW pid \in Pids,
               Create(i, capture, denied, pid)
        PROVE  Way(j)
    <3>1. CASE j = i BY <3>1, <2>2 DEF Create
    <3>2. CASE j # i BY <3>2, <2>2 DEF Create, OnTheWay
    <3> QED BY <3>1, <3>2
  <2>3. ASSUME NEW i \in Procs, NEW handle \in BOOLEAN, NEW odd \in BOOLEAN, Kill(i, handle, odd) PROVE Way(j)
    BY <2>3 DEF Kill, OnTheWay
  <2>4. ASSUME NEW i \in Procs, Release(i) PROVE Way(j) BY <2>4 DEF Release, scan, OnTheWay
  <2>5. ASSUME NEW s \in Foreign, Other(s) PROVE Way(j)
    <3>1. due[j] \cap sessions' \subseteq sessions BY <2>5, <1>1 DEF Other
    <3> QED BY <3>1, <2>5 DEF Other, scan, OnTheWay
  <2>6. CASE UserStopsPktmon BY <2>6 DEF UserStopsPktmon, scan, OnTheWay
  <2>7. CASE UNCHANGED sessionsVars BY <2>7 DEF sessionsVars, OnTheWay
  <2> QED BY <2>1, <2>2, <2>3, <2>4, <2>5, <2>6, <2>7 DEF SessionsNext
<1> QED BY <1>2 DEF OnTheWay

\* pktmon stays with the one that started it, until it stops it, or the user stops it for the dead.
LEMMA StepPktmon == ASSUME SessionsAssumption, SessionTypes, Pktmon, [SessionsNext]_sessionsVars PROVE Pktmon'
<1> USE DEF SessionTypes, Pktmon, Dead
<1>1. ASSUME NEW i \in Procs, Step(i) PROVE Pktmon'
  <2>1. CASE ListMore(i) BY <2>1 DEF ListMore
  <2>2. CASE List(i) BY <2>2 DEF List, Goes
  <2>3. CASE ListFails(i) BY <2>3 DEF ListFails, Goes
  <2>4. CASE \E s \in listed[i] : Check(i, s) BY <2>4 DEF Check
  <2>5. CASE Checked(i) BY <2>5 DEF Checked, Goes
  <2>6. CASE \E s \in doomed[i] : StopOne(i, s) \/ StopOneFails(i, s) BY <2>6 DEF StopOne, StopOneFails
  <2>7. CASE Stopped(i) BY <2>7 DEF Stopped, Goes
  <2>8. CASE BeginSession(i) BY <2>8 DEF BeginSession, Goes
  <2>9. CASE RunPktmon(i) BY <2>9 DEF RunPktmon, Goes
  <2>10. CASE RunPktmonFails(i) BY <2>10 DEF RunPktmonFails, Goes
  <2>11. CASE StopPktmon(i) BY <2>11 DEF StopPktmon, Goes
  <2>12. CASE StopETW(i) BY <2>12 DEF StopETW, Goes
  <2> QED BY <1>1, <2>1, <2>2, <2>3, <2>4, <2>5, <2>6, <2>7, <2>8, <2>9, <2>10, <2>11, <2>12 DEF Step
<1>2. CASE \E i \in Procs, capture, denied \in BOOLEAN, pid \in Pids : Create(i, capture, denied, pid)
  <2>1. pktmon' = pktmon BY <1>2 DEF Create
  <2>2. PICK i \in Procs : proc[i].at = "unborn" /\ \A j \in Procs \ {i} : proc'[j] = proc[j]
    BY <1>2 DEF Create
  <2>3. proc'[i].at \in {"unborn", "list", "running"} BY <2>2, Aging
  <2> QED BY <2>1, <2>2, <2>3
<1>3. CASE \E i \in Procs, handle, odd \in BOOLEAN : Kill(i, handle, odd)
  BY <1>3 DEF Kill, Running
<1>4. CASE \E i \in Procs : Release(i) BY <1>4 DEF Release
<1>5. CASE \E s \in Foreign : Other(s) BY <1>5 DEF Other
<1>6. CASE UserStopsPktmon BY <1>6 DEF UserStopsPktmon
<1>7. CASE UNCHANGED sessionsVars BY <1>7 DEF sessionsVars
<1> QED BY <1>1, <1>2, <1>3, <1>4, <1>5, <1>6, <1>7 DEF SessionsNext

-----------------------------------------------------------------------------
LEMMA SessionsBegin == ASSUME SessionsAssumption, SessionsInit PROVE SessionsInv
<1> USE DEF SessionsInit, Unborn
<1>1. SessionTypes BY DEF SessionTypes, ProcPlaces, Dead
<1>2. Created BY DEF Created, Starting, Begun
<1>3. OfTheDead BY DEF OfTheDead
<1>4. OnTheWay BY DEF OnTheWay
<1>5. Pktmon BY DEF Pktmon
<1> QED BY <1>1, <1>2, <1>3, <1>4, <1>5 DEF SessionsInv

LEMMA SessionsStep == ASSUME SessionsAssumption, SessionsInv, [SessionsNext]_sessionsVars PROVE SessionsInv'
BY StepSessionTypes, StepCreated, StepOfTheDead, StepOnTheWay, StepPktmon DEF SessionsInv

LEMMA SessionsHold == SessionsAssumption => (SessionsSpec => []SessionsInv)
<1> SUFFICES ASSUME SessionsAssumption PROVE SessionsSpec => []SessionsInv OBVIOUS
<1>1. SessionsInit => SessionsInv BY SessionsBegin
<1>2. SessionsInv /\ [SessionsNext]_sessionsVars => SessionsInv' BY SessionsStep
<1> QED BY <1>1, <1>2, PTL DEF SessionsSpec

\* Whatever is killed, and whenever: a capture that has stopped the stale sessions without an error
\* has left none of a capture that was killed before it began, unless it could not know it was dead, and
\* what it dooms is of captures that are gone (stopStale, processAlive).
THEOREM TheKilledAreStopped == SessionsAssumption => (SessionsSpec => []StaleAreStopped)
<1> SUFFICES ASSUME SessionsAssumption PROVE SessionsSpec => []StaleAreStopped OBVIOUS
<1>1. ASSUME SessionsInv PROVE StaleAreStopped
  <2>1. KilledAreStopped BY <1>1 DEF SessionsInv, OnTheWay, KilledAreStopped, Running
  <2>2. ASSUME NEW i \in Procs, NEW s \in doomed[i] PROVE s \notin Foreign
    <3>1. PICK k \in Procs : proc[k].at # "unborn" /\ s = Name(k) BY <1>1 DEF SessionsInv, SessionTypes, Named
    <3>2. s.pid \in Nat \ {0} BY <1>1, <3>1 DEF SessionsInv, Created, Name, SessionsAssumption
    <3> QED BY <3>2 DEF SessionsAssumption
  <2>3. SessionsTypeOK BY <1>1, <2>2 DEF SessionsInv, SessionTypes, Created, OfTheDead, Pktmon, SessionsTypeOK
  <2> QED BY <2>1, <2>3 DEF StaleAreStopped
<1> QED BY <1>1, SessionsHold, PTL

\* However many captures start, stop and are killed at once: a session that ends is another program's,
\* its own capture's or a dead one's, and pktmon is stopped by the capture that started it, or when
\* that one is dead (stopStale, start, onClose).
THEOREM TheRunningRunOn == SessionsAssumption => (SessionsSpec => OthersRunOn)
<1> SUFFICES ASSUME SessionsAssumption PROVE SessionsSpec => OthersRunOn OBVIOUS
<1> DEFINE Stands == \A s \in sessions \ sessions' :
             \/ s \in Foreign /\ proc' = proc /\ listed' = listed /\ doomed' = doomed
             \/ Owner(s) \subseteq Dead
             \/ \E i \in Owner(s) : proc[i].at = "close" /\ proc'[i].at = "closed"
           Runs == \A i \in pktmon \ pktmon' :
             \/ i \in Dead
             \/ proc[i].at = "open" /\ proc'[i].at = "close"
<1>1. ASSUME SessionsInv, SessionsNext PROVE Stands /\ Runs
  <2> USE DEF SessionsInv, SessionTypes
  <2>1. ASSUME NEW i \in Procs, Step(i) PROVE Stands /\ Runs
    <3>1. ASSUME ListMore(i) \/ List(i) \/ ListFails(i) \/ (\E s \in listed[i] : Check(i, s)) \/ Checked(i)
                 \/ (\E s \in doomed[i] : StopOneFails(i, s)) \/ Stopped(i) \/ BeginSession(i)
                 \/ RunPktmonFails(i) \/ RunPktmon(i)
          PROVE  sessions \subseteq sessions' /\ pktmon \subseteq pktmon'
      BY <3>1 DEF ListMore, List, ListFails, Check, Checked, StopOneFails, Stopped, BeginSession, RunPktmonFails,
         RunPktmon, scan
    <3>2. ASSUME NEW s \in doomed[i], StopOne(i, s) PROVE Stands /\ Runs
      BY <1>1, <3>2 DEF StopOne, OfTheDead
    <3>3. CASE StopPktmon(i)
      <4>1. pktmon \subseteq {i} \cup Dead BY <1>1, <3>3 DEF StopPktmon, Pktmon
      <4>2. proc'[i].at = "close" BY <1>1, <3>3 DEF StopPktmon, Goes
      <4> QED BY <4>1, <4>2, <3>3 DEF StopPktmon
    <3>4. CASE StopETW(i)
      <4>1. proc[i].at = "close" /\ proc'[i].at = "closed" BY <1>1, <3>4 DEF StopETW, Goes
      <4>2. i \in Owner(Name(i)) BY <1>1, <4>1 DEF Owner, Created, Begun
      <4> QED BY <4>1, <4>2, <3>4 DEF StopETW
    <3> QED BY <2>1, <3>1, <3>2, <3>3, <3>4 DEF Step
  <2>2. CASE \E i \in Procs, capture, denied \in BOOLEAN, pid \in Pids : Create(i, capture, denied, pid)
    BY <2>2 DEF Create
  <2>3. CASE \E i \in Procs, handle, odd \in BOOLEAN : Kill(i, handle, odd) BY <2>3 DEF Kill
  <2>4. CASE \E i \in Procs : Release(i) BY <2>4 DEF Release
  <2>5. CASE \E s \in Foreign : Other(s) BY <2>5 DEF Other, scan
  <2>6. CASE UserStopsPktmon BY <2>6 DEF UserStopsPktmon
  <2> QED BY <1>1, <2>1, <2>2, <2>3, <2>4, <2>5, <2>6 DEF SessionsNext
<1>2. SessionsInv /\ [SessionsNext]_sessionsVars => [Stands]_sessionsVars /\ [Runs]_sessionsVars BY <1>1
<1>3. OnlyTheDeadAreStopped <=> [][Stands]_sessionsVars BY DEF OnlyTheDeadAreStopped
<1>4. PktmonStoppedByItsOwn <=> [][Runs]_sessionsVars BY DEF PktmonStoppedByItsOwn
<1>5. SessionsSpec => []SessionsInv BY SessionsHold
<1> HIDE DEF Stands, Runs
<1> QED BY <1>2, <1>3, <1>4, <1>5, PTL DEF SessionsSpec, OthersRunOn
=============================================================================
