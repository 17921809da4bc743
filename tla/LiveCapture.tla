---------------------------- MODULE LiveCapture ----------------------------
(***************************************************************************)
(* Live capture on Windows, src/capture/live_windows.go, with the Capture  *)
(* and Close of src/a2kit.go around it: OpenLive begins an ETW session, a  *)
(* consumer of it, a log directory and pktmon; the consumer's callback     *)
(* queues packets; a reader takes them; and whoever closes the capture     *)
(* first undoes what was begun, last first.                                *)
(*                                                                         *)
(* The goroutines are the opener, the callback, the watcher, the flusher,  *)
(* the reader, which closes when it is done, and the one that the context  *)
(* closes from.  A step is what one of them does between two points where  *)
(* another can see it.  The ETW library and pktmon are external: a session *)
(* stands or not, the consumer runs until its session or it is stopped.    *)
(***************************************************************************)
EXTENDS Naturals, Sequences
LOCAL INSTANCE SequencesExt

CONSTANTS
    QueueCap,       \* pktmonQueue: packets the callback may have queued
    Recording,      \* whether Config.Record is set
    FlushMayFail,   \* whether a flush may fail while there is a session to flush
    MaxPackets,     \* bound: packets that come
    MaxLost         \* bound: times the library counts lost events

ASSUME LiveAssumption ==
    /\ {QueueCap, MaxPackets, MaxLost} \subseteq Nat
    /\ QueueCap > 0
    /\ {Recording, FlushMayFail} \subseteq BOOLEAN

VARIABLES
    opening,        \* where OpenLive and Capture are
    standing,       \* what was begun and not undone: of "session", "log" and "pktmon"
    started,        \* whether the library has started the session: IsStarted
    trace,          \* the consumer: "nil", "made", "running" or "ended"
    traceErr,       \* whether its Err is an error
    closers,        \* l.closers: what to undo
    cause,          \* l.err, once done is closed
    packets,        \* the queue
    callback,       \* where the event callback is
    watcher,        \* where watch is
    flusher,        \* where flush is
    flushErr,       \* whether the flushErr channel holds an error
    staleErr,       \* whether stopStale failed
    once,           \* where the one Close that counts is
    todo,           \* what it has yet to undo
    closeErr,       \* what it could not undo
    lost,           \* what it found lost
    calls,          \* Close, by caller
    reader,         \* where the reader is
    dropped,        \* l.dropped
    lostEvents,     \* the library's LostEvents
    seen, read,     \* history: packets that came, and those read
    late,           \* history: packets queued or dropped after the end
    outside,        \* history: whether something outside stopped the session
    flushFailed     \* history: whether a flush failed while the capture went on

opener  == <<opening, closers, staleErr>>
etw     == <<standing, started, trace, traceErr, lostEvents>>
queue   == <<packets, callback, dropped, seen, late>>
flushes == <<flusher, flushErr, flushFailed>>
closing == <<once, todo, closeErr, lost, calls>>
reading == <<reader, read>>

vars == <<opener, etw, queue, flushes, closing, reading, cause, watcher, outside>>

None    == "none"
Callers == {"opener", "context", "reader"}

\* Mutant: a later end replaces the first.
EndAgain(why) == cause' = why

\* end: only the first call counts.
End(why) == cause' = IF cause = None THEN why ELSE cause

-----------------------------------------------------------------------------
\* OpenLive, and the recording that Capture begins.  Every step may fail.

Fail == opening' = "failing"

StopStale ==
    /\ opening = "stale"
    /\ staleErr' \in BOOLEAN
    /\ opening' = "name"
    /\ UNCHANGED <<closers, etw, queue, flushes, closing, reading, cause, watcher, outside>>

OwnSessionName ==
    /\ opening = "name"
    /\ \/ opening' = "enable" /\ closers' = <<"etw">>
       \/ Fail /\ UNCHANGED closers
    /\ UNCHANGED <<staleErr, etw, queue, flushes, closing, reading, cause, watcher, outside>>

\* EnableProvider starts the session, and may fail after.
EnableProvider ==
    /\ opening = "enable"
    /\ \/ started' = TRUE /\ standing' = standing \cup {"session"} /\ (opening' = "start" \/ Fail)
       \/ Fail /\ UNCHANGED <<started, standing>>
    /\ UNCHANGED <<closers, staleErr, trace, traceErr, lostEvents, queue, flushes, closing, reading,
                   cause, watcher, outside>>

StartTrace ==
    /\ opening = "start"
    /\ \/ trace' = "running" /\ watcher' = "waiting" /\ flusher' = "waiting" /\ opening' = "mkdir"
       \/ trace' = "made" /\ Fail /\ UNCHANGED <<watcher, flusher>>
    /\ UNCHANGED <<closers, staleErr, standing, started, traceErr, lostEvents, queue, flushErr,
                   flushFailed, closing, reading, cause, outside>>

\* A step that begins what is named, and registers how to undo it, or fails.
Begin(at, what, to) ==
    /\ opening = at
    /\ \/ /\ standing' = standing \cup {what}
          /\ closers' = Append(closers, what)
          /\ opening' = to
       \/ Fail /\ UNCHANGED <<standing, closers>>
    /\ UNCHANGED <<staleErr, started, trace, traceErr, lostEvents, queue, flushes, closing, reading,
                   cause, watcher, outside>>

MakeLog     == Begin("mkdir", "log", "pktmon")
StartPktmon == Begin("pktmon", "pktmon", IF Recording THEN "record" ELSE "open")

Record ==
    /\ opening = "record"
    /\ opening' = "open" \/ Fail
    /\ UNCHANGED <<closers, staleErr, etw, queue, flushes, closing, reading, cause, watcher, outside>>

Open == StopStale \/ OwnSessionName \/ EnableProvider \/ StartTrace \/ MakeLog \/ StartPktmon \/ Record

-----------------------------------------------------------------------------
\* The consumer and its callback.

\* event: a packet to queue, or an event that cannot be read, while the capture goes on.
Event ==
    /\ trace = "running" /\ callback = "idle"
    /\ cause = None
    /\ \/ /\ seen < MaxPackets
          /\ seen' = seen + 1
          /\ callback' = "queueing"
       \/ callback' = "failing" /\ UNCHANGED seen
    /\ UNCHANGED <<packets, dropped, late, opener, etw, flushes, closing, reading, cause, watcher, outside>>

FailEvent ==
    /\ callback = "failing"
    /\ callback' = "idle"
    /\ End("event")
    /\ UNCHANGED <<packets, dropped, seen, late, opener, etw, flushes, closing, reading, watcher, outside>>

\* Mutants: the queue takes one packet more than it has room for; the callback waits for room; a
\* packet there is no room for takes the oldest's place.
QueueBeyondRoom ==
    /\ callback = "queueing"
    /\ callback' = "idle"
    /\ IF Len(packets) <= QueueCap
       THEN packets' = Append(packets, seen) /\ UNCHANGED dropped
       ELSE dropped' = dropped + 1 /\ UNCHANGED packets
    /\ late' = IF cause = None THEN late ELSE late + 1
    /\ UNCHANGED <<seen, opener, etw, flushes, closing, reading, cause, watcher, outside>>

QueueWaiting ==
    /\ callback = "queueing" /\ Len(packets) < QueueCap
    /\ callback' = "idle"
    /\ packets' = Append(packets, seen)
    /\ late' = IF cause = None THEN late ELSE late + 1
    /\ UNCHANGED <<dropped, seen, opener, etw, flushes, closing, reading, cause, watcher, outside>>

QueueUncounted ==
    /\ callback = "queueing"
    /\ callback' = "idle"
    /\ packets' = Append(IF Len(packets) < QueueCap THEN packets ELSE Tail(packets), seen)
    /\ late' = IF cause = None THEN late ELSE late + 1
    /\ UNCHANGED <<dropped, seen, opener, etw, flushes, closing, reading, cause, watcher, outside>>

\* queue: the callback must not wait.
Queue ==
    /\ callback = "queueing"
    /\ callback' = "idle"
    /\ IF Len(packets) < QueueCap
       THEN packets' = Append(packets, seen) /\ UNCHANGED dropped
       ELSE dropped' = dropped + 1 /\ UNCHANGED packets
    /\ late' = IF cause = None THEN late ELSE late + 1
    /\ UNCHANGED <<seen, opener, etw, flushes, closing, reading, cause, watcher, outside>>

LoseEvents ==
    /\ trace = "running" /\ lostEvents < MaxLost
    /\ lostEvents' = lostEvents + 1
    /\ UNCHANGED <<standing, started, trace, traceErr, opener, queue, flushes, closing, reading,
                   cause, watcher, outside>>

\* The session's end is what lets the trace end, or the consumer being stopped.
TraceEnds ==
    /\ trace = "running" /\ callback = "idle"
    /\ "session" \notin standing \/ once = "consumer"
    /\ trace' = "ended"
    /\ traceErr' \in BOOLEAN
    /\ UNCHANGED <<standing, started, lostEvents, opener, queue, flushes, closing, reading, cause,
                   watcher, outside>>

OutsiderStops ==
    /\ "session" \in standing
    /\ standing' = standing \ {"session"}
    /\ outside' = TRUE
    /\ UNCHANGED <<started, trace, traceErr, lostEvents, opener, queue, flushes, closing, reading,
                   cause, watcher>>

-----------------------------------------------------------------------------
\* The watcher and the flusher.

\* Mutant: a trace that ends without an error does not end the capture.
WatchForErrors ==
    /\ watcher = "waiting" /\ trace = "ended"
    /\ watcher' = "over"
    /\ IF traceErr THEN End("trace") ELSE UNCHANGED cause
    /\ UNCHANGED <<opener, etw, queue, flushes, closing, reading, outside>>

Watch ==
    /\ watcher = "waiting" /\ trace = "ended"
    /\ watcher' = "over"
    /\ End(IF traceErr THEN "trace" ELSE "stopped")
    /\ UNCHANGED <<opener, etw, queue, flushes, closing, reading, outside>>

Tick ==
    /\ flusher = "waiting"
    /\ flusher' = "flushing"
    /\ UNCHANGED <<flushErr, flushFailed, opener, etw, queue, closing, reading, cause, watcher, outside>>

\* A flush fails when there is no session to flush.
Flush ==
    /\ flusher = "flushing"
    /\ \/ "session" \in standing /\ flusher' = "waiting" /\ UNCHANGED <<flushErr, flushFailed>>
       \/ /\ "session" \notin standing \/ FlushMayFail
          /\ flusher' = "over"
          /\ flushErr' = TRUE
          /\ flushFailed' = (cause = None)
    /\ UNCHANGED <<opener, etw, queue, closing, reading, cause, watcher, outside>>

\* The other case of the select in every.
FlusherEnds ==
    /\ flusher = "waiting" /\ cause # None
    /\ flusher' = "over"
    /\ UNCHANGED <<flushErr, flushFailed, opener, etw, queue, closing, reading, cause, watcher, outside>>

-----------------------------------------------------------------------------
\* The reader.

\* The decoder takes what is queued.  With a recording that fails to be written, the packet is lost
\* with the error.
ReadSegment ==
    /\ opening = "open" /\ reader = "reading" /\ packets # <<>>
    /\ packets' = Tail(packets)
    /\ read' = Append(read, Head(packets))
    /\ \/ UNCHANGED reader
       \/ Recording /\ reader' = "leaving"
    /\ UNCHANGED <<callback, dropped, seen, late, opener, etw, flushes, closing, cause, watcher, outside>>

\* The other case of its select, which may come first.
ReadEnd ==
    /\ opening = "open" /\ reader = "reading" /\ cause # None
    /\ reader' = "leaving"
    /\ UNCHANGED <<read, opener, etw, queue, flushes, closing, cause, watcher, outside>>

\* The command needs no more messages.
StopReading ==
    /\ opening = "open" /\ reader = "reading"
    /\ reader' = "leaving"
    /\ UNCHANGED <<read, opener, etw, queue, flushes, closing, cause, watcher, outside>>

-----------------------------------------------------------------------------
\* Close.

\* Capture closes what it could not open or record, the context closes what its reader has not, and
\* the reader's Close comes when it leaves, and stops the context from closing.
MayClose(c) ==
    CASE c = "opener"  -> opening = "failing"
      [] c = "context" -> opening = "open" /\ calls["reader"] = "idle"
      [] c = "reader"  -> reader = "leaving"

CallClose(c) ==
    /\ calls[c] = "idle" /\ MayClose(c)
    /\ calls' = [calls EXCEPT ![c] = "calling"]
    /\ UNCHANGED <<once, todo, closeErr, lost, opener, etw, queue, flushes, reading, cause, watcher, outside>>

BeginCloseOpen ==
    /\ once = "no" /\ \E c \in Callers : calls[c] = "calling"
    /\ once' = "undoing"
    /\ todo' = closers
    /\ UNCHANGED <<closeErr, lost, calls, opener, etw, queue, flushes, reading, cause, watcher, outside>>

BeginClose ==
    /\ once = "no" /\ \E c \in Callers : calls[c] = "calling"
    /\ once' = "undoing"
    /\ todo' = closers
    /\ End("EOF")
    /\ UNCHANGED <<closeErr, lost, calls, opener, etw, queue, flushes, reading, watcher, outside>>

\* Undoing what, one step, or failing to.  todo' is left to the caller.
Stop(what) ==
    \/ standing' = standing \ {what} /\ UNCHANGED closeErr
    \/ closeErr' = closeErr \cup {what} /\ UNCHANGED standing

\* stopETW stops the session, which fails when it is gone, and then the consumer.
StopSession ==
    IF ~started THEN UNCHANGED <<standing, closeErr>>
    ELSE IF "session" \in standing THEN Stop("session")
    ELSE closeErr' = closeErr \cup {"session"} /\ UNCHANGED standing

\* Mutant: nothing more is undone after a failure.
UndoUntilFailure ==
    /\ once = "undoing" /\ todo # <<>>
    /\ IF Last(todo) = "etw" THEN StopSession ELSE Stop(Last(todo))
    /\ IF Last(todo) = "etw" /\ trace # "nil" THEN once' = "consumer" /\ UNCHANGED todo
       ELSE todo' = (IF closeErr' # closeErr THEN <<>> ELSE Front(todo)) /\ UNCHANGED once
    /\ UNCHANGED <<lost, calls, started, trace, traceErr, lostEvents, opener, queue, flushes, reading,
                   cause, watcher, outside>>

Undo ==
    /\ once = "undoing" /\ todo # <<>>
    /\ IF Last(todo) = "etw" THEN StopSession ELSE Stop(Last(todo))
    /\ IF Last(todo) = "etw" /\ trace # "nil" THEN once' = "consumer" /\ UNCHANGED todo
       ELSE todo' = Front(todo) /\ UNCHANGED once
    /\ UNCHANGED <<lost, calls, started, trace, traceErr, lostEvents, opener, queue, flushes, reading,
                   cause, watcher, outside>>

\* Mutant: the consumer is not waited for.
ConsumerNotAwaited ==
    /\ once = "consumer"
    /\ once' = "undoing"
    /\ todo' = Front(todo)
    /\ UNCHANGED <<closeErr, lost, calls, opener, etw, queue, flushes, reading, cause, watcher, outside>>

\* The consumer's Stop waits until the trace has ended, and may fail.
ConsumerStops ==
    /\ once = "consumer" /\ trace # "running"
    /\ once' = "undoing"
    /\ todo' = Front(todo)
    /\ \/ ~traceErr /\ UNCHANGED closeErr
       \/ closeErr' = closeErr \cup {"trace"}
    /\ UNCHANGED <<lost, calls, opener, etw, queue, flushes, reading, cause, watcher, outside>>

\* degraded, the last thing Close does.
Degraded ==
    /\ once = "undoing" /\ todo = <<>>
    /\ once' = "done"
    /\ lost' = [stale |-> staleErr, events |-> IF trace = "nil" THEN 0 ELSE lostEvents,
                dropped |-> dropped, flush |-> flushErr]
    /\ flushErr' = FALSE
    /\ UNCHANGED <<todo, closeErr, calls, flusher, flushFailed, opener, etw, queue, reading, cause,
                   watcher, outside>>

\* Every caller waits for the one that counts.
CloseReturns(c) ==
    /\ calls[c] = "calling" /\ once = "done"
    /\ calls' = [calls EXCEPT ![c] = "returned"]
    /\ reader' = IF c = "reader" THEN "over" ELSE reader
    /\ UNCHANGED <<once, todo, closeErr, lost, read, opener, etw, queue, flushes, cause, watcher, outside>>

-----------------------------------------------------------------------------

Nothing == [stale |-> FALSE, events |-> 0, dropped |-> 0, flush |-> FALSE]

Init ==
    /\ opening = "stale" /\ closers = <<>> /\ staleErr = FALSE
    /\ standing = {} /\ started = FALSE /\ trace = "nil" /\ traceErr = FALSE /\ lostEvents = 0
    /\ packets = <<>> /\ callback = "idle" /\ dropped = 0 /\ seen = 0 /\ late = 0
    /\ flusher = "off" /\ flushErr = FALSE /\ flushFailed = FALSE
    /\ once = "no" /\ todo = <<>> /\ closeErr = {} /\ lost = Nothing
    /\ calls = [c \in Callers |-> "idle"]
    /\ reader = "reading" /\ read = <<>>
    /\ cause = None /\ watcher = "off" /\ outside = FALSE

Next ==
    \/ Open
    \/ Event \/ FailEvent \/ Queue \/ LoseEvents \/ TraceEnds \/ OutsiderStops
    \/ Watch
    \/ Tick \/ Flush \/ FlusherEnds
    \/ ReadSegment \/ ReadEnd \/ StopReading
    \/ \E c \in Callers : CallClose(c) \/ CloseReturns(c)
    \/ BeginClose \/ Undo \/ ConsumerStops \/ Degraded

Spec == Init /\ [][Next]_vars

\* The scheduler runs every goroutine that can run, each in its turn: the opener, the callback, the
\* trace, the watcher, the flusher, the reader and who closes.  The ticker ticks, a trace that may end
\* does, and a select with two cases ready takes each of them some time.  Nobody has to stop reading,
\* to cancel the context, to send packets or to stop the session from outside.
Fairness ==
    /\ WF_vars(Open \/ CallClose("opener"))
    /\ WF_vars(FailEvent \/ Queue) /\ WF_vars(TraceEnds)
    /\ WF_vars(Watch)
    /\ WF_vars(Tick \/ Flush) /\ SF_vars(FlusherEnds)
    /\ WF_vars(ReadSegment \/ ReadEnd \/ CallClose("reader"))
    /\ \A c \in Callers : WF_vars(CloseReturns(c))
    /\ WF_vars(BeginClose \/ Undo \/ ConsumerStops \/ Degraded)

FairSpec == Spec /\ Fairness

-----------------------------------------------------------------------------
\* Properties.

Flags == {started, traceErr, flushErr, flushFailed, staleErr, outside} \subseteq BOOLEAN

Places ==
    /\ opening \in {"stale", "name", "enable", "start", "mkdir", "pktmon", "record", "open", "failing"}
    /\ standing \subseteq {"session", "log", "pktmon"}
    /\ trace \in {"nil", "made", "running", "ended"}
    /\ cause \in {None, "EOF", "event", "trace", "stopped"}
    /\ callback \in {"idle", "queueing", "failing"}
    /\ watcher \in {"off", "waiting", "over"}
    /\ flusher \in {"off", "waiting", "flushing", "over"}
    /\ once \in {"no", "undoing", "consumer", "done"}
    /\ closeErr \subseteq {"session", "trace", "log", "pktmon"}
    /\ calls \in [Callers -> {"idle", "calling", "returned"}]
    /\ reader \in {"reading", "leaving", "over"}

\* Every variable has its type, and the queue its capacity.
TypeOK == Flags /\ Places /\ Len(packets) <= QueueCap

\* Every packet that came is read, waits to be read, or is counted as dropped, and those that are
\* read come in order (event, queue, ReadSegment).
Kept == read \o packets

EveryPacketAccounted ==
    /\ seen = Len(Kept) + dropped + (IF callback = "queueing" THEN 1 ELSE 0)
    /\ \A i, j \in DOMAIN Kept : i < j => Kept[i] < Kept[j]

\* "Only the first call counts": whoever ends the capture later, from whatever goroutine, the reader
\* is told the first cause.
FirstCauseStands == [][cause # None => cause' = cause]_cause

\* The reader is told of a broken trace only when something outside stopped the session, never
\* because Close did (Close ends the capture before it undoes it; the comment on watch).
OnlyOutsidersBreak == cause \in {"trace", "stopped"} => outside

\* What the reader is told of the end is true and stays: the cause that came first, and a broken
\* trace only when it broke, whichever goroutines end the capture at once (end, ReadSegment).
CauseIsTrue == []OnlyOutsidersBreak /\ FirstCauseStands

\* When Close has returned, whatever OpenLive began, or had begun when it failed, is undone or is
\* reported as not undone.
UndoneOrReported == once = "done" => standing \subseteq closeErr

\* pktmon writes to its log until it is stopped: its directory goes after.
LogOutlivesPktmon == "pktmon" \in standing => "log" \in standing \/ "pktmon" \in closeErr

\* A capture, however far it came and however it ends, undoes all it began, in an order that never
\* takes away what still runs needs (OpenLive, onClose, Close).
LeavesNothingRunning == UndoneOrReported /\ LogOutlivesPktmon

\* What Close found lost is all there is: nothing is counted after it looked, so what Summary reports
\* is what the capture lost (Close stops the consumer before degraded).
LostIsFinal == once = "done" => lost.dropped = dropped /\ lost.events = lostEvents

\* "The failure comes within a read more than there are" (TestReadSegmentFailure): the callback, which
\* looks whether the capture has ended before it reads the event, queues at most one packet after.
OneComesLate == late <= 1

\* What is lost is known when the capture is closed, and hardly anything comes after its end (Close,
\* degraded, event).
LostIsAll == LostIsFinal /\ OneComesLate

\* "Lost reports what a closed capture lost without failing": it reports that frames may have run late
\* only when a flush failed while the capture went on, or something outside stopped the session.
LostOnlyWhatWasLost == once = "done" /\ lost.flush => flushFailed \/ outside

\* Each of the following conditions, once it holds, holds until what it waits for is there: that comes,
\* then, if again and again the condition does not hold or it is there.

\* A Close returns, whichever goroutine calls it, and however many do: the callback, the consumer, the
\* watcher and the reader never wait for one another in a ring.
EveryCloseReturns == []<>(\A c \in Callers : calls[c] # "calling")

\* A reader that waits on a capture that has lost its session or has ended is told, also when
\* packets wait to be read or it was opened too late to see the session stop.
ReaderIsTold == []<>(opening = "open" /\ (cause # None \/ "session" \notin standing) => reader # "reading")

\* No goroutine outlives a closed capture.
GoroutinesEnd == []<>(once = "done" => watcher \in {"off", "over"} /\ flusher \in {"off", "over"})

\* Whoever waits on the capture is let go: the reader when it has ended, and its own goroutines when
\* it is closed (watch, flush, ReadSegment).
WaitersAreLetGo == ReaderIsTold /\ GoroutinesEnd
=============================================================================
