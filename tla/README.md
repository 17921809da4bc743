# A TLA+ model of a2kit

a2kit reads a game's traffic: from a capture file, a log of frames it wrote earlier, or live from the
network. It reassembles TCP, cuts the streams into the game's frames, finds among all captured
connections the one that is the game's, parses the frames into messages, and hands them to a command
that prints, records, analyses or exports them. This directory models the parts of it whose
correctness depends on the order in which things happen, checks them with TLC on small instances, and
proves what matters most for every value of the constants with TLAPS.

Paths are relative to the repository; line numbers are those of the commit modelled.

## 1. The system

```
 live_windows.go ─┐                                       ┌─ conns.go   which connections there were
 live.go          ├─ Segments ─> wire.Decoder ─> Frames ──┼─ game/      messages ─> analyze.go, trace.go
 pcap.go, …       ┘   (Source)     │      ▲               └─ a2log/     logs, which can be read again
                                   ▼      │
                        reassembly ─> framer (one per direction)
```

| Part | State it keeps | Operations | What makes it correct |
|---|---|---|---|
| Reassembly of a direction (`wire/decoder.go` place, release, skip, acked, hold; `wire/stream.go`) | next sequence number, the SYN's, the held segments and their bytes | place a payload, heed an ACK, give up a gap, start over at a SYN, flush | Each byte reaches the framer once, in order, or is reported lost once; nothing held is lost; nothing is held for ever |
| Decoder: table and lock (`wire/decoder.go`) | streams by direction, the lock's server side, the stream looked up last, counts of closed streams and held segments, resync totals, the queue of frames | Feed, FeedSegment, Flush, Decode | While locked only the pair is read; pointers never outlive their stream; counts are true; the lock ends only for a cause; frames that waited are not lost |
| Framer, envelopes, varints (`wire/framer.go`, `scan.go`, `envelope.go`, `varint.go`) | bytes buffered, alignment, the search and what it refused, deferred stamps, the envelope's header and the bytes left of it | write, lose, end | The frames that arrived whole come out, once, in order, marked where bytes were lost; nothing else does; what was refused stays refused; there is room for the next byte |
| Live capture on Windows (`capture/live_windows.go`) | packet queue, the end and its cause, what to undo, drops | OpenLive, ReadSegment, Close, Lost; callback, watcher and flusher goroutines | The first cause of the end is the one read; everything begun is undone; no goroutine waits for ever |
| Stale ETW sessions (`capture/stale_windows.go`) | the system's trace sessions and processes | stopStale | A killed capture's session is stopped, a running one's never |
| Live capture with libpcap (`capture/live.go`), recorder (`capture/record.go`) | the handle, the pcap file | ReadSegment, Record, Close | What was recorded can be read again, up to the last packet written whole |
| pcap and pcapng readers (`capture/capture.go`, `pcap.go`, `pcapng.go`, `peel.go`) | reader position, byte order, interfaces, how many packets were cut short | ReadSegment | Every segment of the file is found as it was written, and how the file ended is told |
| Reader, Capture, Close (`a2kit.go`) | closers, counters, decoder | Messages, Summary, Close | Closing from the context's goroutine races reading |
| Connections ledger (`conns.go`) | a tally per connection, the one that is open on each pair of ports | tally, connections | Bytes counted once whatever was sent or logged twice; connections on the same ports told apart |
| Trace (`trace.go`) | the Casts under way, the tracks named | add, end | Each Cast written once, with its own end, on a named track |
| Analysis (`analyze.go`) | the segments that are sends, one server's messages | Analyze, Types, Actions | A retransmit is no act of the player; a message answers one action, and counts once under marks |
| Log (`a2log/log.go`), command (`cmd/a2k/`) | a line writer; signals, a timer, files and closers | write, close, capture, watch, record, show, export | What was printed was written; the header comes first; nothing is left open; every failure is told; a stop that is asked for comes |
| Game messages (`game/`) | the payload's reader and its first failure | Parse | No count makes room the payload cannot fill; an event is whole or its failure told |

How they interact: a `Source` hands segments to `Decoder.Decode`, a loop that feeds one segment and
then yields the frames the feeding queued. The decoder calls each stream's framer, the framer calls
back `emit`, `emit` may call `lock`, and `lock` drops other streams, all while a segment is still being
placed. Only a live capture brings goroutines: the ETW callback, a watcher, a flusher, the reader, whoever
calls Close, and the command's callbacks of its context.

### What is hard in it

- Segments come in any order, twice, cut anew, or never, with 32-bit numbers that wrap and capture
  times that may run backwards (the decoder sorts nothing).
- The callbacks make the decoder re-entrant: the stream a caller is holding may be dropped, lock the
  decoder, or be made anew under it.
- A lock ends in several ways (FIN or RST next in order, silence, a sweep, a SYN on the same ports)
  and another may be earned by the segment that ends it.
- The same key names different streams over time, and two pointers outlive single calls (`srv` and
  `last`).
- Counters stand for what a scan would find: `closing` and `held` gate whole code paths when 0.
- The live capture ends for several causes at once, on several goroutines.
- A frame, a bundle, an envelope's header and padding are told apart by their bytes alone, which come
  cut anywhere and with gaps; a search that failed goes on where it left off, with more bytes.
- Processes are killed, their numbers used again, and files end anywhere.
- The command closes half a dozen things in an order that matters, after any of its calls failed, while
  a signal, a timer and two callbacks run beside it.

`PROJECT.json` lists these as hazards, each at its line, with the properties that would catch it.

## 2. The modules

| Module | What it is |
|---|---|
| `SeqNum` | unsigned sequence arithmetic (`after` of `stream.go`) modulo `Mod` |
| `ByteStream` | abstract: one direction told of in order, each byte given or reported lost once |
| `Reassembly` | detailed: one direction of `FeedSegment`; implements `ByteStream` |
| `MCReassembly` | its instance |
| `ReassemblyProofs` | theorems about `Reassembly` and its refinement |
| `Induction` | induction and recursion over the naturals for the proofs, over sets and functions |
| `FlowLock` | abstract: at most one connection is the game's at any time |
| `Decoder` | detailed: the stream table, the lock, the frames that wait; implements `FlowLock` |
| `MCDecoder` | its instances |
| `DecoderProofs` | theorems about `Decoder`: its types, pair and pointers, its counts, its lock and its totals |
| `DecoderFlowProofs` | theorems about `Decoder`: the frames it brings, and its refinement |
| `LiveCapture` | the Windows capture: its goroutines, what they share, and `Capture` and `Close` of `a2kit.go` around it |
| `Sessions` | the ETW sessions and pktmon of a machine, as its captures start, stop and are killed |
| `CaptureProofs` | theorems about `LiveCapture` and about `Sessions` |
| `MCCaptures` | extends `LiveCapture` and `Sessions` with their constants |
| `Framing` | what the framer decides about bytes: varints, frames, bundles, envelopes |
| `Framer` | the framer, its searches and envelopes, on writes of any bytes |
| `FramerStreams` | `Framer` on a stream that a server sends, with what must come out of it |
| `Verdicts` | `Framing` asked again as bytes arrive |
| `MCFramer` | the instance of these |
| `Conns`, `Trace`, `Analysis` | the connections ledger, the trace and the analysis |
| `ReportsProofs` | theorems about `Conns`, `Trace` and `Analysis` |
| `MCReports` | extends the three, and instantiates `Analysis` again for what is asked of one |
| `Octets` | numbers in bytes, as `encoding/binary` has them |
| `Pcapng`, `Peel`, `Recording` | the pcapng reader; the layers under TCP; a capture through libpcap, its recorder and the classic reader |
| `GameParse` | `game.Parse`, its reader and every layout |
| `GameParseProofs` | theorems about `GameParse` |
| `MCFiles` | extends `GameParse` and instantiates the other three |
| `Command`, `MCCommand` | a command from its flags to its end, and its instance |
| `CommandProofs` | theorems about `Command` |

An MC module that instantiates several modules has one variable that says which of them a behaviour is
of (`given`; `seenFrom` in `MCCaptures`, `asked` in `MCDecoder`). These modules share nothing at run
time but what one hands the other as a value, a file or a message, so the sum of their behaviours says
what their product would, and one run finds every state of each; the variables of the others stand
still. Properties of one question are named parts of one property, each part with a comment of its own
where it is defined.

### Reassembly

A payload is the interval of the sender's bytes it carries: `from` and `len`. The code sees only the
sequence number, `iss + from` modulo `Mod`, and every decision of the model is taken on that number as
in the code; `from` travels along as what a perfect observer would know. `st` is the `stream` of the
table with its `next`, `syn`, `held` and `heldBytes`, and two histories: `pos`, the byte the framer is
at by counting what it was told, and `out`, what the step told it. The actions are the ways a segment
reaches the stream: `Data`, `Fin`, `Rst`, `Syn`, `Reconnect` (a SYN of a new connection on the same
ports), `Ack` (the other direction's acknowledgment) and `Flush`.

Assumed of the environment, because TCP gives it: the bytes in flight are fewer than half the sequence
space (`N + 1 < Mod \div 2`), and a new connection's SYN is captured before its other segments.
`FeedSegment` heeds an ACK only while the decoder's `held` is not 0; with one stream that is the
stream's own count, and giving up the gaps of an empty queue does nothing, so the guard shows only in
`Decoder`. What the framer does with bytes is behind `out`.

### Decoder

`d` is the `Decoder` as a record: its streams, `srv`, `last`, `closing`, `held`, `lockAt`, `locks`,
`pair`, the resync totals, and the queue. Every method is an operator that takes a decoder and returns
it changed, in the code's order of calls, so one segment is one step, as in the code: `FeedSegment` is
`sweep`, `admit`, the ACK, the lookup, the SYN, the payload, and `letGo`, in that order.

- `srv` and `last` are Go pointers. They are modelled as a key with the number of the stream made
  (`born`), so that a pointer to a dropped stream differs from one to a stream made again on its key.
- Reassembly and framer appear as an outcome `[frames, resyncs, held]` chosen nondeterministically:
  up to two frames, a resync or none, any number of segments left held that the call could leave.
  Whether a FIN is next in order is a choice as well. `Reassembly` models what is behind it.
- A frame has what `hunt` and `emit` look at: combat, known or other; resynced; of a trusted size.
  Payload and time are left out. `maxEarly` limits frames; the code limits their bytes as well, which
  with frames of one size is the same limit.
- `drop` of a set of streams is one operator: the order in which the code's map iteration drops them
  makes no difference to what is left.
- `Flush` is a step per stream, in the order they were made, because a lock taken on the way drops
  streams still to come. `Decode` takes every queued frame between two segments, so each step starts
  with an empty queue, and the queue after a step is what the step queued.

`Ordered`, `Ends`, `Controls`, `Configs` and `FrameKinds` choose what a run feeds the decoder.
`MaxBorn`, `MaxLocks`, `MaxBurst`, `MaxFrames`, `MaxResyncs` and `MaxPieces` bound what would grow
for ever: a step beyond them is not taken.

`FlowLock` says what the lock is for: frames marked with a direction are of one connection, found, let
go and forgotten. The mapping takes the game's connection to be that of the streams with a direction,
not the one `srv` points to: after `letGo` the last frames of the closed pair are still marked, and the
specification says until when. A connection may be forgotten in the step that queues its last frames.

A stream's resyncs are added to its side's total when it is dropped or unlocked. `letGo` does neither,
so the streams of a connection let go still count on the side they have. When `lock` then finds that
connection with its sides exchanged (`Turned`), what the old server side lost counts as the client's: a
side's number in `Stats` may fall there, and nowhere else, and the sum of both never does.

### LiveCapture

Six goroutines meet in one `Live`: the opener (`OpenLive`, then `Capture`'s recording), the consumer's
callback, `watch`, `flush`, the reader, which closes when it leaves, and the goroutine that closes when
the context is done. A step is what one of them does between two points at which another can see it:

- `event` looks whether the capture has ended, and then reads and queues: two steps, `Event` and
  `Queue` or `FailEvent`. `every` waits in its select (`Tick`, `FlusherEnds`) and then flushes (`Flush`).
- The select of `ReadSegment` has two cases, `ReadSegment` and `ReadEnd`, and either may be taken when
  both are ready. `end` is one step: `sync.Once` and the closing of `done`.
- `OpenLive` is one step per call that begins something; each may fail, and `opening` becomes
  `"failing"`, from where the opener closes. `closers` is the code's list, `standing` what in fact was
  begun and is not undone.
- `Close`: a caller calls (`CallClose`), one of them is the one `sync.Once` runs (`BeginClose`), which
  undoes one closer a step (`Undo`; `stopETW` takes two, since it waits in between: `ConsumerStops`),
  looks at what was lost (`Degraded`), and every caller returns after that (`CloseReturns`).

External, and modelled by how the code uses them: the ETW session (stands or not; anyone on the machine
may stop it: `OutsiderStops`), the consumer (runs until its session or it is stopped, `TraceEnds`;
counts lost events), pktmon and its log. A packet is its number. `seen`, `read`, `late`, `outside` and
`flushFailed` are histories.

### Sessions

All captures of a machine, each a process with a number and a creation time, and the names of their
sessions, which hold both. A start runs `traceSessions` (a list that grows until it fits: `ListMore`,
`List`), looks each name up (`Check`: `processAlive` by number and time), stops the dead ones' (`Stop`),
each a step between which the others start, run, close and are killed. A dead process whose handle
somebody holds keeps its number; otherwise the number is used again. pktmon is one for the machine.

### Framing, Framer, FramerStreams, Verdicts

`Framing` has the pure questions: `Uvarint`, `Pair`, whether a header is believable, each of a sequence
that may end before the answer is known. `Framer` is the state between two writes as a record `f`; a
write loops over its bytes in the code's order (`Pump`, a recursive function), `Lose` and `End` are the
other two entries. The width of a varint's byte, its length and every limit of the code are constants,
so that each is reached with few bytes. What LZ4 decompresses to is a constant function. `FramerStreams`
adds what the server sends, a sequence of pieces whose bytes and bodies are known, and which offsets
were lost, so that what came out can be compared with what was sent.

### Conns, Trace, Analysis

`Conns` has the two hosts as its environment: they send, repeat, close and reset, and of what they
send some is not captured and some is logged twice; the ledger sees only headers. `Trace` takes any
messages; at the end it writes the Casts it still has by their times, those of one time in any order, and
the entities' tracks by their numbers, as `slices.Sorted` does, the opcodes' in an order of its own.
`Analysis` reads segments through the tee and messages from the decoder, in any interleaving,
and then is asked for `Types` with marks and for `Actions`. Its capture times run back at most
`MaxBack <= BurstGap`: with a greater step back inside one action the next could begin before it, and
`Actions` would ask `between` for messages up to a time before the first, for which `analyze.go:165`
makes no provision. The model leaves that out by assumption.

### Octets, Pcapng, Peel, Recording

Files are sequences of bytes, in `Pcapng` and `Recording` of four bits (`Base` 16) so that 32-bit fields
are 16 bits wide and their limits are met; `Peel` has whole bytes, because the Ethernet types and the
nibbles of IP are what it is about. The program that writes is the environment: it dies in the middle
of a block or of a packet, or a byte of its file is altered. Then the code reads.

### GameParse

A payload is what its reads find: how many bytes are left and, of each field that the code looks at
again, one of the values it tells apart. A layout is the sequence of fields a message reads, which may
depend on what was read. A read is a step.

### Command

One step per call that the system may refuse, in the code's order; `closers` and `rclosers` are the
code's lists, `hooks` the callbacks of the context that are yet to run. `Signal`, `Timer`,
`StopCatching`, `Tell` and `CloseLive` run at any moment between. A message is public or names the
account (`game.Private`).

## 3. The runs

Two runs check liveness. The decoder is driven by its source and owes nothing when no segment comes.

- `live_capture_ends`: `FairSpec` is weakly fair to every step that a goroutine takes by itself: the Go
  scheduler runs what can run, the ticker ticks, a trace that may end ends, a call of pktmon or of
  Windows returns. It is strongly fair to `FlusherEnds` alone: while every flush works the flusher is
  at its select again and again, and Go's select takes a ready case at random, so it takes `done` some
  time. Nobody is obliged to stop reading, to cancel the context, to send packets or to stop the session.
- `command`: weakly fair to `Steps`, what the command does by itself, and to `Callbacks`, goroutines
  that the context starts. Messages, failures, signals and the timer owe nothing: a stop must come
  though no packet does.

| Run | What it shows | Bounds, and why they are enough |
|---|---|---|
| `reassembly` | the framer's position is true, the queue is in order and within its limits, nothing held is lost or forgotten or waits too long, an ACK gives up exactly what it covers, and `ByteStream` is implemented | 4 bytes, segments of 1 to 3, 16 sequence numbers: the numbers wrap at the third byte or (start 1) not at all, so each comparison meets both. Two held pieces and two held bytes reach each limit alone; times 0..2 with a wait of 2 reach both sides of the age limit, and run backwards. Two connections make one renewal |
| `decoder_lock` | what waits for the lock, in what order it leaves and what the lock keeps; `held` is true and a flush leaves nothing; resync totals never fall | one lock, three streams (a pair and a stranger), two early frames, lock at 2 known or 1 combat frames (the code's 3 and 2, each one less), every kind of frame that counts, resets or does not, three configurations; in the same run, one resync and a held piece per stream with a flush (`Held`); two frames at once from one stream, the lock among them (`Burst`); one connection let go and found again, also the other way round, with a resync (`Turn`); and both its sides waiting, where the ACK of one side releases a frame of the other's, the third of two that may wait, as its own payload earns the lock (`Both`). The capture ends, so the run does not check deadlock |
| `decoder_close` | the pair, pointers, `closing`, the cause of each end, directions, room in the table, `FlowLock` | two connections, one lock, three streams made, SYN, FIN, renewal, times 0..1 with `LockIdle` 0 and `closeGrace` 1, on both sides of each comparison, in any order; a table of three with four streams made (`Table`); one connection let go, renewed and found again, with ACKs that release what the other side holds (`Pair`); and one connection let go, the other found before it is forgotten (`Other`) |
| `live_capture` | from within: what is read and in which order, the first cause stands, what began is undone or reported, in which order, what is reported lost is final. From outside: no capture stops what others run, and the killed ones' sessions are stopped | a queue of one, two packets, one lost event, a recording, three closers: the queue is full with a packet more to come, every step of opening may fail with everything before it begun, any two ends may race. Three processes with two numbers, so that a number is used again while another capture starts; at most one of them another program's or not to be opened; lists that must grow once; a foreign session |
| `live_capture_ends` | every Close returns, a waiting reader is told, no goroutine is left | a queue of one and two packets, which is full while the callback has another; one lost event, a recording; flushes fail only where there is no session |
| `framer` | `FramesAreTheStreams`: what comes out is what arrived whole; `PlaceIsKept`: the next envelope is where the server put it, and there is room for another byte; `RefusalsStand`: a resumed search finds what a new one would, and a number has one varint | streams of five frames, one a bundle (nested flags, LZ4), and padding, in writes of 1 to 4 bytes and with up to two gaps of up to 3; five frames in envelopes, one envelope of two, with one gap; searches over 12 bytes of the pieces that make a false frame begin (`search`) or a false header (`headers`, up to 22, which fills the buffer); every string of four bytes of three-digit varints, and every string of six bytes of seven kinds |
| `reports` | `BytesAreTheHosts`, `FatesAreTold`: each byte and each SYN once, copies not, connections on the same ports apart; `TraceIsWhole`; `SessionIsWhole`, `AnswersCountOnce` | 8 sequence numbers that wrap after two bytes, either end the lower address, five packets; two uses of the ports, two SYNs, five packets; four messages of two actors and two skills at three times; three messages of every kind; three segments on two interfaces, each beginning up to two before or one after the furthest; two messages with three packets over four ticks, two to a second; two marks anywhere with windows that meet, nest and leave the session |
| `files` | `FileIsReadAsWritten`, `SegmentIsFound`, `RecordingIsRead`, `MessageIsWhole`, `FailureHoldsItsPlace` | three blocks after the section header, of every kind and both orders, cut at its start, middle and end, and two with one byte altered; packets of every link type with and without tags, options, fragments and padding, cut at every length; three packets by ten writers; every layout with lists of none and of five (more than its payload can hold when cut), a payload of up to 74 bytes (40 of a hit, which has the most forms) ending anywhere |
| `command` | `LogsAreWhole`, `NothingIsLeft`, `StopsWhenAsked` | watch, record, show and export with every flag that changes what is opened; one message, so that the header and a line may each fail; two signals, so that one comes when they are no longer caught |
| `reassembly_syn_zero` | finding 1 | as `reassembly`, and a connection that starts at 0 |
| `decoder_lockat` | finding 2 | times in order, held segments |
| `live_capture_lost` | finding 3 | a queue of one, one packet; flushes fail only where there is no session |

A capture, a file, a payload and a command end, and so do their runs: they do not check deadlock, and
`EveryCloseReturns` and `StopsWhenAsked` say of the ends what a deadlock check would.

The symmetry of the decoder runs exchanges the hosts of a connection and the two connections, that of
`live_capture` the processes; the models name none of them. It is used for safety properties alone.

Three bounds are where a property stops being true, and the run says so:

- In envelopes `FramesAreTheStreams` is of one gap. A second gap while a header is searched for makes
  `lose` drop what was kept for the search, frames that arrived whole with it; the code accepts that.
- In `Peel` the hardware addresses are those of which no packet *with* an Ethernet header reads as one
  without by chance. Packets filed as Ethernet without a header have addresses that read as a type or a tag.
- tee's comment (`analyze.go:393`) says it keeps the segments "that carry new bytes". One that fills a
  hole late carries new bytes and is not kept; `SessionIsWhole` says what is kept: those that reach
  past everything before them.

Every property has a mutant in `PROJECT.json`: a definition changed as a plausible bug would change the
code, which the run then finds. The mutants stand before the definitions they change.

## 4. Findings

1. **A SYN with sequence number 0xffffffff is taken for no SYN** (`wire/decoder.go:95`). The stream
   keeps the number after its SYN in `syn`, and 0 means none was seen. A new connection whose first
   byte has number 0 is compared with it, and where the old stream saw no SYN of its own it goes on as
   the old connection. Run `reassembly_syn_zero`. The chance is one in 2^32 per connection joined midway.
2. **`lockAt` is not always "the newest traffic on the lock"** (`wire/decoder.go:269`). A lock earned
   while an ACK of the client side releases the server's bytes takes the server stream's `last`, which
   is older than the segment being fed. Run `decoder_lockat`. It lets the lock lapse a little early,
   only until the pair's next segment.
3. **A flush that fails because of Close is reported as a loss** (`capture/live_windows.go:234`). Close
   does not wait for the flusher. A tick taken just before the end flushes a session that `stopETW` has
   stopped meanwhile; its error reaches `flushErr`, and if `degraded` looks after that, `Lost` says that
   frames may have run seconds late though every flush during the capture worked. Run `live_capture_lost`.

## 5. The theorems

`DecoderProofs` proves, of `Decoder!Spec`, for every set of keys, times, controls and frame kinds, and
every size, threshold and limit that `DecoderAssumption` allows:

| Theorem | Property |
|---|---|
| `TypeCorrect` | `TypeOK` |
| `LockHoldsPair` | `LockedOnPair`: while locked the table holds the server side and at most the client side |
| `PointersAreAlive` | `NoDanglingPointer`: `srv` and `last` point to streams of the table |
| `OnlyThePairHasDirections` | `DirectionsAreThePairs`: a stream with a direction is of the pair Stats names |

The assumptions are the shape of the constants: keys are finite, a key's reverse is another key, a
table holds at least three streams (the code's holds 64). They are evaluated by TLC in each run.

None of the three invariants besides `TypeOK` is inductive alone. A lock that is renewed drops its server and makes a
stream on the same key, and whether that stream may be a client depends on `srv` being nil by then,
which depends on `srv` being alive before; that a stream made while locked is of the pair depends on
`admit`, whose guard is on `srv`'s key; and directions that outlive a lock are those of `pair`, which
`lock` sets to the key it sets `srv` to. So `IInv` is their conjunction with `TypeOK`, with
`srv # Nil => srv.key = pair`, and with `phase = "reading" => flushing = {}`. Every method of the
decoder has a lemma: it takes a `Sound` decoder (typed and paired) to a sound one. Most do not touch
what the pairing is about (`Alike`), which is proved once (`AlikePaired`). The step lemma then has one
step per action and composes the methods' lemmas in the order in which the action composes the methods.

and then, from the same invariant with more:

| Theorem | Property |
|---|---|
| `TheTableIsKept` | `TableIsKept`: a full table has a hunting stream to drop, and `closing` is true to it |
| `NothingHeldIsLost` | `HeldToTheEnd`: `held` is the sum of what the streams hold, and a flush leaves nothing |
| `NoResyncIsForgotten` | `ResyncsNeverForgotten` |
| `TheLockIsKept` | `OnlyACauseEndsIt`: the lock and the directions under it end only for a cause |

`TInv` is `IInv` with the two counters (`Tallied`) and, for the flush, that the streams still to be
flushed hold whatever is held (`Flushed`). A sum is the cardinality of a set of pairs (`Things`), so that
the library's theorems of finite sets say how it changes when a stream is made, changed or dropped. That
a full table has a hunting stream (`SomeHunt`, `StalestHunts`) follows from the pair being at most two
of at least three. `LInv` is `IInv` with `Apt(d)`: no stream is younger than `born` says (`Young`), none
of the pair was heard from after the segment at hand (`NotAhead`), the lock's server is the pair's
(`ServerIsPair`), and the resync totals are sums that exist (`Summed`). An action property needs more
than an invariant in the middle of a step, so every method has, beside what it keeps, a relation between
the decoder it was given and the one it returns: it is `Calm` (leaves the lock as it is), `Loose` (lets
the lock's server go) or `Locked` (is `lock`), and these compose along the order of calls to `Kept`,
from the decoder the step began with. `letGo` is the one place where the lock goes without its server,
and its lemma gives the cause (`Ended`).

`DecoderFlowProofs` builds on these lemmas, under the same assumptions:

| Theorem | Property |
|---|---|
| `TheFramesAreKept` | `FramesAreKept`: frames wait only while hunting, leave in their order, and none is lost by the lock it waits for |
| `TheLockIsAFlow` | `ImplementsFlowLock`: every step is a step or a stutter of `FlowLock` |

Both speak of what one step queues, and a step may feed many frames, find a lock on the way, let it go,
and make streams anew. So the argument follows each frame. What waits on a stream are frames of its own, in
their order, numbered behind what it has emitted, and a stream has some only while it hunts (`WaitsWell`). What
is due of a stream in a step are the frames that waited on it when the step began and all that it has
found since (`Due`); and at any time in the step each of them is queued, still waits, gave way to
`maxEarly` younger ones or is a client's that nobody asked for (`Settled`, `Reached`). Each method keeps
this, in the order of calls: a hunting stream's frame waits (`WaitFlows`), another is queued or not asked for
(`SortFlows`), and the lock tells the pair its directions and queues what waited (`LockFlows`). The server
stream that takes the lock has found a frame that is not queued yet, for which one more may have
given way: that is the extra one in `LockKeepsWhatWaited`. At the end of the step everything due of a stream
with a direction is queued or gave way (`Delivered`), and closing, flushing and dropping take nothing back. All
that the step queues is of the connection of the segment at hand (`QueuedWell`), what has a direction only if
that connection is the pair, or was when the step began (`Speech`): that is `FlowLock`'s guard. Between
steps the invariant is `FInv`: `LInv`, that streams have numbers of their own (`BornApart`), `WaitsWell`,
and that what was queued may be and is in order.

`CaptureProofs` proves, of `LiveCapture!Spec`, every safety property that `live_capture` checks of
it, for every capacity of the queue, any number of packets and lost events, with and without a
recording, and whether flushes fail or not:

| Theorem | Property |
|---|---|
| `TypeCorrect` | `TypeOK` |
| `PacketsAccounted` | `EveryPacketAccounted` |
| `NothingIsLeftRunning` | `LeavesNothingRunning`, from `WhatBeganIsUndone` and `LogIsRemovedLast` |
| `LossesAreAll` | `LostIsAll`, from `LossesAreFinal` and `AtMostOneLate` |
| `CauseStaysTrue` | `CauseIsTrue`, from `OnlyOutsidersBreakIt` (Close's own stopping of the session never looks like a failure) and `FirstCauseIsKept` |

Its inductive invariant has a part for each question. `Opened` ties how far `OpenLive` came to the
length of `closers`, and says that nobody closes before it is through. `Undone` says that what stands is
registered, and from `BeginClose` on still in `todo` or reported; since things are begun and undone in
one order (`Staged`), a length says which. `Broken` is what makes `OnlyOutsidersBreak` inductive: while
no cause is set the session can only have gone by an outsider. `Final` says that the callback runs only
while the trace does, and that the trace is over once `stopETW` is off `todo`. `Accounted` adds that
packets are numbered as they come. Each part has a lemma with one step per action, and assumes only the
parts it needs.

`ReassemblyProofs` proves, of `Reassembly!Spec`, every property that `reassembly` checks, for streams of
any length, space of sequence numbers, limits and times that the module's assumptions allow:

| Theorem | Property |
|---|---|
| `BytesAreInPlace` | `QueueInPlace`: what the framer is told of is where it says, what waits is in order and within its limits |
| `GapsAreGivenUpInTime` | `NoneWaitsTooLong` |
| `NothingHeldIsLost` | `HeldIsKept` |
| `AcksGiveUpWhatTheyCover` | `AckGivesUpWhatItCovers` |
| `ReassemblyIsAByteStream` | `ImplementsByteStream`: every step is a step or a stutter of `ByteStream` |

Each has the hypothesis `0 \notin StartSeqs`: where a connection may start with number 0 the code takes
its SYN for none (finding 1) and the properties are false. The inductive invariant says that a position is true to the
bytes (`Sounds`), that nothing held is behind it (`Ahead`), that a piece fits between its neighbours
(`Fits`) and how old what waits may be (`Young`). A method's relation to what it was given (`Since`, `Past`)
says which bytes the framer was told of and which were given up. `release` and the limits are loops:
their lemmas go by the length of the queue, which each turn shortens (`LoopRuns`, `LoopEnds`). The window
lemma, that within half the space `After` is the order of positions, is the arithmetic below it.

`ReportsProofs` proves, of `Conns!Spec`, both of its properties, for any endpoints, any width of sequence
numbers, connections of any length within the window, ports used again any number of times, and
whatever of it was captured, lost or logged twice:

| Theorem | Property |
|---|---|
| `CountsAreTheHosts` | `BytesAreTheHosts`: Sent, Received and SYNs are what was captured, each once; who talked has not failed |
| `ConnectionsAreTold` | `FatesAreTold`: connections on the same ports are told apart, and each has become what it did |

The properties speak of every conn of the ledger, a step of the last. So the invariant has what a conn
and the history of what was captured of it share for good (`Told`), what the last conn has besides with
the connection the hosts are in (`Follows`: the edges stand where the captured bytes reach, which the
window lemma needs; `Complete`: all of it, if all of it was captured), and which conns a connection is
in (`Parted`). That a SYN captured first keeps its connection in one conn, for one, rests on a close in that
conn being a close of that connection, after which its hosts send no SYN: `Parted` has that, and
`InOrder` what the hosts do in which order. Whatever a host does is a packet said (`Said`), a packet is put
in a conn (`Takes`), and `CountsOn`, `CompletesOn`, `ToldOn` and `PartedOn` say what becomes of it. TLC
has checked the invariant on the instances of `reports`.

And of `Trace!TraceSpec`, for any messages, of however many entities, at any times:

| Theorem | Property |
|---|---|
| `TheTraceIsWhole` | `TraceIsWhole`: each Cast is written once, with the end that is its own, and every track that has an event or a name is named once and has a place of its own |

The invariant goes by what has come after a Cast of its actor and skill (`Following`). With nothing after
it a Cast waits: it is kept as the instant it was and not written (`WaitsFor`). The first message that
comes decides it, and from then on it has the one event that message made of it (`IsDecided`).
What is kept waits (`KeptAre`), so that a CastEnd cannot end another's Cast, and what is written or kept is on
a track that was opened (`OnTracks`). `AddFates` shows it of a message, `EndFates` of the end, which writes
what still waits; `TheRestIs` says where the names and places of the tracks then are.

And of `Analysis!AnalysisSpec`, for any servers and flows, segments of any size that are sent again or
overtake each other within the window, and messages at any times:

| Theorem | Property |
|---|---|
| `TheSessionIsWhole` | `SessionIsWhole`: what tee keeps are the sends and no retransmit, across the wrap; the analysis is of the flow of a server with the most messages, all of them by their times, with every send of the flow that answers it |

`IsNew` knows a segment's place only modulo `Mod`. What makes it right is that the furthest is where the flow
had reached (`FurthestAre`), so that within half the space the two numbers are as the two places are
(`PlacesAfter`, `NewIsPast`): the window is `AnalysisAssumption`'s and TCP's, not the code's. The packets
kept are a selection from all that were read, and one that grows at its end grows by one or not at all
(`ThoseGrow`). `Analyze` selects again, from the selection: `SentAre` counts both by a bijection. The flow it
picks has a server's message, because the greatest count is not zero when there is one (`PickedIs`), and
sorting keeps the messages and orders their times, since whatever is in a strict order has its places, each
one of its own (`AheadIs`, `ByTimeIs`).

Of `Sessions`, in `CaptureProofs`, and by `CommandProofs` and `GameParseProofs`:

| Theorem | Property |
|---|---|
| `TheKilledAreStopped` | `StaleAreStopped`: a session whose process was killed does not outlive the next capture, with any number of processes and a number used again |
| `TheRunningRunOn` | `OthersRunOn`: no capture stops a session whose process runs, or one that is not a2kit's |
| `LogsAndOutputAreWhole` | `LogsAreWhole`: what was written and when, whose failure is told |
| `NothingOfItIsLeft` | `NothingIsLeft`: files closed, a recording not finished removed, the handler put back |
| `StopIsAskedFor` | `ToldOnlyWhenAsked`, the safety half of `StopsWhenAsked`, for any number of messages, signals and failures |
| `MessagesAreWhole` | `MessageIsWhole`: no list is allocated that its payload does not back, no field read past it |
| `FailuresHoldTheirPlace` | `FailureHoldsItsPlace`: the error names the first field that could not be read |

For `Sessions` the invariant ties each session to the process that made it (`Created`), keeps what is of
the dead dead (`OfTheDead`), and says what the list that a capture goes through still has to reach
(`OnTheWay`). The two theorems and `MessagesAreWhole` take their module's assumptions about constants
(`SessionsAssumption`, `ParseAssumption`) as a hypothesis, because the module that checks them on a run
instantiates them with its own. For `Command` it is a conjunction of where the command is (`Order`), what
is on its two lists (`Held`, `Removed`), and what is on file (`Logged`, `Printed`, `Told`). `GameParse`'s
is how far the reader has come (`Parsing`).

Induction over data. The library's induction theorems take an operator, which no prover here can
instantiate. `Induction` states them of a set or of a function instead: a set of naturals has a least
(`LeastNatural`), one that has 0 and with every number the next has all (`EveryNatural`), a recursion
over the naturals has one function (`RecursionIsUnique`, `RecursionHolds`), and a fold of the community
modules is such a recursion. What is to be shown of every n is then that the set of those n for which
it holds is all of `Nat`. With it the loops of `Reassembly`, the folds of `Decoder` and the sums are proved.

Only model-checked:

- liveness and ENABLED, which are out of the provers' reach: `live_capture_ends`, and the half of
  `StopsWhenAsked` that says that a stop comes;
- `AnswersCountOnce`, which is about `Types` and `Actions`: folds over marks and packets, each step of
  which would need an invariant of what was folded before;
- `Framer` and `FramerStreams`, `Pcapng`, `Recording` and `Peel`.
  They are not out of reach but each needs, before a theorem, an invariant of a function over a file
  or a stream.

## 6. Not modelled, and what is left

`PROJECT.json` lists every component with its status.

- pktmon's adapters (`pktmon_windows.go`), libpcap's list of devices, `show`'s other reports (`stats`,
  `conns`, `timeline`, `lag`, `help`): parsing and formatting of what other parts compute; no state.
- Of the analysis, `Type`'s counts of payload bytes, the order of `Types`' rows, and `Summary`'s tally:
  each is one loop that adds up.
- The `Reader` of a log and how `openReader` tells a log from a recording: JSON's text.
- The opcode table and the fields that `game` only copies: data.
- TLS-like payloads, which the framer is told are lost; `Logger` and the slab of payload bytes.
- `internal/`: fixtures and scoring, not part of the program.

Theorems to come, in this order:

1. `AnswersCountOnce` of `Analysis`, with `Induction`'s folds, on `TheSessionIsWhole`.
2. `Framer`: that a resumed search finds what a new one would (`RefusalsStand`).
3. `Recording`, `Pcapng`: that a file is read as it was written, for files of any length.
4. `Peel`.
