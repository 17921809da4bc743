-------------------------------- MODULE Command --------------------------------
(***************************************************************************)
(* A command of a2k from its flags to its end: src/cmd/a2k/options.go,     *)
(* show.go, record.go, export.go and print.go, over the Reader of          *)
(* src/a2kit.go and the log of src/a2log/log.go.  A live capture is        *)
(* stopped by a signal or a timer, whose callbacks run beside the command. *)
(* Any call to the system may fail.                                        *)
(***************************************************************************)
EXTENDS Integers, Sequences, FiniteSets

CONSTANTS
    Commands,           \* the commands: kind and what its flags ask for
    MaxMessages,        \* bound: messages of a source
    MaxAsked            \* bound: signals

Files == {"source", "pcap", "out", "log"}

ASSUME CommandAssumption ==
    /\ MaxMessages \in Nat /\ MaxAsked \in Nat
    /\ \A c \in Commands : /\ c.kind \in {"watch", "record", "show", "export"}
                           /\ c.log \in {"no", "file", "stdout"} /\ c.out \in {"file", "stdout", "source"}
                           /\ {c.pcap, c.timed, c.stream, c.account} \subseteq BOOLEAN
                           /\ c.kind \in {"show", "export"} => c.log = "no" /\ ~c.pcap /\ ~c.timed

VARIABLES
    cmd,                \* the command
    at,                 \* where it is
    file,               \* each file: "absent", "open", "closed", "removed"
    live,               \* the capture: "no", "open", "closed"
    ctx, caught,        \* the context: "no", "live", "done", "expired"; whether signals are caught
    over, hooks,        \* capture's over; the callbacks of ctx that are yet to run
    asked, told,        \* history: how many signals came; whether a stop was told of
    closers, rclosers,  \* what is to be closed by o.close, and by Reader.Close
    begun,              \* a2log.Writer.begun
    logged, printed,    \* what is in the log, and in the output's file
    buffer,             \* what the output holds back
    given,              \* history: the messages of the source
    recorded,           \* history: packets written to the recording
    failed, err,        \* history: the calls that failed; the errors of the command, joined
    late                \* history: whether a file was written to that was not open

process == <<asked, ctx, caught, over, hooks, told>>

logs == <<begun, logged>>

vars == <<cmd, at, file, live, process, closers, rclosers, logs, printed, buffer, given, recorded, failed, err, late>>

Live == cmd.kind \in {"watch", "record"}

-----------------------------------------------------------------------------
\* Calls that may fail, with what they do when they do not.

\* A call fails, and its error is joined to the command's.
Fails(call) == failed' = failed \cup {call} /\ err' = err \cup {call}

Succeeds == UNCHANGED <<failed, err>>

\* The call that closes a file.
Closing == [source |-> "closeSource", pcap |-> "closePcap", logFile |-> "closeLog"]

\* Mutant: the files are closed before what is to be written to them at the end.
OpenedLogBackwards == <<"logFile", "log">>

\* openLog: what is to close a log in a file, in order.
OpenedLog == <<"log", "logFile">>

\* What is to undo the context: over, cancel and stop, of one closer.
Context == <<"over", "cancel", "stop">>

-----------------------------------------------------------------------------
\* options.capture and Capture

Goes(place) == at' = place

Begin ==
    /\ at = "begin" /\ Live /\ ctx' = "live" /\ caught' = TRUE /\ hooks' = {"tell"} /\ closers' = Context
    /\ Goes(IF cmd.pcap THEN "pcap" ELSE "capture")
    /\ UNCHANGED <<cmd, file, live, asked, over, told, rclosers, logs, printed, buffer, given, recorded, failed, err, late>>

CreatePcap ==
    /\ at = "pcap"
    /\ \/ Succeeds /\ Goes("capture") /\ file' = [file EXCEPT !.pcap = "open"] /\ closers' = Append(closers, "pcap")
       \/ Fails("pcap") /\ Goes("close") /\ UNCHANGED <<file, closers>>
    /\ UNCHANGED <<cmd, live, process, rclosers, logs, printed, buffer, given, recorded, late>>

\* OpenLive, and Record: the header of the recording.
OpenLive ==
    /\ at = "capture"
    /\ \/ Succeeds /\ Goes("hook") /\ live' = "open" /\ recorded' = IF cmd.pcap THEN 1 ELSE 0
       \/ Fails("start") /\ Goes("undo") /\ UNCHANGED <<live, recorded>>
       \/ cmd.pcap /\ Fails("record") /\ Goes("undo") /\ live' = "closed" /\ UNCHANGED recorded
    /\ UNCHANGED <<cmd, file, process, closers, rclosers, logs, printed, buffer, given, late>>

\* Mutant: Close is not called when the context ends.
HookUnregistered ==
    /\ at = "hook" /\ Goes("out") /\ rclosers' = <<"unhook", "live">>
    /\ UNCHANGED <<cmd, file, live, process, closers, logs, printed, buffer, given, recorded, failed, err, late>>

\* context.AfterFunc, and the Reader.
Hook ==
    /\ at = "hook" /\ Goes("out") /\ hooks' = hooks \cup {"close"} /\ rclosers' = <<"unhook", "live">>
    /\ UNCHANGED <<cmd, file, live, asked, ctx, caught, over, told, closers, logs, printed, buffer, given, recorded, failed, err, late>>

\* options.open: a Reader closes the file it opened, the command a bare stream.
OpenSource ==
    /\ at = "begin" /\ ~Live
    /\ \/ /\ Succeeds /\ Goes("out") /\ file' = [file EXCEPT !.source = "open"]
          /\ IF cmd.stream THEN closers' = <<"source">> /\ rclosers' = <<>> ELSE rclosers' = <<"source">> /\ closers' = <<>>
       \/ Fails("source") /\ Goes("done") /\ UNCHANGED <<file, closers, rclosers>>
    /\ UNCHANGED <<cmd, live, process, logs, printed, buffer, given, recorded, late>>

-----------------------------------------------------------------------------
\* openOutput and openLog

\* Mutant: without an output, what is open stays open but for the command's own.
OpenOutputAlone ==
    /\ at = "out"
    /\ \/ cmd.kind = "record" /\ Succeeds /\ Goes("log") /\ UNCHANGED file
       \/ cmd.kind # "record" /\ cmd.out \in {"file", "stdout"} /\ Succeeds /\ Goes("log") /\ file' = [file EXCEPT !.out = "open"]
       \/ cmd.kind # "record" /\ cmd.out \in {"file", "source"} /\ Fails("out") /\ Goes("close") /\ UNCHANGED file
    /\ UNCHANGED <<cmd, live, process, closers, rclosers, logs, printed, buffer, given, recorded, late>>

\* openOutput: one that is the source is refused, before it is emptied.
OpenOutput ==
    /\ at = "out"
    /\ \/ cmd.kind = "record" /\ Succeeds /\ Goes("log") /\ UNCHANGED file
       \/ cmd.kind # "record" /\ cmd.out \in {"file", "stdout"} /\ Succeeds /\ Goes("log") /\ file' = [file EXCEPT !.out = "open"]
       \/ cmd.kind # "record" /\ cmd.out \in {"file", "source"} /\ Fails("out") /\ Goes("reader") /\ UNCHANGED file
    /\ UNCHANGED <<cmd, live, process, closers, rclosers, logs, printed, buffer, given, recorded, late>>

OpenLog ==
    /\ at = "log"
    /\ \/ cmd.log = "no" /\ Succeeds /\ Goes("messages") /\ UNCHANGED <<file, closers>>
       \/ cmd.log # "no" /\ Succeeds /\ Goes("messages") /\ file' = [file EXCEPT !.log = "open"]
          /\ closers' = closers \o IF cmd.log = "file" THEN OpenedLog ELSE <<"log">>
       \/ cmd.log = "file" /\ Fails("log") /\ Goes("reader") /\ UNCHANGED <<file, closers>>
    /\ UNCHANGED <<cmd, live, process, rclosers, logs, printed, buffer, given, recorded, late>>

-----------------------------------------------------------------------------
\* The loop over Reader.Messages.

\* Whether the command writes a log, and to which of its files.
Logs == cmd.log # "no" \/ cmd.kind = "export"

LogFile == IF cmd.kind = "export" THEN "out" ELSE "log"

\* private: what names the account is left out of what is shared.
Shared(m) == cmd.account \/ m # "private"

\* A message is read: its packet is recorded before.
Read(m) ==
    /\ at = "messages" /\ Len(given) < MaxMessages
    /\ given' = Append(given, m)
    /\ recorded' = IF cmd.pcap /\ live = "open" THEN recorded + 1 ELSE recorded
    /\ late' = (late \/ (cmd.pcap /\ live = "open" /\ file.pcap # "open"))

\* a2log.Writer.Write of m, whole: the header first, once.
Lines(m) == IF ~Logs \/ ~Shared(m) THEN <<>> ELSE IF begun THEN <<m>> ELSE <<"header", m>>

\* What is printed of m, which goes on at once if the capture is live.
Prints(m) ==
    IF cmd.kind \in {"record", "export"} THEN UNCHANGED <<printed, buffer>>
    ELSE IF Live THEN printed' = printed \o buffer \o <<m>> /\ buffer' = <<>>
    ELSE printed' = printed /\ buffer' = Append(buffer, m)

Message(m) ==
    /\ Read(m) /\ Goes("messages") /\ Succeeds
    /\ logged' = logged \o Lines(m) /\ begun' = (begun \/ Lines(m) # <<>>)
    /\ Prints(m)
    /\ UNCHANGED <<cmd, file, live, process, closers, rclosers>>

\* A write to the log fails, at its header or after it, or one to the output of a capture.
MessageFails(m, n) ==
    /\ Read(m) /\ Goes("reader")
    /\ \/ /\ n < Len(Lines(m)) /\ Fails("logWrite") /\ logged' = logged \o SubSeq(Lines(m), 1, n)
          /\ begun' = (begun \/ n > 0)
       \/ /\ n = Len(Lines(m)) /\ cmd.kind = "watch" /\ Fails("print") /\ logged' = logged \o Lines(m)
          /\ begun' = (begun \/ Lines(m) # <<>>)
    /\ UNCHANGED <<cmd, file, live, process, closers, rclosers, printed, buffer>>

\* The source fails, or the recording of a packet.
SourceFails ==
    /\ at = "messages" /\ Goes("reader") /\ Fails("read")
    /\ UNCHANGED <<cmd, file, live, process, closers, rclosers, logs, printed, buffer, given, recorded, late>>

\* a2log.Writer.Close: an empty log's header.
CloseLog ==
    IF begun THEN UNCHANGED <<logs, failed, err, late>>
    ELSE /\ begun' = TRUE
         /\ \/ Succeeds /\ logged' = Append(logged, "header") /\ late' = (late \/ file[LogFile] # "open")
            \/ Fails("logClose") /\ UNCHANGED <<logged, late>>

\* The source ends: a capture once it is closed.
SourceEnds ==
    /\ at = "messages" /\ (Live => live = "closed") /\ Goes("reader")
    /\ IF cmd.kind = "export" THEN CloseLog ELSE UNCHANGED <<logs, failed, err, late>>
    /\ UNCHANGED <<cmd, file, live, process, closers, rclosers, printed, buffer, given, recorded>>

-----------------------------------------------------------------------------
\* finish

\* Reader.Close, one closer.
CloseReader ==
    /\ at = "reader" /\ rclosers # <<>> /\ rclosers' = Tail(rclosers)
    /\ LET c == Head(rclosers) IN
       /\ hooks' = IF c = "unhook" THEN hooks \ {"close"} ELSE hooks
       /\ live' = IF c = "live" THEN "closed" ELSE live
       /\ file' = IF c = "source" THEN [file EXCEPT !.source = "closed"] ELSE file
       /\ Succeeds \/ (c # "unhook" /\ Fails(c))
    /\ UNCHANGED <<cmd, at, asked, ctx, caught, over, told, closers, logs, printed, buffer, given, recorded, late>>

\* output.Close
CloseOutput ==
    /\ at = "reader" /\ rclosers = <<>> /\ Goes("close")
    /\ IF file.out # "open" THEN UNCHANGED <<file, printed, buffer, failed, err>>
       ELSE /\ file' = [file EXCEPT !.out = "closed"] /\ buffer' = <<>>
            /\ \/ Succeeds /\ printed' = printed \o buffer
               \/ Fails("flush") /\ UNCHANGED printed
    /\ UNCHANGED <<cmd, live, process, closers, rclosers, logs, given, recorded, late>>

\* options.close, one closer; of a start that failed, the recording goes last.
Close ==
    /\ at \in {"close", "undo"} /\ closers # <<>> /\ closers' = Tail(closers)
    /\ LET c == Head(closers)
           closes == IF c = "logFile" THEN "log" ELSE c IN
       /\ over' = (over \/ c = "over")
       /\ ctx' = IF c = "cancel" /\ ctx = "live" THEN "done" ELSE ctx
       /\ caught' = (caught /\ c # "stop")
       /\ file' = IF closes \in Files /\ c # "log" THEN [file EXCEPT ![closes] = "closed"] ELSE file
       /\ IF c = "log" THEN CloseLog
          ELSE (Succeeds \/ (closes \in Files /\ Fails(Closing[c]))) /\ UNCHANGED <<logs, late>>
    /\ UNCHANGED <<cmd, at, live, hooks, asked, told, rclosers, printed, buffer, given, recorded>>

Closed ==
    /\ at \in {"close", "undo"} /\ closers = <<>> /\ Goes("done")
    /\ file' = IF at = "undo" /\ cmd.pcap THEN [file EXCEPT !.pcap = "removed"] ELSE file
    /\ UNCHANGED <<cmd, live, process, closers, rclosers, logs, printed, buffer, given, recorded, failed, err, late>>

-----------------------------------------------------------------------------
\* Beside the command.

\* Ctrl-C or SIGTERM: the context ends, or, once they are no longer caught, the process.
Signal ==
    /\ Live /\ at \notin {"begin", "done", "killed"} /\ asked < MaxAsked /\ asked' = asked + 1
    /\ IF caught THEN ctx' = (IF ctx = "live" THEN "done" ELSE ctx) /\ UNCHANGED at ELSE Goes("killed") /\ UNCHANGED ctx
    /\ UNCHANGED <<cmd, file, live, caught, over, hooks, told, closers, rclosers, logs, printed, buffer, given, recorded, failed, err, late>>

\* -for
Timer ==
    /\ cmd.timed /\ ctx = "live" /\ at \notin {"done", "killed"} /\ ctx' = "expired"
    /\ UNCHANGED <<cmd, at, file, live, asked, caught, over, hooks, told, closers, rclosers, logs, printed, buffer, given, recorded, failed, err, late>>

Expired == ctx \in {"done", "expired"}

\* The callback of capture, in its two steps: stop, and what it tells of.
StopCatching ==
    /\ at # "killed" /\ Expired /\ "tell" \in hooks
    /\ caught' = FALSE /\ hooks' = (hooks \ {"tell"}) \cup {"telling"}
    /\ UNCHANGED <<cmd, at, file, live, asked, ctx, over, told, closers, rclosers, logs, printed, buffer, given, recorded, failed, err, late>>

Tell ==
    /\ at # "killed" /\ "telling" \in hooks /\ hooks' = hooks \ {"telling"}
    /\ told' = (told \/ ~over)
    /\ UNCHANGED <<cmd, at, file, live, asked, ctx, caught, over, closers, rclosers, logs, printed, buffer, given, recorded, failed, err, late>>

\* The callback of Capture.
CloseLive ==
    /\ at # "killed" /\ Expired /\ "close" \in hooks /\ hooks' = hooks \ {"close"} /\ live' = "closed"
    /\ UNCHANGED <<cmd, at, file, asked, ctx, caught, over, told, closers, rclosers, logs, printed, buffer, given, recorded, failed, err, late>>

-----------------------------------------------------------------------------
Init ==
    /\ cmd \in Commands /\ at = "begin" /\ file = [f \in Files |-> "absent"] /\ live = "no"
    /\ ctx = "no" /\ caught = FALSE /\ over = FALSE /\ hooks = {} /\ asked = 0 /\ told = FALSE
    /\ closers = <<>> /\ rclosers = <<>> /\ begun = FALSE /\ logged = <<>> /\ printed = <<>> /\ buffer = <<>>
    /\ given = <<>> /\ recorded = 0 /\ failed = {} /\ err = {} /\ late = FALSE

Messages == \E m \in {"public", "private"} : Message(m) \/ \E n \in 0 .. 2 : MessageFails(m, n)

\* What the command does by itself.
Steps ==
    \/ Begin \/ CreatePcap \/ OpenLive \/ Hook \/ OpenSource \/ OpenOutput \/ OpenLog
    \/ SourceEnds \/ CloseReader \/ CloseOutput \/ Close \/ Closed

Callbacks == StopCatching \/ Tell \/ CloseLive

Next == Steps \/ Messages \/ SourceFails \/ Callbacks \/ Signal \/ Timer

\* The command and its callbacks are goroutines that run; messages need not come.
Spec == Init /\ [][Next]_vars /\ WF_vars(Steps) /\ WF_vars(Callbacks)

-----------------------------------------------------------------------------
\* Properties.

\* What of s is in S, in order.
Filter(s, S) ==
    LET kept[n \in Nat] == IF n = 0 THEN <<>> ELSE IF s[n] \in S THEN Append(kept[n - 1], s[n]) ELSE kept[n - 1]
    IN kept[Len(s)]

Filtered == Filter(given, {m \in {"public", "private"} : Shared(m)})

\* The recording begins with a capture; nothing is printed but what was read.
TypeOK ==
    /\ recorded <= Len(given) + 1 /\ (recorded > 0 => cmd.pcap)
    /\ Len(printed) + Len(buffer) <= Len(given)
    /\ hooks \subseteq {"tell", "telling", "close"} /\ (caught => ctx # "no")

\* A log that is not in error is one header, also when it is empty, and every message but
\* those that name the account; and the output holds every message (openLog, Writer).
LogAndOutputAreWhole ==
    at = "done" /\ err = {} =>
        /\ Logs => logged = <<"header">> \o Filtered
        /\ cmd.kind \in {"watch", "show"} => printed = given

\* Also of a command that fails, the log is a log: nothing comes before its header, and it
\* has one unless a write to it failed, or it is an export's.
LogHasItsHeader ==
    /\ \A i \in 1 .. Len(logged) : logged[i] = "header" <=> i = 1
    /\ at = "done" /\ file.log # "absent" /\ failed \cap {"logWrite", "logClose"} = {} => logged # <<>>

\* Nothing is written to a file before it is opened or once it is closed: the log's header
\* before its file closes, the packets before the recording does (options.closers).
WrittenWhileOpen == ~late

\* When the command ends, whichever step failed, what it opened is closed, the capture too,
\* signals are the system's again, and nobody waits to close it once more.
NothingLeftOpen ==
    at = "done" =>
        /\ \A f \in Files : file[f] # "open" \/ (f = "log" /\ cmd.log = "stdout")
        /\ live # "open" /\ ~caught /\ "close" \notin hooks

\* A recording is removed just when the capture it was for did not start, and not before it
\* is closed (capture).
RemovedIfNothingIsInIt ==
    /\ file.pcap = "removed" => recorded = 0 /\ failed \cap {"start", "record"} # {}
    /\ at = "done" /\ failed \cap {"start", "record"} # {} => file.pcap \in {"absent", "removed"}

\* Every failure is among the errors the command ends with (finish, Reader.Close, close).
EveryFailureIsTold == at = "done" => err = failed

StopAsked == asked > 0 \/ ctx = "expired"

\* The command says it stops the capture only when it was asked to (capture's over).
ToldOnlyWhenAsked == told => StopAsked

\* A capture that is asked to stop ends, though no packet comes, wherever it was asked.
StopEnds == StopAsked ~> at \in {"done", "killed"}

\* The log and the output are whole, and nothing is written to them but while they are open.
LogsAreWhole == TypeOK /\ LogAndOutputAreWhole /\ LogHasItsHeader /\ WrittenWhileOpen

\* However a command ends, nothing of it is left, and it says what went wrong.
NothingIsLeft == NothingLeftOpen /\ RemovedIfNothingIsInIt /\ EveryFailureIsTold

\* A capture stops when it is asked to, and says so only then.
StopsWhenAsked == []ToldOnlyWhenAsked /\ StopEnds
================================================================================
