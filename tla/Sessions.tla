-------------------------------- MODULE Sessions --------------------------------
(***************************************************************************)
(* The ETW sessions of all captures of a machine, src/capture/             *)
(* stale_windows.go with the start and Close of live_windows.go: each      *)
(* capture is a process, which names its session for itself, and first     *)
(* stops the sessions of captures that were killed.  pktmon is one for the *)
(* whole machine.  Processes are external: they end at any time, and their *)
(* numbers are used again.                                                 *)
(***************************************************************************)
EXTENDS Naturals, FiniteSets

CONSTANTS
    Procs,          \* the processes there ever are
    Pids,           \* process numbers
    Foreign,        \* sessions of other programs
    FirstSize,      \* maxSessions of traceSessions, 64
    MayFail         \* whether listing and stopping sessions may fail

\* What the constants are taken to be.
SessionsAssumption ==
    /\ Pids \subseteq Nat \ {0} /\ FirstSize \in Nat \ {0} /\ MayFail \in BOOLEAN
    /\ \A s \in Foreign : s.pid = 0

VARIABLES
    proc,           \* each process: its kind, number, creation time, where it is
    held,           \* the dead processes something has a handle of
    sessions,       \* the running sessions: the number and time in their names
    pktmon,         \* the process that started pktmon, a set
    clock,
    size,           \* maxSessions, by process
    listed, doomed, \* the names it has yet to look up, and to stop
    failed,         \* whether staleErr is an error
    due             \* history: the sessions it has to find and stop

sessionsVars == <<proc, held, sessions, pktmon, clock, size, listed, doomed, failed, due>>

scan == <<size, listed, doomed, failed, due>>

-----------------------------------------------------------------------------
\* Processes.

Unborn == [capture |-> FALSE, denied |-> FALSE, pid |-> 0, created |-> 0, at |-> "unborn"]

Dead == {i \in Procs : proc[i].at \in {"dead", "odd"}}

Running == {i \in Procs : proc[i].at # "unborn"} \ Dead

\* The process an OpenProcess of pid would open.
Holders(pid) == {i \in Running \cup held : proc[i].pid = pid}

\* sessionName
Name(i) == [pid |-> proc[i].pid, created |-> proc[i].created]

\* The process a session's name names.
Owner(s) == {i \in Procs : proc[i].at # "unborn" /\ Name(i) = s /\ proc[i].capture}

\* A process is created, with a number that is free.  It may be one that others may
\* not open.
Create(i, capture, denied, pid) ==
    /\ proc[i].at = "unborn" /\ Holders(pid) = {}
    /\ proc' = [proc EXCEPT ![i] = [capture |-> capture, denied |-> denied, pid |-> pid, created |-> clock,
                                    at |-> IF capture THEN "list" ELSE "running"]]
    /\ clock' = clock + 1
    /\ due' = [due EXCEPT ![i] = {s \in sessions : Owner(s) # {} /\ Owner(s) \subseteq Dead}]
    /\ UNCHANGED <<held, sessions, pktmon, size, listed, doomed, failed>>

\* A process is killed: its session stays.  Something may have a handle of it, and its
\* exit code may be the one of a process that runs.
Kill(i, handle, odd) ==
    /\ i \in Running /\ (odd => handle)
    /\ proc' = [proc EXCEPT ![i].at = IF odd THEN "odd" ELSE "dead"]
    /\ held' = IF handle THEN held \cup {i} ELSE held
    /\ listed' = [listed EXCEPT ![i] = {}] /\ doomed' = [doomed EXCEPT ![i] = {}]
    /\ due' = [due EXCEPT ![i] = {}] /\ size' = [size EXCEPT ![i] = FirstSize]
    /\ failed' = [failed EXCEPT ![i] = FALSE]
    /\ UNCHANGED <<sessions, pktmon, clock>>

\* The last handle of a dead process is closed.
Release(i) ==
    /\ i \in held /\ held' = held \ {i}
    /\ UNCHANGED <<proc, sessions, pktmon, clock, scan>>

\* Another program begins or stops a session of its own.
Other(s) ==
    /\ sessions' = IF s \in sessions THEN sessions \ {s} ELSE sessions \cup {s}
    /\ UNCHANGED <<proc, held, pktmon, clock, scan>>

-----------------------------------------------------------------------------
\* stopStale.

\* Mutant: the creation time is not compared.
ProcessAliveByPid(s) == \E i \in Holders(s.pid) : proc[i].denied \/ proc[i].at # "dead"

\* Mutant: a process that may not be opened is taken for dead.
ProcessAliveIfOpened(s) ==
    \E i \in Holders(s.pid) : ~proc[i].denied /\ proc[i].at # "dead" /\ proc[i].created = s.created

\* processAlive: no process has the number, or the one that has it was not created then.
\* One that may not be opened is taken for alive.
ProcessAlive(s) ==
    \E i \in Holders(s.pid) : proc[i].denied \/ (proc[i].at # "dead" /\ proc[i].created = s.created)

\* Whether a dead process cannot be known to be: one that may not be opened has its
\* number, or its exit code is the one of a process that runs.
Hidden(s) == \E i \in Holders(s.pid) : proc[i].denied \/ proc[i].at = "odd"

\* parseSessionName
Ours(s) == s.pid > 0

Goes(i, at) == proc' = [proc EXCEPT ![i].at = at]

\* traceSessions: QueryAllTraces has more names than there is room for, or all of them.
ListMore(i) ==
    /\ proc[i].at = "list" /\ Cardinality(sessions) > size[i]
    /\ size' = [size EXCEPT ![i] = Cardinality(sessions)]
    /\ UNCHANGED <<proc, held, sessions, pktmon, clock, listed, doomed, failed, due>>

List(i) ==
    /\ proc[i].at = "list" /\ Cardinality(sessions) <= size[i]
    /\ Goes(i, "check")
    /\ listed' = [listed EXCEPT ![i] = sessions] /\ size' = [size EXCEPT ![i] = FirstSize]
    /\ UNCHANGED <<held, sessions, pktmon, clock, doomed, failed, due>>

ListFails(i) ==
    /\ MayFail /\ proc[i].at = "list" /\ Goes(i, "begin")
    /\ failed' = [failed EXCEPT ![i] = TRUE]
    /\ UNCHANGED <<held, sessions, pktmon, clock, size, listed, doomed, due>>

\* stale, for one name.
Check(i, s) ==
    /\ proc[i].at = "check" /\ s \in listed[i]
    /\ listed' = [listed EXCEPT ![i] = @ \ {s}]
    /\ doomed' = [doomed EXCEPT ![i] = IF Ours(s) /\ ~ProcessAlive(s) THEN @ \cup {s} ELSE @]
    /\ due' = [due EXCEPT ![i] = IF Hidden(s) THEN @ \ {s} ELSE @]
    /\ UNCHANGED <<proc, held, sessions, pktmon, clock, size, failed>>

Checked(i) ==
    /\ proc[i].at = "check" /\ listed[i] = {} /\ Goes(i, "stop")
    /\ UNCHANGED <<held, sessions, pktmon, clock, scan>>

\* ControlTrace of one: it stops, or was stopped since it was listed.
StopOne(i, s) ==
    /\ proc[i].at = "stop" /\ s \in doomed[i]
    /\ sessions' = sessions \ {s}
    /\ doomed' = [doomed EXCEPT ![i] = @ \ {s}]
    /\ UNCHANGED <<proc, held, pktmon, clock, size, listed, failed, due>>

StopOneFails(i, s) ==
    /\ MayFail /\ proc[i].at = "stop" /\ s \in doomed[i]
    /\ doomed' = [doomed EXCEPT ![i] = @ \ {s}]
    /\ failed' = [failed EXCEPT ![i] = TRUE]
    /\ UNCHANGED <<proc, held, sessions, pktmon, clock, size, listed, due>>

Stopped(i) ==
    /\ proc[i].at = "stop" /\ doomed[i] = {} /\ Goes(i, "begin")
    /\ UNCHANGED <<held, sessions, pktmon, clock, scan>>

-----------------------------------------------------------------------------
\* The rest of start, and Close.

BeginSession(i) ==
    /\ proc[i].at = "begin" /\ sessions' = sessions \cup {Name(i)} /\ Goes(i, "pktmon")
    /\ due' = [due EXCEPT ![i] = {}]
    /\ UNCHANGED <<held, pktmon, clock, size, listed, doomed, failed>>

\* pktmon start fails while pktmon runs: only the session is to be undone.
RunPktmonFails(i) ==
    /\ proc[i].at = "pktmon" /\ pktmon # {} /\ Goes(i, "close")
    /\ UNCHANGED <<held, sessions, pktmon, clock, scan>>

RunPktmon(i) ==
    /\ proc[i].at = "pktmon" /\ pktmon = {} /\ pktmon' = {i} /\ Goes(i, "open")
    /\ UNCHANGED <<held, sessions, clock, scan>>

\* Close: pktmon is stopped, if it was started, then the session.
StopPktmon(i) ==
    /\ proc[i].at = "open" /\ pktmon' = {} /\ Goes(i, "close")
    /\ UNCHANGED <<held, sessions, clock, scan>>

StopETW(i) ==
    /\ proc[i].at = "close" /\ sessions' = sessions \ {Name(i)} /\ Goes(i, "closed")
    /\ UNCHANGED <<held, pktmon, clock, scan>>

\* The message of a failed start tells the user to stop pktmon when no capture runs it.
UserStopsPktmon ==
    /\ pktmon # {} /\ pktmon \subseteq Dead /\ pktmon' = {}
    /\ UNCHANGED <<proc, held, sessions, clock, scan>>

-----------------------------------------------------------------------------
SessionsInit ==
    /\ proc = [i \in Procs |-> Unborn] /\ held = {} /\ pktmon = {} /\ clock = 1
    /\ sessions \in SUBSET Foreign
    /\ size = [i \in Procs |-> FirstSize] /\ failed = [i \in Procs |-> FALSE]
    /\ listed = [i \in Procs |-> {}] /\ doomed = listed /\ due = listed

Step(i) ==
    \/ ListMore(i) \/ List(i) \/ ListFails(i)
    \/ \E s \in listed[i] : Check(i, s)
    \/ Checked(i)
    \/ \E s \in doomed[i] : StopOne(i, s) \/ StopOneFails(i, s)
    \/ Stopped(i) \/ BeginSession(i) \/ RunPktmon(i) \/ RunPktmonFails(i) \/ StopPktmon(i) \/ StopETW(i)

SessionsNext ==
    \/ \E i \in Procs : Step(i)
    \/ \E i \in Procs, capture, denied \in BOOLEAN, pid \in Pids : Create(i, capture, denied, pid)
    \/ \E i \in Procs, handle, odd \in BOOLEAN : Kill(i, handle, odd)
    \/ \E i \in Procs : Release(i)
    \/ \E s \in Foreign : Other(s)
    \/ UserStopsPktmon

SessionsSpec == SessionsInit /\ [][SessionsNext]_sessionsVars

-----------------------------------------------------------------------------
\* Properties.

\* What a process is to look up and stop is of sessions with a number in their name,
\* and what it will stop is of the dead.
SessionsTypeOK ==
    /\ held \subseteq Dead /\ clock \in Nat
    /\ \A i, j \in pktmon : i = j
    /\ \A i \in Procs :
        /\ proc[i].pid \in Pids \cup {0} /\ failed[i] \in BOOLEAN
        /\ doomed[i] # {} => proc[i].at \in {"check", "stop"}
        /\ \A s \in doomed[i] : s \notin Foreign /\ Owner(s) \subseteq Dead \cup {j \in Procs : proc[j].at = "closed"}

\* A capture stops no session but its own and those of processes that are gone: never
\* another program's, nor that of a capture which runs (stale, processAlive).
OnlyTheDeadAreStopped ==
    [][\A s \in sessions \ sessions' :
          \/ s \in Foreign /\ proc' = proc /\ listed' = listed /\ doomed' = doomed
          \/ Owner(s) \subseteq Dead
          \/ \E i \in Owner(s) : proc[i].at = "close" /\ proc'[i].at = "closed"]_sessionsVars

\* Once a capture has stopped the stale sessions without an error, none stands that was
\* killed before it began, though its number may be in use again (processAlive).
KilledAreStopped ==
    \A i \in Running : proc[i].at = "begin" /\ ~failed[i] => due[i] \cap sessions = {}

\* A capture that could not start pktmon never stops it: it is another's (start, onClose).
PktmonStoppedByItsOwn ==
    [][\A i \in pktmon \ pktmon' :
          \/ i \in Dead
          \/ proc[i].at = "open" /\ proc'[i].at = "close"]_sessionsVars

\* What a capture finds running of others it lets run, however many start, stop and are killed at
\* once: their sessions, and pktmon (stopStale, start, onClose).
OthersRunOn == OnlyTheDeadAreStopped /\ PktmonStoppedByItsOwn

\* The types hold, and what was killed is stopped by whoever looked for it without an error.
StaleAreStopped == SessionsTypeOK /\ KilledAreStopped
=============================================================================
