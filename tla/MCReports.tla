------------------------------ MODULE MCReports ------------------------------
(***************************************************************************)
(* What a2k reports of a recording: the connections of Conns, the trace of *)
(* Trace and the analysis of Analysis.  They share nothing but the         *)
(* recording, so a behaviour is of one of them, with the bounds that make  *)
(* its hard cases happen.                                                  *)
(***************************************************************************)
EXTENDS Conns, Trace, Analysis

VARIABLE given      \* "bytes", "reuse", "casts", "tracks", "tee", "actions" or "marks"

-----------------------------------------------------------------------------
\* Eight sequence numbers, and two endpoints either of which may have the lower address or port.  The
\* ports are used again between two of them, with the bounds of the cfg.
Host(addr, port) == [addr |-> addr, port |-> port]
LowHigh == <<Host(1, 2), Host(2, 1)>>
HighLow == <<Host(2, 1), Host(1, 2)>>
SameAddr == <<Host(1, 2), Host(1, 1)>>

MCEnds == {HighLow}
MCStartSeqs == {6}

Bytes == INSTANCE Conns WITH
    Ends <- {LowHigh, HighLow, SameAddr}, StartSeqs <- {1, 6}, N <- 2, MaxUses <- 1, MaxSyns <- 1

ASSUME Bytes!ConnsAssumption

-----------------------------------------------------------------------------
\* A run of Casts and their ends alone, with the bounds of the cfg, and one message of every kind.
Msg(k, x, o, s) == [kind |-> k, actor |-> x, other |-> o, skill |-> s, client |-> FALSE]

CastMessages ==
    {Msg(k, x, 0, 1) : k \in {"Cast", "CastEnd"}, x \in {1, 2}}
      \cup {Msg("Cast", 1, 0, 2), Msg("Hit", 1, 2, 0)}
KindMessages ==
    {Msg(k, 0, o, 0) : k \in {"Spawn", "Player", "Death", "Move"}, o \in {1, 2}}
      \cup {Msg("Kill", x, o, 0) : x \in {0, 1, 3}, o \in {1, 2}}
      \cup {Msg("Hit", 1, 2, 0), Msg("Hit", 1, 1, 0), Msg("Cast", 3, 0, 1), Msg("none", 0, 0, 0)}
      \cup {[Msg("none", 0, 0, 0) EXCEPT !.client = TRUE]}

Tracks == INSTANCE Trace WITH Messages <- KindMessages, Times <- {0}, MaxMessages <- 3

ASSUME Tracks!TraceAssumption

-----------------------------------------------------------------------------
\* A server and its client, and the two again on another interface.
Flow(s, d, i) == [src |-> s, dst |-> d, if |-> i]
Down == Flow("server", "client", 0)
Up   == Flow("client", "server", 0)
Ups   == {Up, Flow("client", "server", 1)}
Downs == {Down, Flow("server", "client", 1)}

\* What tee keeps, with the bounds of the cfg; acts of the player and what answers them; and marks.
TeeFlows == Ups \cup Downs
TeeAsked == {[marks |-> <<>>, window |-> 1]}

Acts == INSTANCE Analysis WITH
    FirstSeqs <- {0}, MaxBehind <- 0, MaxAhead <- 0, Sizes <- {1, 2}, MaxSegments <- 3,
    Flows <- {Up, Down}, Servers <- {"server"}, Recorded <- {Up}, Ops <- {1, 2}, MaxRead <- 2,
    Ticks <- 0 .. 3, MaxBack <- 1, Second <- 2, BurstGap <- 1,
    Asked <- {[marks |-> <<>>, window |-> 3]}
Moments(n) == {[i \in 1 .. n |-> [t |-> ts[i]]] : ts \in [1 .. n -> 0 .. 6]}
Marks == INSTANCE Analysis WITH
    FirstSeqs <- {0}, MaxBehind <- 0, MaxAhead <- 0, Sizes <- {1}, MaxSegments <- 1,
    Flows <- {Up, Down}, Servers <- {"server"}, Recorded <- {Up}, Ops <- {1, 2}, MaxRead <- 2,
    Ticks <- 1 .. 4, MaxBack <- 1, Second <- 2, BurstGap <- 1,
    Asked <- {[marks |-> ms, window |-> w] : ms \in UNION {Moments(n) : n \in 1 .. 2}, w \in {2}}

ASSUME Acts!AnalysisAssumption /\ Marks!AnalysisAssumption

-----------------------------------------------------------------------------
NoConns ==
    /\ ends = 0 /\ use = 0 /\ open = <<>> /\ conns = <<>> /\ seen = <<>>
    /\ marks = [locked |-> {}, worlds |-> {}]
NoTrace ==
    /\ added = <<>> /\ ops = {} /\ entities = <<>> /\ named = {} /\ casts = <<>> /\ out = <<>>
    /\ ended = FALSE
NoSession ==
    /\ teed = <<>> /\ isn = 0 /\ furthest = <<>> /\ segs = <<>> /\ allRead = <<>>
    /\ done = "reading" /\ analysis = NoAnalysis /\ asked = 0

MCInit ==
    \/ given = "bytes" /\ Bytes!Init /\ NoTrace /\ NoSession
    \/ given = "reuse" /\ Init /\ NoTrace /\ NoSession
    \/ given = "casts" /\ TraceInit /\ NoConns /\ NoSession
    \/ given = "tracks" /\ Tracks!TraceInit /\ NoConns /\ NoSession
    \/ given = "tee" /\ AnalysisInit /\ NoConns /\ NoTrace
    \/ given = "actions" /\ Acts!AnalysisInit /\ NoConns /\ NoTrace
    \/ given = "marks" /\ Marks!AnalysisInit /\ NoConns /\ NoTrace

MCNext ==
    /\ UNCHANGED given
    /\ \/ given = "bytes" /\ Bytes!Next /\ UNCHANGED <<traceVars, analysisVars>>
       \/ given = "reuse" /\ Next /\ UNCHANGED <<traceVars, analysisVars>>
       \/ given = "casts" /\ TraceNext /\ UNCHANGED <<vars, analysisVars>>
       \/ given = "tracks" /\ Tracks!TraceNext /\ UNCHANGED <<vars, analysisVars>>
       \/ given = "tee" /\ AnalysisNext /\ UNCHANGED <<vars, traceVars>>
       \/ given = "actions" /\ Acts!AnalysisNext /\ UNCHANGED <<vars, traceVars>>
       \/ given = "marks" /\ Marks!AnalysisNext /\ UNCHANGED <<vars, traceVars>>

MCSpec == MCInit /\ [][MCNext]_<<given, vars, traceVars, analysisVars>>

-----------------------------------------------------------------------------
\* A message is the answer of one action at most, and is counted once by the marks
\* (Actions, Types).
AnswersCountOnce ==
    /\ given = "actions" => Acts!EachAnswersOne
    /\ given = "marks" => Marks!MarksCountOnce
=============================================================================
