------------------------------- MODULE Analysis -------------------------------
(***************************************************************************)
(* The analysis of src/analyze.go: a recording is read through a tee that  *)
(* notes what each flow sent, one server's messages are picked, and they   *)
(* are set against the moments the player acted.  Times are in ticks.      *)
(***************************************************************************)
EXTENDS Integers, SequencesExt, SeqNum

CONSTANTS
    Flows,          \* directions of connections: [src, dst, if]
    Servers,        \* the src whose messages are FromServer
    Recorded,       \* bound: the flows whose segments are looked at
    FirstSeqs,      \* the sequence number of a flow's first byte
    MaxBehind, MaxAhead,        \* bounds: bytes a segment begins before or after the furthest sent
    Sizes,          \* of segments
    Ops,            \* opcodes
    Ticks, MaxBack, \* capture times, and how far they run back
    MaxSegments, MaxRead,   \* bounds
    Second,         \* ticks of a second
    BurstGap,       \* burstGap: the silence that ends an action
    Asked           \* the marks and the window of a question: [marks, window]

ASSUME AnalysisAssumption ==
    /\ \A f \in Flows : f = [src |-> f.src, dst |-> f.dst, if |-> f.if]
    /\ Recorded \subseteq Flows /\ FirstSeqs \subseteq Seqs
    /\ Sizes \subseteq Nat \ {0} /\ Ticks \subseteq Nat
    /\ {MaxBehind, MaxAhead, MaxBack} \subseteq Nat
    /\ MaxBehind < Mod \div 2 /\ \A n \in Sizes : MaxAhead + n < Mod \div 2     \* TCP's window
    /\ MaxBack <= BurstGap
    /\ {Second, BurstGap} \subseteq Nat \ {0}

VARIABLES
    teed,           \* history: every segment read, with the place of its first byte
    isn,            \* the number of each flow's first byte
    furthest,       \* tee.ends: the end of the furthest segment of a flow
    segs,           \* tee.segs
    allRead,        \* Analyze's all: the messages read
    done,           \* "reading", "failed", "none" found or "read"
    analysis,       \* the Analysis
    asked           \* what is asked of it

analysisVars == <<teed, isn, furthest, segs, allRead, done, analysis, asked>>

-----------------------------------------------------------------------------
\* What Analyze makes of the segments and messages.

SecondOf(t) == t \div Second

SecondsOf(ps) == {SecondOf(ps[i].t) : i \in DOMAIN ps}

\* usualSizes: those sent in more than half the seconds anything was sent.
Usual(sent) ==
    LET InSeconds(n) == {SecondOf(sent[i].t) : i \in {j \in DOMAIN sent : sent[j].size = n}}
    IN {n \in {sent[i].size : i \in DOMAIN sent} :
            2 * Cardinality(InSeconds(n)) > Cardinality(SecondsOf(sent))}

\* The packets that are acts of the player.
Unusual(sent, usual) == SelectSeq(sent, LAMBDA p : p.size \notin usual)

\* ambient: what comes as often when the player does not act.
Ambient(messages, acting, first, last) ==
    LET quiet == SecondOf(last) - SecondOf(first) + 1 - Cardinality(acting)
        OfOp(op) == {i \in DOMAIN messages : messages[i].op = op}
        inActing(op) == Cardinality({i \in OfOp(op) : SecondOf(messages[i].t) \in acting})
        inQuiet(op) == Cardinality(OfOp(op)) - inActing(op)
    IN IF acting = {} THEN {}
       ELSE {op \in Ops : /\ inQuiet(op) > 0
                          /\ 2 * inQuiet(op) >= quiet
                          /\ 2 * inQuiet(op) * Cardinality(acting) >= inActing(op) * quiet}

\* The k-th of a set of numbers, and what xs has in the places S, in their order.
Nth(S, k) == CHOOSE i \in S : Cardinality({j \in S : j < i}) = k - 1
Those(xs, S) == [k \in 1 .. Cardinality(S) |-> xs[Nth(S, k)]]

\* ms by time, those of one time as they came.
ByTime(ms) ==
    LET Before(j, i) == ms[j].t < ms[i].t \/ (ms[j].t = ms[i].t /\ j < i)
    IN [k \in DOMAIN ms |->
           ms[CHOOSE i \in DOMAIN ms : Cardinality({j \in DOMAIN ms : Before(j, i)}) = k - 1]]

Least(S) == CHOOSE x \in S : \A y \in S : x <= y
Greatest(S) == CHOOSE x \in S : \A y \in S : x >= y

FromServer(f) == Cardinality({i \in DOMAIN allRead : allRead[i].flow = f /\ allRead[i].server})

\* The flow with the most messages of a server, the first of them.
Picked(ms) ==
    LET most == {i \in DOMAIN ms : \A j \in DOMAIN ms : FromServer(ms[j].flow) <= FromServer(ms[i].flow)}
    IN ms[Least(most)].flow

Back(f, g) == g = [src |-> f.dst, dst |-> f.src, if |-> f.if]

\* The Analysis of srv's messages and the packets that its client sent.
AnalysisOf(srv, sent, messages) ==
    LET times  == {sent[i].t : i \in DOMAIN sent} \cup {messages[i].t : i \in DOMAIN messages}
        acting == SecondsOf(Unusual(sent, Usual(sent)))
    IN [srv |-> srv, messages |-> messages, sent |-> sent, usual |-> Usual(sent),
        first |-> Least(times), last |-> Greatest(times),
        background |-> Ambient(messages, acting, Least(times), Greatest(times))]

-----------------------------------------------------------------------------
\* What is asked of it.

\* between: the messages from t0 up to t1, by binary search.
Between(t0, t1) ==
    LET Until(t) == Cardinality({i \in DOMAIN analysis.messages : analysis.messages[i].t < t})
    IN SubSeq(analysis.messages, Until(t0) + 1, Until(t1))

\* windows: those of the marks, by time, merged where they meet.
Windows(marks, w) ==
    FoldLeft(LAMBDA out, m :
        IF out # <<>> /\ m.t <= out[Len(out)].hi
        THEN [out EXCEPT ![Len(out)].hi = m.t + w]
        ELSE Append(out, [lo |-> m.t, hi |-> m.t + w]), <<>>, ByTime(marks))

Total(Of(_), xs) == FoldLeft(LAMBDA n, x : n + Of(x), 0, xs)

OfOp(op, ms) == Cardinality({i \in DOMAIN ms : ms[i].op = op})

\* What the windows cover of the session.
Covered(ws) ==
    LET Cover(w) == LET lo == Greatest({w.lo, analysis.first})
                        hi == Least({w.hi, analysis.last})
                    IN IF hi > lo THEN hi - lo ELSE 0
    IN Total(Cover, ws)

\* A row of Types.
TypeStat(op, marks, w) ==
    LET ws == Windows(marks, w)
        Followed(m) == IF OfOp(op, Between(m.t, m.t + w)) > 0 THEN 1 ELSE 0
        Inside(x) == OfOp(op, Between(x.lo, x.hi))
    IN [count |-> OfOp(op, analysis.messages), marks |-> Total(Followed, marks),
        within |-> Total(Inside, ws), idle |-> analysis.last - analysis.first - Covered(ws)]

\* The player's packets, parted where they pause.
Bursts(ps) ==
    FoldLeft(LAMBDA bs, p :
        IF bs # <<>> /\ p.t - bs[Len(bs)][Len(bs[Len(bs)])].t <= BurstGap
        THEN [bs EXCEPT ![Len(bs)] = Append(@, p)]
        ELSE Append(bs, <<p>>), <<>>, ps)

\* Mutant: what follows the next action is the answer of both.
AnsweredByWindow(bs, i, w) == bs[i][1].t + w

\* Until when a message answers the i-th action.
AnsweredUntil(bs, i, w) ==
    IF i < Len(bs) /\ bs[i + 1][1].t < bs[i][1].t + w THEN bs[i + 1][1].t ELSE bs[i][1].t + w

\* Actions: when the player acted, and the messages that answer.
Actions(w) ==
    LET bs == Bursts(Unusual(analysis.sent, analysis.usual))
    IN [i \in DOMAIN bs |->
           [at |-> bs[i][1].t, sent |-> bs[i],
            answered |-> SelectSeq(Between(bs[i][1].t, AnsweredUntil(bs, i, w)),
                                   LAMBDA m : m.op \notin analysis.background)]]

-----------------------------------------------------------------------------
NoAnalysis == [srv |-> "none"]

AnalysisInit ==
    /\ teed = <<>> /\ furthest = <<>> /\ segs = <<>> /\ allRead = <<>>
    /\ isn \in FirstSeqs
    /\ done = "reading" /\ analysis = NoAnalysis
    /\ asked \in Asked

Reach(f) == Greatest({0} \cup {teed[i].from + teed[i].n : i \in {j \in DOMAIN teed : teed[j].flow = f}})

\* Mutant: the numbers are compared as they are, wrapped or not.
IsNewUnwrapped(f, end) == f \notin DOMAIN furthest \/ end > furthest[f]

\* A segment that ends at end is no retransmit.
IsNew(f, end) == f \notin DOMAIN furthest \/ After(end, furthest[f])

Late(time, xs) == \E i \in DOMAIN xs : time < xs[i].t - MaxBack

\* tee.ReadSegment, for n bytes of f from the from-th on.
ReadSegment(f, from, n, time) ==
    LET end == Plus(isn, from + n)
    IN /\ done = "reading" /\ Len(teed) < MaxSegments /\ ~Late(time, teed)
       /\ teed' = Append(teed, [flow |-> f, from |-> from, n |-> n, t |-> time])
       /\ IF IsNew(f, end)
          THEN /\ furthest' = [g \in DOMAIN furthest \cup {f} |-> IF g = f THEN end ELSE furthest[g]]
               /\ segs' = Append(segs, [flow |-> f, t |-> time, size |-> n])
          ELSE UNCHANGED <<furthest, segs>>
       /\ UNCHANGED <<isn, allRead, done, analysis, asked>>

\* The decoder hands out a message.
ReadMessage(f, op, time) ==
    /\ done = "reading" /\ Len(allRead) < MaxRead /\ ~Late(time, allRead)
    /\ allRead' = Append(allRead, [flow |-> f, op |-> op, t |-> time, server |-> f.src \in Servers])
    /\ UNCHANGED <<teed, isn, furthest, segs, done, analysis, asked>>

\* The recording could not be read on.
Fail ==
    /\ done = "reading" /\ done' = "failed"
    /\ UNCHANGED <<teed, isn, furthest, segs, allRead, analysis, asked>>

\* Analyze, when all of the recording has been read.
Analyze ==
    /\ done = "reading"
    /\ IF \A i \in DOMAIN allRead : ~allRead[i].server
       THEN done' = "none" /\ UNCHANGED analysis
       ELSE LET srv == Picked(allRead)
            IN /\ done' = "read"
               /\ analysis' = AnalysisOf(srv, Those(segs, {i \in DOMAIN segs : Back(srv, segs[i].flow)}),
                                  ByTime(Those(allRead, {i \in DOMAIN allRead : allRead[i].flow = srv})))
    /\ UNCHANGED <<teed, isn, furthest, segs, allRead, asked>>

AnalysisNext ==
    \/ \E f \in Recorded, n \in Sizes, time \in Ticks :
           \E from \in Reach(f) - MaxBehind .. Reach(f) + MaxAhead :
               from >= 0 /\ ReadSegment(f, from, n, time)
    \/ \E f \in Flows, op \in Ops, time \in Ticks : ReadMessage(f, op, time)
    \/ Fail
    \/ Analyze

AnalysisSpec == AnalysisInit /\ [][AnalysisNext]_analysisVars

-----------------------------------------------------------------------------
\* Properties.

\* The analysis is of what was read.
AnalysisTypeOK ==
    /\ DOMAIN furthest \subseteq Flows /\ \A f \in DOMAIN furthest : furthest[f] \in Seqs
    /\ done = "read" <=> analysis # NoAnalysis
    /\ Len(segs) <= Len(teed)

\* The n-th segment reaches past all that its flow had sent.
ReachesPast(n) ==
    \A j \in 1 .. n - 1 : teed[j].flow = teed[n].flow =>
        teed[j].from + teed[j].n < teed[n].from + teed[n].n

\* A retransmit is not a send: what tee keeps are the segments that reach past all
\* the flow had sent, on each flow and across the wrap (ReadSegment).
KeptAreSends ==
    segs = Those([n \in DOMAIN teed |-> [flow |-> teed[n].flow, t |-> teed[n].t, size |-> teed[n].n]],
                 {n \in DOMAIN teed : ReachesPast(n)})

\* The analysis is of one server and the client it talked to, on one interface: all
\* the messages of the flow that had most, in the order of their times, and nothing
\* that was sent there falls outside the session (Analyze).
OfOneSession ==
    done = "read" =>
        /\ \A f \in Flows : FromServer(f) <= Len(analysis.messages)
        /\ \A i \in DOMAIN analysis.messages : analysis.messages[i].flow = analysis.srv /\ analysis.messages[i].server
        /\ \A i, j \in DOMAIN analysis.messages : i < j => analysis.messages[i].t <= analysis.messages[j].t
        /\ Len(analysis.sent) = Cardinality({n \in DOMAIN teed : /\ ReachesPast(n)
                                         /\ teed[n].flow.src = analysis.srv.dst /\ teed[n].flow.dst = analysis.srv.src
                                         /\ teed[n].flow.if = analysis.srv.if})
        /\ \A i \in DOMAIN analysis.sent : analysis.sent[i].t \in analysis.first .. analysis.last
        /\ \A i \in DOMAIN analysis.messages : analysis.messages[i].t \in analysis.first .. analysis.last

\* A message answers one action at most, the last before it, and each within the
\* window does; no two packets of different actions are closer than burstGap (Actions).
EachAnswersOne ==
    done = "read" =>
        LET acts == Actions(asked.window)
            acted == {i \in DOMAIN analysis.sent : analysis.sent[i].size \notin analysis.usual}
            Latest(m) == Greatest({0} \cup {k \in DOMAIN acts : acts[k].at <= m.t})
            Answer(k) == {i \in DOMAIN analysis.messages : LET m == analysis.messages[i] IN
                             /\ Latest(m) = k /\ m.t < acts[k].at + asked.window
                             /\ m.op \notin analysis.background}
        IN /\ \A k \in DOMAIN acts : \A op \in Ops :
                OfOp(op, acts[k].answered) = Cardinality({i \in Answer(k) : analysis.messages[i].op = op})
           /\ Cardinality(acted) = Total(LAMBDA x : Len(x.sent), acts)
           /\ \A i \in acted : (\A j \in acted : j < i => analysis.sent[i].t > analysis.sent[j].t + BurstGap)
                                  => \E k \in DOMAIN acts : acts[k].sent[1] = analysis.sent[i]

\* However the marks lie, a message within the window of several counts once, and the
\* idle time is that of the session outside all of them (Types, windows).
MarksCountOnce ==
    done = "read" => \A op \in Ops :
        LET row == TypeStat(op, asked.marks, asked.window)
            In(t, m) == m.t <= t /\ t < m.t + asked.window
            InAny(t) == \E k \in DOMAIN asked.marks : In(t, asked.marks[k])
            ofOp == {i \in DOMAIN analysis.messages : analysis.messages[i].op = op}
        IN /\ row.within = Cardinality({i \in ofOp : InAny(analysis.messages[i].t)})
           /\ row.marks = Cardinality({k \in DOMAIN asked.marks :
                                          \E i \in ofOp : In(analysis.messages[i].t, asked.marks[k])})
           /\ row.idle = Cardinality({t \in analysis.first .. analysis.last - 1 : ~InAny(t)})

\* The analysis is of one server's session, with the packets that its client sent, each once
\* (tee, Analyze).
SessionIsWhole == AnalysisTypeOK /\ KeptAreSends /\ OfOneSession
=============================================================================
