--------------------------- MODULE CommandProofs ---------------------------
(***************************************************************************)
(* A command of a2k, for every set of flags, any number of messages and of *)
(* signals, and whichever call fails: what it writes, what it closes, and  *)
(* what it tells.                                                          *)
(*                                                                         *)
(* Whatever is open is open because a closer of it is still to come, and   *)
(* the closers stand in the order they go by: that is the argument, for    *)
(* the files, the capture, the signals and the log's header alike.         *)
(***************************************************************************)
EXTENDS Command, SequenceTheorems, Induction, TLAPS

Kinds == {"public", "private"}

\* Until it ends, for whatever reason, or was told to: nothing failed so far.
Starting == {"begin", "pcap", "capture", "hook", "out", "log"}
Going == Starting \cup {"messages"}
Places == Going \cup {"reader", "close", "undo", "done", "killed"}

Closers == {"over", "cancel", "stop", "pcap", "source", "log", "logFile"}

\* The order they go by.
Rank == [over |-> 1, cancel |-> 2, stop |-> 3, pcap |-> 4, source |-> 4, log |-> 5, logFile |-> 6]

Ranked(s) ==
    /\ s \in Seq(Closers)
    /\ \A i, j \in 1 .. Len(s) : i < j => Rank[s[i]] < Rank[s[j]]

ReaderClosers == {<<>>, <<"unhook", "live">>, <<"live">>, <<"source">>}

\* What is still to be closed, and by Reader.Close.
Elems(s) == {s[i] : i \in 1 .. Len(s)}
Left == Elems(closers)
RLeft == Elems(rclosers)

Types ==
    /\ cmd \in Commands /\ at \in Places
    /\ file \in [Files -> {"absent", "open", "closed", "removed"}] /\ live \in {"no", "open", "closed"}
    /\ ctx \in {"no", "live", "done", "expired"} /\ hooks \subseteq {"tell", "telling", "close"}
    /\ {caught, over, told, begun, late} \subseteq BOOLEAN
    /\ asked \in Nat /\ recorded \in Nat
    /\ given \in Seq(Kinds) /\ logged \in Seq(Kinds \cup {"header"})
    /\ printed \in Seq(Kinds) /\ buffer \in Seq(Kinds)

\* The errors are the failures, and while the command goes on there are none.
Faults == err = failed /\ (at \in Going => failed = {})

\* The closers of a place.
Order ==
    /\ Ranked(closers)
    /\ at \in {"begin", "done"} => closers = <<>>
    /\ at = "pcap" => \A c \in Left : Rank[c] <= 3
    /\ at \in Starting => \A c \in Left : Rank[c] <= 4
    /\ rclosers \in ReaderClosers
    /\ at \in {"begin", "pcap", "capture", "hook", "undo", "close", "done"} => rclosers = <<>>

\* What is open is yet to be closed.
Held ==
    /\ file.source = "open" => "source" \in Left \cup RLeft
    /\ file.pcap = "open" => "pcap" \in Left
    /\ file.out = "open" => at \in {"log", "messages", "reader", "killed"}
    /\ file.log = "open" => cmd.log = "stdout" \/ "logFile" \in Left
    /\ live = "open" => at \in {"hook", "killed"} \/ "live" \in RLeft
    /\ caught => "stop" \in Left
    /\ "close" \in hooks => "unhook" \in RLeft
    /\ caught => ctx # "no"

\* What a place needs is open.
Ready ==
    /\ at = "pcap" \/ "pcap" \in Left => cmd.pcap
    /\ ~cmd.pcap => file.pcap = "absent" /\ recorded = 0
    /\ cmd.pcap /\ at \in {"capture", "hook", "out", "log", "messages"} => file.pcap = "open"
    /\ at \in {"log", "messages"} /\ cmd.kind # "record" => file.out = "open"
    /\ at = "reader" /\ failed = {} /\ cmd.kind # "record" => file.out = "open"
    /\ at \in Starting => file.log = "absent"
    /\ cmd.log # "no" /\ failed = {} /\ at \in {"messages", "reader", "close", "done"} => file.log # "absent"
    /\ cmd.log = "no" => file.log = "absent"
    /\ "log" \in Left => file.log = "open"
    /\ "logFile" \in Left => cmd.log = "file" /\ file.log = "open"
    /\ ~late

\* A recording without a packet is of a capture that did not start.
Removed ==
    /\ at \in {"begin", "pcap", "capture", "undo"} => recorded = 0
    /\ at = "undo" => failed \cap {"start", "record"} # {}
    /\ failed \cap {"start", "record"} # {} => at \in {"undo", "done", "killed"}
    /\ at = "done" /\ failed \cap {"start", "record"} # {} => file.pcap \in {"absent", "removed"}
    /\ file.pcap = "removed" => at = "done" /\ recorded = 0 /\ failed \cap {"start", "record"} # {}

\* What the log holds.
Logged ==
    /\ ~begun => logged = <<>>
    /\ begun => logged # <<>> \/ "logClose" \in failed
    /\ \A i \in 1 .. Len(logged) : logged[i] = "header" <=> i = 1
    /\ file.log # "absent" => begun \/ "log" \in Left
    /\ cmd.kind = "export" /\ failed = {} /\ at \in {"reader", "close", "done"} => begun
    /\ Logs /\ failed = {} => IF begun THEN logged = <<"header">> \o Filtered ELSE Filtered = <<>>

\* What the output holds, and what it holds back.
Printed ==
    /\ Len(printed) + Len(buffer) <= Len(given) /\ recorded <= Len(given) + 1
    /\ cmd.kind \in {"watch", "show"} /\ failed = {} => printed \o buffer = given
    /\ cmd.kind \in {"record", "export"} => printed = <<>> /\ buffer = <<>>
    /\ at \in {"close", "done"} /\ failed = {} => buffer = <<>>

\* What was told of, or is about to be.
Told ==
    /\ told => StopAsked
    /\ "telling" \in hooks => StopAsked \/ over
    /\ ctx = "done" => asked > 0 \/ over
    /\ at = "begin" => ctx = "no"
    /\ "cancel" \in Left => over \/ "over" \in Left

IInv == Types /\ Faults /\ Order /\ Held /\ Ready /\ Removed /\ Logged /\ Printed /\ Told

-----------------------------------------------------------------------------
\* Filter is what its recursion says.
LEMMA FilterRecurs ==
    ASSUME NEW s, NEW S
    PROVE  \E kept \in [Nat -> Seq({s[n] : n \in Nat})] :
              /\ kept[0] = <<>>
              /\ \A n \in Nat \ {0} : kept[n] = IF s[n] \in S THEN Append(kept[n - 1], s[n]) ELSE kept[n - 1]
              /\ Filter(s, S) = kept[Len(s)]
<1> DEFINE V == Seq({s[n] : n \in Nat})
           step == [n \in Nat |-> [v \in V |-> IF s[n] \in S THEN Append(v, s[n]) ELSE v]]
           F == CHOOSE kept : kept = [n \in Nat |-> IF n = 0 THEN <<>>
                                       ELSE IF s[n] \in S THEN Append(kept[n - 1], s[n]) ELSE kept[n - 1]]
<1>1. \A n \in Nat, v \in V : Append(v, s[n]) \in V
  BY AppendProperties
<1>2. step \in [Nat -> [V -> V]]
  <2> HIDE DEF V
  <2> QED BY <1>1
<1>3. <<>> \in V OBVIOUS
<1> DEFINE f == Recursion(V, <<>>, step)
<1>4. f \in [Nat -> V] /\ f[0] = <<>> /\ \A n \in Nat \ {0} : f[n] = step[n][f[n - 1]]
  <2> HIDE DEF V, step
  <2> QED BY <1>2, <1>3, RecursionHolds
<1> HIDE DEF f
<1>5. \A n \in Nat \ {0} : f[n] = IF s[n] \in S THEN Append(f[n - 1], s[n]) ELSE f[n - 1]
  <2>1. TAKE n \in Nat \ {0}
  <2>2. n - 1 \in Nat /\ f[n - 1] \in V BY <1>4
  <2> HIDE DEF V
  <2> QED BY <1>4, <2>2
<1> HIDE DEF V
<1>6. f = [n \in Nat |-> IF n = 0 THEN <<>> ELSE IF s[n] \in S THEN Append(f[n - 1], s[n]) ELSE f[n - 1]]
  BY <1>4, <1>5
<1>7. F = [n \in Nat |-> IF n = 0 THEN <<>> ELSE IF s[n] \in S THEN Append(F[n - 1], s[n]) ELSE F[n - 1]]
  BY <1>6
<1>8. Filter(s, S) = F[Len(s)] BY DEF Filter
<1> HIDE DEF F
<1>9. /\ F[0] = <<>>
      /\ \A n \in Nat \ {0} : F[n] = IF s[n] \in S THEN Append(F[n - 1], s[n]) ELSE F[n - 1]
  BY <1>7
<1>10. F \in [Nat -> V]
  <2> DEFINE In == {n \in Nat : F[n] \in V}
  <2>1. 0 \in In BY <1>3, <1>9
  <2>2. ASSUME NEW n \in Nat, n \in In PROVE n + 1 \in In
    <3>1. n + 1 \in Nat \ {0} /\ (n + 1) - 1 = n OBVIOUS
    <3>2. F[n + 1] = IF s[n + 1] \in S THEN Append(F[n], s[n + 1]) ELSE F[n] BY <1>9, <3>1
    <3>3. Append(F[n], s[n + 1]) \in V BY <1>1, <2>2
    <3> QED BY <2>2, <3>1, <3>2, <3>3
  <2>3. Nat \subseteq In
    <3> HIDE DEF In
    <3> QED BY <2>1, <2>2, EveryNatural
  <2> QED BY <1>7, <2>3
<1> QED BY <1>8, <1>9, <1>10 DEF V

\* What is appended to a sequence is appended to what is kept of it, if it is.
LEMMA FilterAppend ==
    ASSUME NEW M, NEW s \in Seq(M), NEW m \in M, NEW S
    PROVE  Filter(Append(s, m), S) = IF m \in S THEN Append(Filter(s, S), m) ELSE Filter(s, S)
<1>0. SUFFICES ASSUME NEW t, t = Append(s, m)
               PROVE  Filter(t, S) = IF m \in S THEN Append(Filter(s, S), m) ELSE Filter(s, S)
  OBVIOUS
<1>1. PICK f : /\ f[0] = <<>> /\ Filter(s, S) = f[Len(s)]
               /\ \A n \in Nat \ {0} : f[n] = IF s[n] \in S THEN Append(f[n - 1], s[n]) ELSE f[n - 1]
  BY FilterRecurs
<1>2. PICK g : /\ g[0] = <<>> /\ Filter(t, S) = g[Len(t)]
               /\ \A n \in Nat \ {0} : g[n] = IF t[n] \in S THEN Append(g[n - 1], t[n]) ELSE g[n - 1]
  BY FilterRecurs
<1>3. Len(s) \in Nat /\ Len(t) = Len(s) + 1 /\ t[Len(s) + 1] = m /\ \A n \in 1 .. Len(s) : t[n] = s[n]
  BY <1>0, AppendProperties
<1> DEFINE Same == {n \in Nat : n <= Len(s) => f[n] = g[n]}
<1>4. 0 \in Same BY <1>1, <1>2
<1>5. ASSUME NEW n \in Nat, n \in Same PROVE n + 1 \in Same
  <2>1. CASE n + 1 <= Len(s)
    <3>1. n + 1 \in 1 .. Len(s) /\ n + 1 \in Nat \ {0} /\ (n + 1) - 1 = n /\ n <= Len(s) BY <1>3, <2>1
    <3>2. t[n + 1] = s[n + 1] BY <1>3, <3>1
    <3>3. f[n] = g[n] BY <1>5, <3>1
    <3>4. f[n + 1] = IF s[n + 1] \in S THEN Append(f[n], s[n + 1]) ELSE f[n] BY <1>1, <3>1
    <3>5. g[n + 1] = IF t[n + 1] \in S THEN Append(g[n], t[n + 1]) ELSE g[n] BY <1>2, <3>1
    <3> QED BY <3>2, <3>3, <3>4, <3>5
  <2>2. CASE ~(n + 1 <= Len(s)) BY <2>2
  <2> QED BY <2>1, <2>2
<1>6. Nat \subseteq Same
  <2> HIDE DEF Same
  <2> QED BY <1>4, <1>5, EveryNatural
<1>7. f[Len(s)] = g[Len(s)] BY <1>3, <1>6
<1>8. Len(t) \in Nat \ {0} /\ Len(t) - 1 = Len(s) BY <1>3
<1>9. g[Len(t)] = IF m \in S THEN Append(g[Len(s)], m) ELSE g[Len(s)] BY <1>2, <1>3, <1>8
<1> QED BY <1>1, <1>2, <1>7, <1>9

LEMMA FilterEmpty == ASSUME NEW S PROVE Filter(<<>>, S) = <<>>
BY FilterRecurs

\* What is kept is a sequence of the same things.
LEMMA FilterType == ASSUME NEW M, NEW s \in Seq(M), NEW S PROVE Filter(s, S) \in Seq(M)
<1>1. PICK f : /\ f[0] = <<>> /\ Filter(s, S) = f[Len(s)]
               /\ \A n \in Nat \ {0} : f[n] = IF s[n] \in S THEN Append(f[n - 1], s[n]) ELSE f[n - 1]
  BY FilterRecurs
<1> DEFINE In == {n \in Nat : n <= Len(s) => f[n] \in Seq(M)}
<1>2. 0 \in In
  <2>1. <<>> \in Seq(M) OBVIOUS
  <2> QED BY <1>1, <2>1
<1>3. ASSUME NEW n \in Nat, n \in In PROVE n + 1 \in In
  <2>1. CASE n + 1 <= Len(s)
    <3>1. n + 1 \in 1 .. Len(s) /\ n + 1 \in Nat \ {0} /\ (n + 1) - 1 = n /\ n <= Len(s) BY <2>1
    <3>2. f[n + 1] = IF s[n + 1] \in S THEN Append(f[n], s[n + 1]) ELSE f[n] BY <1>1, <3>1
    <3>3. f[n] \in Seq(M) /\ s[n + 1] \in M BY <1>3, <3>1
    <3>4. Append(f[n], s[n + 1]) \in Seq(M) BY <3>3, AppendProperties
    <3> QED BY <3>1, <3>2, <3>3, <3>4
  <2>2. CASE ~(n + 1 <= Len(s)) BY <2>2
  <2> QED BY <2>1, <2>2
<1>4. Nat \subseteq In
  <2> HIDE DEF In
  <2> QED BY <1>2, <1>3, EveryNatural
<1> QED BY <1>1, <1>4

-----------------------------------------------------------------------------
\* Closers: the empty ones, the ones of a context and of a bare stream.
LEMMA FewClosers ==
    /\ Ranked(<<>>) /\ Elems(<<>>) = {}
    /\ Ranked(Context) /\ Elems(Context) = {"over", "cancel", "stop"}
    /\ Ranked(<<"source">>) /\ Elems(<<"source">>) = {"source"}
<1>1. Ranked(<<>>) /\ Elems(<<>>) = {} BY DEF Ranked, Elems, Closers
<1>2. Context \in Seq(Closers) /\ Len(Context) = 3 BY DEF Context, Closers
<1>3. Context[1] = "over" /\ Context[2] = "cancel" /\ Context[3] = "stop" BY DEF Context
<1>4. 1 .. 3 = {1, 2, 3} OBVIOUS
<1>5. Elems(Context) = {"over", "cancel", "stop"} BY <1>2, <1>3, <1>4 DEF Elems
<1>6. Rank["over"] = 1 /\ Rank["cancel"] = 2 /\ Rank["stop"] = 3 BY DEF Rank
<1>7. Ranked(Context) BY <1>2, <1>3, <1>4, <1>6 DEF Ranked
<1>8. <<"source">> \in Seq(Closers) /\ Len(<<"source">>) = 1 /\ <<"source">>[1] = "source" BY DEF Closers
<1>9. 1 .. 1 = {1} OBVIOUS
<1>10. Ranked(<<"source">>) /\ Elems(<<"source">>) = {"source"} BY <1>8, <1>9 DEF Ranked, Elems
<1> QED BY <1>1, <1>5, <1>7, <1>10

\* A closer that goes after all the others may be appended.
LEMMA AppendCloser ==
    ASSUME NEW s, NEW c \in Closers, Ranked(s), \A d \in Elems(s) : Rank[d] < Rank[c]
    PROVE  Ranked(Append(s, c)) /\ Elems(Append(s, c)) = Elems(s) \cup {c}
<1>0. SUFFICES ASSUME NEW t, t = Append(s, c) PROVE Ranked(t) /\ Elems(t) = Elems(s) \cup {c} OBVIOUS
<1>1. s \in Seq(Closers) /\ Len(s) \in Nat BY DEF Ranked
<1>2. t \in Seq(Closers) /\ Len(t) = Len(s) + 1 /\ t[Len(s) + 1] = c /\ \A i \in 1 .. Len(s) : t[i] = s[i]
  BY <1>0, <1>1, AppendProperties
<1>3. 1 .. Len(t) = (1 .. Len(s)) \cup {Len(t)} BY <1>1, <1>2
<1>4. Elems(t) = Elems(s) \cup {c} BY <1>2, <1>3 DEF Elems
<1>5. ASSUME NEW i \in 1 .. Len(t), NEW j \in 1 .. Len(t), i < j PROVE Rank[t[i]] < Rank[t[j]]
  <2>1. i \in 1 .. Len(s) /\ t[i] = s[i] BY <1>1, <1>2, <1>3, <1>5
  <2>2. CASE j \in 1 .. Len(s) BY <1>2, <1>5, <2>1, <2>2 DEF Ranked
  <2>3. CASE j = Len(t) BY <1>2, <2>1, <2>3 DEF Elems
  <2> QED BY <1>3, <2>2, <2>3
<1> QED BY <1>2, <1>4, <1>5 DEF Ranked

\* The first closer goes before all that are left, and is not among them.
LEMMA TailClosers ==
    ASSUME NEW s, Ranked(s), s # <<>>
    PROVE  /\ Ranked(Tail(s)) /\ Head(s) \in Closers
           /\ Elems(s) = Elems(Tail(s)) \cup {Head(s)}
           /\ \A d \in Elems(Tail(s)) : Rank[Head(s)] < Rank[d]
<1>0. SUFFICES ASSUME NEW t, t = Tail(s), NEW h, h = Head(s)
               PROVE  /\ Ranked(t) /\ h \in Closers /\ Elems(s) = Elems(t) \cup {h}
                      /\ \A d \in Elems(t) : Rank[h] < Rank[d]
  OBVIOUS
<1>1. s \in Seq(Closers) /\ Len(s) \in Nat \ {0} BY DEF Ranked
<1>2. t \in Seq(Closers) /\ Len(t) = Len(s) - 1 /\ h = s[1] /\ h \in Closers
      /\ \A i \in 1 .. Len(t) : t[i] = s[i + 1]
  BY <1>0, <1>1, HeadTailProperties
<1>3. \A i \in 1 .. Len(t) : i + 1 \in 1 .. Len(s) BY <1>1, <1>2
<1>4. /\ 1 \in 1 .. Len(s)
      /\ \A k \in 1 .. Len(s) : k # 1 => k - 1 \in 1 .. Len(t) /\ k = (k - 1) + 1
  BY <1>1, <1>2
<1>5. Elems(s) = Elems(t) \cup {h}
  <2>1. ASSUME NEW d \in Elems(s) PROVE d \in Elems(t) \cup {h}
    <3>1. PICK k \in 1 .. Len(s) : d = s[k] BY DEF Elems
    <3>2. k = 1 => d = h BY <1>2, <3>1
    <3>3. k # 1 => k - 1 \in 1 .. Len(t) /\ d = t[k - 1] BY <1>2, <1>4, <3>1
    <3> QED BY <3>2, <3>3 DEF Elems
  <2>2. ASSUME NEW d \in Elems(t) PROVE d \in Elems(s) BY <1>2, <1>3 DEF Elems
  <2>3. h \in Elems(s) BY <1>2, <1>4 DEF Elems
  <2> QED BY <2>1, <2>2, <2>3
<1>6. \A i \in 1 .. Len(t) : Rank[h] < Rank[t[i]]
  <2>1. TAKE i \in 1 .. Len(t)
  <2>2. 1 \in 1 .. Len(s) /\ i + 1 \in 1 .. Len(s) /\ 1 < i + 1 BY <1>1, <1>3
  <2> QED BY <1>2, <2>2 DEF Ranked
<1>7. ASSUME NEW i \in 1 .. Len(t), NEW j \in 1 .. Len(t), i < j PROVE Rank[t[i]] < Rank[t[j]]
  <2>1. i + 1 \in 1 .. Len(s) /\ j + 1 \in 1 .. Len(s) /\ i + 1 < j + 1 BY <1>3, <1>7
  <2> QED BY <1>2, <2>1 DEF Ranked
<1> QED BY <1>2, <1>5, <1>6, <1>7 DEF Ranked, Elems

\* The closers of a Reader, and what is left of them once one is called.
LEMMA TailReaderClosers ==
    /\ Elems(<<"unhook", "live">>) = {"unhook", "live"} /\ Elems(<<"live">>) = {"live"}
    /\ \A s \in ReaderClosers \ {<<>>} :
          /\ Tail(s) \in ReaderClosers /\ Elems(s) = Elems(Tail(s)) \cup {Head(s)}
          /\ Head(s) \in {"unhook", "live", "source"}
<1>1. Len(<<"unhook", "live">>) = 2 /\ <<"unhook", "live">>[1] = "unhook" /\ <<"unhook", "live">>[2] = "live" OBVIOUS
<1>2. Len(<<"live">>) = 1 /\ <<"live">>[1] = "live" /\ Len(<<"source">>) = 1 /\ <<"source">>[1] = "source" OBVIOUS
<1>3. 1 .. 2 = {1, 2} /\ 1 .. 1 = {1} OBVIOUS
<1>4. Elems(<<"unhook", "live">>) = {"unhook", "live"} BY <1>1, <1>3 DEF Elems
<1>5. Elems(<<"live">>) = {"live"} BY <1>2, <1>3 DEF Elems
<1>6. Elems(<<"source">>) = {"source"} BY <1>2, <1>3 DEF Elems
<1>7. Head(<<"unhook", "live">>) = "unhook" /\ Tail(<<"unhook", "live">>) = <<"live">> OBVIOUS
<1>8. Head(<<"live">>) = "live" /\ Tail(<<"live">>) = <<>> OBVIOUS
<1>9. Head(<<"source">>) = "source" /\ Tail(<<"source">>) = <<>> OBVIOUS
<1>10. Elems(<<>>) = {} BY FewClosers
<1> QED BY <1>4, <1>5, <1>6, <1>7, <1>8, <1>9, <1>10 DEF ReaderClosers

-----------------------------------------------------------------------------
\* What a message adds to the log.
LEMMA LinesAre ==
    ASSUME NEW m \in Kinds
    PROVE  /\ Lines(m) \in Seq(Kinds \cup {"header"})
           /\ Logs /\ Shared(m) /\ begun => Lines(m) = <<m>>
           /\ Logs /\ Shared(m) /\ ~begun => Lines(m) = <<"header", m>>
           /\ ~(Logs /\ Shared(m)) => Lines(m) = <<>>
<1>1. <<m>> \in Seq(Kinds \cup {"header"}) /\ <<"header", m>> \in Seq(Kinds \cup {"header"}) BY DEF Kinds
<1>2. <<>> \in Seq(Kinds \cup {"header"}) OBVIOUS
<1>3. CASE Logs /\ Shared(m) BY <1>1, <1>3, Zenon DEF Lines
<1>4. CASE ~(Logs /\ Shared(m)) BY <1>2, <1>4, Zenon DEF Lines
<1> QED BY <1>3, <1>4

LEMMA CloseLogTypes ==
    ASSUME Types, CloseLog
    PROVE  logged' \in Seq(Kinds \cup {"header"}) /\ begun' \in BOOLEAN /\ late' \in BOOLEAN
<1>1. logged \in Seq(Kinds \cup {"header"}) /\ Append(logged, "header") \in Seq(Kinds \cup {"header"})
  BY AppendProperties DEF Types
<1> QED BY <1>1 DEF CloseLog, logs, Types, Succeeds, Fails

\* The types.
LEMMA StepTypes == ASSUME Types, Order, [Next]_vars PROVE Types'
<1> USE DEF Types, Places, Going, Starting
<1>1. CASE Begin BY <1>1 DEF Begin, Context, Goes, process, logs
<1>2. CASE CreatePcap BY <1>2 DEF CreatePcap, Fails, Succeeds, Goes, process, logs
<1>3. CASE OpenLive BY <1>3 DEF OpenLive, Fails, Succeeds, Goes, process, logs
<1>4. CASE Hook BY <1>4 DEF Hook, Goes, process, logs
<1>5. CASE OpenSource BY <1>5 DEF OpenSource, Fails, Succeeds, Goes, process, logs
<1>6. CASE OpenOutput BY <1>6 DEF OpenOutput, Fails, Succeeds, Goes, process, logs
<1>7. CASE OpenLog BY <1>7 DEF OpenLog, Fails, Succeeds, OpenedLog, Goes, process, logs
<1>8. CASE SourceEnds
  <2>1. CloseLog \/ UNCHANGED <<logged, begun, late>> BY <1>8 DEF SourceEnds, logs
  <2>2. logged' \in Seq(Kinds \cup {"header"}) /\ begun' \in BOOLEAN /\ late' \in BOOLEAN
    BY <2>1, CloseLogTypes DEF Types
  <2> QED BY <1>8, <2>2 DEF SourceEnds, Goes, process
<1>9. CASE CloseReader BY <1>9 DEF CloseReader, Fails, Succeeds, Goes, process, logs
<1>10. CASE CloseOutput
  <2>1. printed \o buffer \in Seq(Kinds) BY ConcatProperties
  <2>2. <<>> \in Seq(Kinds) OBVIOUS
  <2> QED BY <1>10, <2>1, <2>2 DEF CloseOutput, Fails, Succeeds, Goes, process, logs
<1>11. CASE Close
  <2>1. CloseLog \/ UNCHANGED <<logged, begun, late>> BY <1>11 DEF Close, logs
  <2>2. logged' \in Seq(Kinds \cup {"header"}) /\ begun' \in BOOLEAN /\ late' \in BOOLEAN
    BY <2>1, CloseLogTypes DEF Types
  <2>3. file' \in [Files -> {"absent", "open", "closed", "removed"}] BY <1>11 DEF Close, Files
  <2> QED BY <1>11, <2>2, <2>3 DEF Close
<1>12. CASE Closed BY <1>12 DEF Closed, Goes, process, logs
<1>13. CASE \E m \in Kinds : Message(m)
  <2>1. PICK m \in Kinds : Message(m) BY <1>13
  <2>2. Append(given, m) \in Seq(Kinds) /\ Append(buffer, m) \in Seq(Kinds) /\ <<m>> \in Seq(Kinds)
        /\ <<>> \in Seq(Kinds)
    BY AppendProperties
  <2>3. printed \o buffer \in Seq(Kinds) BY ConcatProperties
  <2>4. (printed \o buffer) \o <<m>> \in Seq(Kinds) BY <2>2, <2>3, ConcatProperties
  <2>5. logged \o Lines(m) \in Seq(Kinds \cup {"header"}) BY LinesAre, ConcatProperties
  <2>6. printed' \in Seq(Kinds) /\ buffer' \in Seq(Kinds) BY <2>1, <2>2, <2>4 DEF Message, Prints
  <2>7. given' \in Seq(Kinds) /\ recorded' \in Nat /\ late' \in BOOLEAN BY <2>1, <2>2 DEF Message, Read
  <2>8. logged' \in Seq(Kinds \cup {"header"}) /\ begun' \in BOOLEAN BY <2>1, <2>5 DEF Message
  <2> QED BY <2>1, <2>6, <2>7, <2>8 DEF Message, Goes, process
<1>14. CASE \E m \in Kinds, n \in 0 .. 2 : MessageFails(m, n)
  <2>1. PICK m \in Kinds, n \in 0 .. 2 : MessageFails(m, n) BY <1>14
  <2>2. Append(given, m) \in Seq(Kinds) BY AppendProperties
  <2>3. logged \o Lines(m) \in Seq(Kinds \cup {"header"}) BY LinesAre, ConcatProperties
  <2>4. n <= Len(Lines(m)) => logged \o SubSeq(Lines(m), 1, n) \in Seq(Kinds \cup {"header"})
    <3>1. Lines(m) \in Seq(Kinds \cup {"header"}) BY LinesAre
    <3>2. n <= Len(Lines(m)) => SubSeq(Lines(m), 1, n) \in Seq(Kinds \cup {"header"})
      BY <3>1, SubSeqProperties
    <3> QED BY <3>2, ConcatProperties
  <2>5. given' \in Seq(Kinds) /\ recorded' \in Nat /\ late' \in BOOLEAN BY <2>1, <2>2 DEF MessageFails, Read
  <2>6. Len(Lines(m)) \in Nat BY LinesAre
  <2>7. logged' \in Seq(Kinds \cup {"header"})
    <3>1. \/ n < Len(Lines(m)) /\ logged' = logged \o SubSeq(Lines(m), 1, n)
          \/ logged' = logged \o Lines(m)
      BY <2>1 DEF MessageFails
    <3>2. n < Len(Lines(m)) => n <= Len(Lines(m)) BY <2>6
    <3> HIDE DEF Types
    <3> QED BY <2>3, <2>4, <3>1, <3>2
  <2>8. begun' \in BOOLEAN BY <2>1 DEF MessageFails
  <2> QED BY <2>1, <2>5, <2>7, <2>8 DEF MessageFails, Goes, process
<1>15. CASE SourceFails BY <1>15 DEF SourceFails, Fails, Goes, process, logs
<1>16. CASE StopCatching BY <1>16 DEF StopCatching, Goes, process, logs
<1>17. CASE Tell BY <1>17 DEF Tell, Goes, process, logs
<1>18. CASE CloseLive BY <1>18 DEF CloseLive, Goes, process, logs
<1>19. CASE Signal BY <1>19 DEF Signal, Goes, process, logs
<1>20. CASE Timer BY <1>20 DEF Timer, Goes, process, logs
<1>21. CASE UNCHANGED vars BY <1>21 DEF vars, process, logs
<1> QED
  BY <1>1, <1>2, <1>3, <1>4, <1>5, <1>6, <1>7, <1>8, <1>9, <1>10, <1>11, <1>12,
     <1>13, <1>14, <1>15, <1>16, <1>17, <1>18, <1>19, <1>20, <1>21
  DEF Next, Steps, Messages, Callbacks, Kinds

\* Every failure ends the command's own way through, and is told.
LEMMA StepFaults == ASSUME Faults, Types, [Next]_vars PROVE Faults'
<1> USE DEF Faults, Going, Starting
<1>1. CASE Begin BY <1>1 DEF Begin, Context, Goes, process, logs
<1>2. CASE CreatePcap BY <1>2 DEF CreatePcap, Fails, Succeeds, Goes, process, logs
<1>3. CASE OpenLive BY <1>3 DEF OpenLive, Fails, Succeeds, Goes, process, logs
<1>4. CASE Hook BY <1>4 DEF Hook, Goes, process, logs
<1>5. CASE OpenSource BY <1>5 DEF OpenSource, Fails, Succeeds, Goes, process, logs
<1>6. CASE OpenOutput BY <1>6 DEF OpenOutput, Fails, Succeeds, Goes, process, logs
<1>7. CASE OpenLog BY <1>7 DEF OpenLog, Fails, Succeeds, OpenedLog, Goes, process, logs
<1>8. CASE SourceEnds
  BY <1>8 DEF SourceEnds, CloseLog, Fails, Succeeds, LogFile, Goes, process, logs
<1>9. CASE CloseReader BY <1>9 DEF CloseReader, Fails, Succeeds, Goes, process, logs
<1>10. CASE CloseOutput BY <1>10 DEF CloseOutput, Fails, Succeeds, Goes, process, logs
<1>11. CASE Close
  BY <1>11 DEF Close, CloseLog, Fails, Succeeds, Closing, LogFile, Goes, process, logs
<1>12. CASE Closed BY <1>12 DEF Closed, Goes, process, logs
<1>13. CASE \E m \in Kinds : Message(m)
  BY <1>13 DEF Message, Read, Succeeds, Lines, Prints, Goes, process, logs
<1>14. CASE \E m \in Kinds, n \in 0 .. 2 : MessageFails(m, n)
  BY <1>14 DEF MessageFails, Read, Fails, Lines, Goes, process, logs
<1>15. CASE SourceFails BY <1>15 DEF SourceFails, Fails, Goes, process, logs
<1>16. CASE StopCatching BY <1>16 DEF StopCatching, Goes, process, logs
<1>17. CASE Tell BY <1>17 DEF Tell, Goes, process, logs
<1>18. CASE CloseLive BY <1>18 DEF CloseLive, Goes, process, logs
<1>19. CASE Signal BY <1>19 DEF Signal, Goes, process, logs
<1>20. CASE Timer BY <1>20 DEF Timer, Goes, process, logs
<1>21. CASE UNCHANGED vars BY <1>21 DEF vars, process, logs
<1> QED
  BY <1>1, <1>2, <1>3, <1>4, <1>5, <1>6, <1>7, <1>8, <1>9, <1>10, <1>11, <1>12,
     <1>13, <1>14, <1>15, <1>16, <1>17, <1>18, <1>19, <1>20, <1>21
  DEF Next, Steps, Messages, Callbacks, Kinds

\* Closers go in order, and are added in order.
LEMMA StepOrder == ASSUME Order, Types, [Next]_vars PROVE Order'
<1> USE DEF Order, Left, RLeft, Starting
<1>1. CASE Begin BY <1>1, FewClosers DEF Begin, Goes, Rank
<1>2. CASE CreatePcap
  <2>1. Ranked(Append(closers, "pcap")) /\ Elems(Append(closers, "pcap")) = Left \cup {"pcap"}
    <3>1. Rank["pcap"] = 4 /\ \A d \in Closers : Rank[d] \in Nat BY DEF Rank, Closers
    <3>2. \A d \in Left : d \in Closers BY DEF Ranked, Elems
    <3>3. \A d \in Left : Rank[d] < Rank["pcap"] BY <1>2, <3>1, <3>2 DEF CreatePcap
    <3> QED BY <3>3, AppendCloser DEF Closers
  <2>2. Rank["pcap"] <= 4 BY DEF Rank
  <2>3. \A d \in Left : Rank[d] <= 3 BY <1>2 DEF CreatePcap
  <2> QED BY <1>2, <2>1, <2>2, <2>3 DEF CreatePcap, Fails, Succeeds, Goes
<1>3. CASE OpenLive BY <1>3 DEF OpenLive, Fails, Succeeds, Goes, process, logs
<1>4. CASE Hook BY <1>4 DEF Hook, Goes, ReaderClosers
<1>5. CASE OpenSource BY <1>5, FewClosers DEF OpenSource, Fails, Succeeds, Goes, Rank, ReaderClosers
<1>6. CASE OpenOutput BY <1>6 DEF OpenOutput, Fails, Succeeds, Goes, process, logs
<1>7. CASE OpenLog
  <2>1. ASSUME NEW c \in {"log", "logFile"} PROVE Rank[c] \in {5, 6} /\ c \in Closers BY DEF Rank, Closers
  <2>2. Rank["log"] = 5 /\ Rank["logFile"] = 6 BY DEF Rank
  <2>3. \A d \in Left : d \in Closers /\ Rank[d] \in Nat /\ Rank[d] <= 4
    BY <1>7 DEF OpenLog, Ranked, Elems, Rank, Closers
  <2> DEFINE one == Append(closers, "log")
             two == Append(one, "logFile")
  <2>4. Ranked(one) /\ Elems(one) = Left \cup {"log"} BY <2>1, <2>2, <2>3, AppendCloser
  <2>5. Ranked(two) BY <2>1, <2>2, <2>3, <2>4, AppendCloser
  <2>6. closers \in Seq(Closers) BY DEF Ranked
  <2>7. closers \o <<"log">> = one BY <2>1, <2>6, AppendIsConcat
  <2>8. closers \o OpenedLog = two BY <2>1, <2>6 DEF OpenedLog
  <2> HIDE DEF one, two
  <2> QED BY <1>7, <2>4, <2>5, <2>7, <2>8 DEF OpenLog, Fails, Succeeds, Goes
<1>8. CASE SourceEnds
  BY <1>8 DEF SourceEnds, CloseLog, Fails, Succeeds, LogFile, Goes, process, logs
<1>9. CASE CloseReader BY <1>9, TailReaderClosers DEF CloseReader
<1>10. CASE CloseOutput BY <1>10 DEF CloseOutput, Fails, Succeeds, Goes, process, logs
<1>11. CASE Close
  <2>1. Ranked(closers) /\ closers # <<>> /\ closers' = Tail(closers) BY <1>11 DEF Close
  <2>2. Ranked(closers') BY <2>1, TailClosers
  <2> QED BY <1>11, <2>2 DEF Close, process
<1>12. CASE Closed BY <1>12 DEF Closed, Goes, process, logs
<1>13. CASE \E m \in Kinds : Message(m)
  BY <1>13 DEF Message, Read, Succeeds, Lines, Prints, Goes, process, logs
<1>14. CASE \E m \in Kinds, n \in 0 .. 2 : MessageFails(m, n)
  BY <1>14 DEF MessageFails, Read, Fails, Lines, Goes, process, logs
<1>15. CASE SourceFails BY <1>15 DEF SourceFails, Fails, Goes, process, logs
<1>16. CASE StopCatching BY <1>16 DEF StopCatching, Goes, process, logs
<1>17. CASE Tell BY <1>17 DEF Tell, Goes, process, logs
<1>18. CASE CloseLive BY <1>18 DEF CloseLive, Goes, process, logs
<1>19. CASE Signal BY <1>19 DEF Signal, Goes, process, logs
<1>20. CASE Timer BY <1>20 DEF Timer, Goes, process, logs
<1>21. CASE UNCHANGED vars BY <1>21 DEF vars, process, logs
<1> QED
  BY <1>1, <1>2, <1>3, <1>4, <1>5, <1>6, <1>7, <1>8, <1>9, <1>10, <1>11, <1>12,
     <1>13, <1>14, <1>15, <1>16, <1>17, <1>18, <1>19, <1>20, <1>21
  DEF Next, Steps, Messages, Callbacks, Kinds

\* What capture adds to the closers for a recording.
LEMMA PcapIsAppended == ASSUME Order, CreatePcap PROVE Elems(Append(closers, "pcap")) = Left \cup {"pcap"}
<1>1. Rank["pcap"] = 4 /\ \A d \in Closers : Rank[d] \in Nat BY DEF Rank, Closers
<1>2. \A d \in Left : d \in Closers /\ Rank[d] <= 3 BY DEF CreatePcap, Order, Ranked, Elems, Left
<1>3. \A d \in Left : Rank[d] < Rank["pcap"] BY <1>1, <1>2
<1> QED BY <1>3, AppendCloser DEF Order, Closers, Left

\* What openLog adds to the closers.
OpenedLogs ==
    /\ Elems(closers \o <<"log">>) = Left \cup {"log"}
    /\ Elems(closers \o OpenedLog) = Left \cup {"log", "logFile"}

LEMMA LogIsOpened == ASSUME Order, OpenLog PROVE OpenedLogs
<1>1. Rank["log"] = 5 /\ Rank["logFile"] = 6 /\ {"log", "logFile"} \subseteq Closers BY DEF Rank, Closers
<1>2. \A d \in Left : d \in Closers /\ Rank[d] \in Nat /\ Rank[d] <= 4
  BY DEF OpenLog, Order, Ranked, Elems, Rank, Closers, Left, Starting
<1> DEFINE one == Append(closers, "log")
           two == Append(one, "logFile")
<1>3. Ranked(one) /\ Elems(one) = Left \cup {"log"} BY <1>1, <1>2, AppendCloser DEF Order, Left
<1>4. Elems(two) = Left \cup {"log", "logFile"} BY <1>1, <1>2, <1>3, AppendCloser
<1>5. closers \in Seq(Closers) BY DEF Order, Ranked
<1>6. closers \o <<"log">> = one BY <1>1, <1>5, AppendIsConcat
<1>7. closers \o OpenedLog = two BY <1>1, <1>5 DEF OpenedLog
<1> HIDE DEF one, two
<1> QED BY <1>3, <1>4, <1>6, <1>7 DEF OpenedLogs

\* Whatever is opened has a closer, that is called before it is left.
LEMMA StepHeld == ASSUME Held, Order, Types, Ready, [Next]_vars PROVE Held'
<1> USE DEF Held, Types, Left, RLeft, Starting, Files
<1>1. CASE Begin BY <1>1, FewClosers DEF Begin, Goes, Order
<1>2. CASE CreatePcap
  <2>2. Elems(Append(closers, "pcap")) = Left \cup {"pcap"} BY <1>2, PcapIsAppended
  <2> QED BY <1>2, <2>2 DEF CreatePcap, Fails, Succeeds, Goes, process, logs
<1>3. CASE OpenLive BY <1>3 DEF OpenLive, Fails, Succeeds, Goes, process, logs
<1>4. CASE Hook BY <1>4, FewClosers, TailReaderClosers DEF Hook, Goes, process, logs, Order
<1>5. CASE OpenSource BY <1>5, FewClosers, TailReaderClosers DEF OpenSource, Fails, Succeeds, Goes, process, logs, Order
<1>6. CASE OpenOutput BY <1>6 DEF OpenOutput, Fails, Succeeds, Goes, process, logs
<1>7. CASE OpenLog
  <2>1. OpenedLogs BY <1>7, LogIsOpened
  <2>2. Left \subseteq Left' /\ RLeft' = RLeft /\ live' = live /\ hooks' = hooks /\ caught' = caught /\ ctx' = ctx
    BY <1>7, <2>1 DEF OpenLog, OpenedLogs, process
  <2>3. \/ file' = file
        \/ file' = [file EXCEPT !.log = "open"] /\ (cmd.log = "stdout" \/ "logFile" \in Left')
    <3>1. cmd.log # "file" => cmd.log \in {"no", "stdout"} BY CommandAssumption
    <3>2. CASE file' = file BY <3>2
    <3>3. CASE file' # file
      <4>1. file' = [file EXCEPT !.log = "open"] /\ cmd.log # "no"
            /\ closers' = closers \o IF cmd.log = "file" THEN OpenedLog ELSE <<"log">>
        BY <1>7, <3>3 DEF OpenLog
      <4> QED BY <2>1, <3>1, <4>1 DEF OpenedLogs
    <3> QED BY <3>2, <3>3
  <2>4. at = "log" /\ at' \in {"messages", "reader"} /\ cmd' = cmd BY <1>7 DEF OpenLog, Goes
  <2> QED BY <2>2, <2>3, <2>4
<1>8. CASE SourceEnds
  BY <1>8 DEF SourceEnds, CloseLog, Fails, Succeeds, LogFile, Goes, process, logs
<1>9. CASE CloseReader
  <2>1. RLeft = Elems(rclosers') \cup {Head(rclosers)} /\ Head(rclosers) \in {"unhook", "live", "source"}
    BY <1>9, TailReaderClosers DEF CloseReader, Order
  <2> QED BY <1>9, <2>1 DEF CloseReader, process, logs
<1>10. CASE CloseOutput BY <1>10 DEF CloseOutput, Fails, Succeeds, Goes, process, logs, Files
<1>11. CASE Close
  <2>1. Left = Elems(closers') \cup {Head(closers)} /\ \A d \in Elems(closers') : Rank[Head(closers)] < Rank[d]
    BY <1>11, TailClosers DEF Close, Order
  <2>2. closers' = Tail(closers) /\ rclosers' = rclosers /\ live' = live /\ hooks' = hooks /\ at' = at /\ cmd' = cmd
    BY <1>11 DEF Close
  <2>3. /\ file'.source = "open" => file.source = "open" /\ Head(closers) # "source"
        /\ file'.pcap = "open" => file.pcap = "open" /\ Head(closers) # "pcap"
        /\ file'.out = "open" => file.out = "open"
        /\ file'.log = "open" => file.log = "open" /\ Head(closers) # "logFile"
    BY <1>11 DEF Close, Files
  <2>4. caught' => caught /\ Head(closers) # "stop" BY <1>11 DEF Close
  <2>5. ctx # "no" => ctx' # "no" BY <1>11 DEF Close
  <2> QED BY <2>1, <2>2, <2>3, <2>4, <2>5
<1>12. CASE Closed
  <2>1. closers' = closers /\ rclosers' = rclosers /\ live' = live /\ hooks' = hooks /\ caught' = caught /\ ctx' = ctx
    BY <1>12 DEF Closed, process
  <2>2. closers = <<>> /\ rclosers = <<>> BY <1>12 DEF Closed, Order
  <2> QED BY <1>12, <2>1, <2>2, FewClosers DEF Closed, Goes
<1>13. CASE \E m \in Kinds : Message(m)
  BY <1>13 DEF Message, Read, Succeeds, Lines, Prints, Goes, process, logs
<1>14. CASE \E m \in Kinds, n \in 0 .. 2 : MessageFails(m, n)
  BY <1>14 DEF MessageFails, Read, Fails, Lines, Goes, process, logs
<1>15. CASE SourceFails BY <1>15 DEF SourceFails, Fails, Goes, process, logs
<1>16. CASE StopCatching BY <1>16 DEF StopCatching, Goes, process, logs
<1>17. CASE Tell BY <1>17 DEF Tell, Goes, process, logs
<1>18. CASE CloseLive BY <1>18 DEF CloseLive, Goes, process, logs
<1>19. CASE Signal BY <1>19 DEF Signal, Goes, process, logs
<1>20. CASE Timer BY <1>20 DEF Timer, Goes, process, logs
<1>21. CASE UNCHANGED vars BY <1>21 DEF vars, process, logs
<1> QED
  BY <1>1, <1>2, <1>3, <1>4, <1>5, <1>6, <1>7, <1>8, <1>9, <1>10, <1>11, <1>12,
     <1>13, <1>14, <1>15, <1>16, <1>17, <1>18, <1>19, <1>20, <1>21
  DEF Next, Steps, Messages, Callbacks, Kinds

\* What is written to is open: the log's header goes before its file closes.
LEMMA StepReady == ASSUME Ready, Order, Types, Faults, Removed, [Next]_vars PROVE Ready'
<1> USE DEF Ready, Types, Left, RLeft, Starting, Files
<1>1. CASE Begin BY <1>1, FewClosers DEF Begin, Goes, Order
<1>2. CASE CreatePcap
  <2>2. Elems(Append(closers, "pcap")) = Left \cup {"pcap"} BY <1>2, PcapIsAppended
  <2>3. cmd.pcap BY <1>2 DEF CreatePcap
  <2> QED BY <1>2, <2>2, <2>3 DEF CreatePcap, Fails, Succeeds, Goes, process, logs, Files
<1>3. CASE OpenLive BY <1>3 DEF OpenLive, Fails, Succeeds, Goes, process, logs
<1>4. CASE Hook BY <1>4 DEF Hook, Goes, process, logs
<1>5. CASE OpenSource
  <2>1. ~cmd.pcap /\ cmd.log = "no" /\ cmd \in Commands BY <1>5, CommandAssumption DEF OpenSource, Live
  <2>2. "pcap" \notin Left' /\ "log" \notin Left' /\ "logFile" \notin Left'
    BY <1>5, FewClosers DEF OpenSource, Order
  <2> QED BY <1>5, <2>1, <2>2 DEF OpenSource, Fails, Succeeds, Goes, process, logs
<1>6. CASE OpenOutput BY <1>6 DEF OpenOutput, Fails, Succeeds, Goes, process, logs
<1>7. CASE OpenLog
  <2>1. OpenedLogs BY <1>7, LogIsOpened
  <2> QED BY <1>7, <2>1 DEF OpenLog, Fails, Succeeds, Goes, process, logs, OpenedLogs, Files
<1>8. CASE SourceEnds
  <2>1. cmd.kind = "export" => file.out = "open" BY <1>8 DEF SourceEnds
  <2>2. ~late' BY <1>8, <2>1 DEF SourceEnds, CloseLog, LogFile, logs
  <2> QED BY <1>8, <2>2 DEF SourceEnds, Goes, process, CloseLog, Fails, Succeeds, logs
<1>9. CASE CloseReader BY <1>9 DEF CloseReader, Fails, Succeeds, Goes, process, logs
<1>10. CASE CloseOutput BY <1>10 DEF CloseOutput, Fails, Succeeds, Goes, process, logs
<1>11. CASE Close
  <2>1. Left = Elems(closers') \cup {Head(closers)} /\ \A d \in Elems(closers') : Rank[Head(closers)] < Rank[d]
    BY <1>11, TailClosers DEF Close, Order
  <2>2. closers' = Tail(closers) /\ at' = at /\ cmd' = cmd /\ recorded' = recorded /\ at \in {"close", "undo"}
    BY <1>11 DEF Close
  <2>3. /\ file'.pcap # file.pcap => Head(closers) = "pcap"
        /\ file'.log # file.log => Head(closers) = "logFile"
        /\ file'.log \in {file.log, "closed"}
    BY <1>11 DEF Close, Files
  <2>4. ~late'
    <3>1. ~late' \/ (Head(closers) = "log" /\ file[LogFile] # "open")
      BY <1>11 DEF Close, CloseLog, logs
    <3>2. Head(closers) = "log" => file.log = "open" /\ cmd.kind # "export"
      BY <2>1, CommandAssumption
    <3> QED BY <3>1, <3>2 DEF LogFile
  <2>5. "log" \in Elems(closers') => file'.log = "open" BY <2>1, <2>3 DEF Rank
  <2>8. cmd.log = "no" => file'.log = "absent" BY <2>1, <2>3
  <2>6. failed' = {} => failed = {} BY <1>11 DEF Close, CloseLog, Fails, Succeeds, logs
  <2>7. ~cmd.pcap => file'.pcap = "absent" BY <2>1, <2>2, <2>3
  <2>10. "logFile" \in Left' => "logFile" \in Left /\ file'.log = "open" BY <2>1, <2>3 DEF Rank
  <2>11. "pcap" \in Left' => "pcap" \in Left BY <2>1
  <2>12. cmd.log # "no" /\ failed' = {} /\ at = "close" => file'.log # "absent" BY <2>3, <2>6
  <2> QED BY <2>2, <2>4, <2>5, <2>7, <2>8, <2>10, <2>11, <2>12
<1>12. CASE Closed BY <1>12 DEF Closed, Goes, process, logs, Removed
<1>13. CASE \E m \in Kinds : Message(m)
  BY <1>13 DEF Message, Read, Succeeds, Lines, Prints, Goes, process, logs
<1>14. CASE \E m \in Kinds, n \in 0 .. 2 : MessageFails(m, n)
  BY <1>14 DEF MessageFails, Read, Fails, Lines, Goes, process, logs
<1>15. CASE SourceFails BY <1>15 DEF SourceFails, Fails, Goes, process, logs
<1>16. CASE StopCatching BY <1>16 DEF StopCatching, Goes, process, logs
<1>17. CASE Tell BY <1>17 DEF Tell, Goes, process, logs
<1>18. CASE CloseLive BY <1>18 DEF CloseLive, Goes, process, logs
<1>19. CASE Signal BY <1>19 DEF Signal, Goes, process, logs
<1>20. CASE Timer BY <1>20 DEF Timer, Goes, process, logs
<1>21. CASE UNCHANGED vars BY <1>21 DEF vars, process, logs
<1> QED
  BY <1>1, <1>2, <1>3, <1>4, <1>5, <1>6, <1>7, <1>8, <1>9, <1>10, <1>11, <1>12,
     <1>13, <1>14, <1>15, <1>16, <1>17, <1>18, <1>19, <1>20, <1>21
  DEF Next, Steps, Messages, Callbacks, Kinds

-----------------------------------------------------------------------------
\* The messages that the log is to hold.
Wanted == {m \in {"public", "private"} : Shared(m)}

\* The log from a message on that is written whole.
LEMMA LinesAreLogged ==
    ASSUME Types, Logged, failed = {}, NEW m \in Kinds, NEW log, log = logged \o Lines(m)
    PROVE  /\ \A i \in 1 .. Len(log) : log[i] = "header" <=> i = 1
           /\ begun \/ Lines(m) # <<>> => log # <<>>
           /\ ~(begun \/ Lines(m) # <<>>) => log = <<>>
           /\ Logs => IF begun \/ Lines(m) # <<>>
                      THEN log = <<"header">> \o Filter(Append(given, m), Wanted)
                      ELSE Filter(Append(given, m), Wanted) = <<>>
<1>1. /\ given \in Seq(Kinds) /\ logged \in Seq(Kinds \cup {"header"})
      /\ ~begun => logged = <<>>
      /\ begun => logged # <<>>
      /\ \A i \in 1 .. Len(logged) : logged[i] = "header" <=> i = 1
      /\ Logs => IF begun THEN logged = <<"header">> \o Filter(given, Wanted) ELSE Filter(given, Wanted) = <<>>
  BY DEF Types, Logged, Filtered, Wanted
<1>2. Filter(Append(given, m), Wanted) = IF m \in Wanted THEN Append(Filter(given, Wanted), m) ELSE Filter(given, Wanted)
  BY <1>1, FilterAppend
<1>3. m \in Wanted <=> Shared(m) BY DEF Wanted, Kinds
<1>4. Filter(given, Wanted) \in Seq(Kinds) BY <1>1, FilterType
<1>5. CASE ~(Logs /\ Shared(m))
  <2>1. Lines(m) = <<>> BY <1>5, LinesAre
  <2>2. log = logged BY <1>1, <2>1, ConcatEmptySeq
  <2> QED BY <1>1, <1>2, <1>3, <1>5, <2>1, <2>2
<1>6. CASE Logs /\ Shared(m) /\ begun
  <2>0. Lines(m) = <<m>> BY <1>6, LinesAre
  <2>1. Lines(m) = <<m>> /\ Lines(m) # <<>> BY <2>0
  <2>2. <<m>> \in Seq(Kinds) /\ <<"header">> \in Seq({"header"}) OBVIOUS
  <2>3. Append(Filter(given, Wanted), m) = Filter(given, Wanted) \o <<m>> BY <1>4, AppendIsConcat
  <2>4. log = <<"header">> \o Filter(Append(given, m), Wanted)
    <3>1. <<"header">> \in Seq(Kinds \cup {"header"}) /\ Filter(given, Wanted) \in Seq(Kinds \cup {"header"})
          /\ <<m>> \in Seq(Kinds \cup {"header"})
      BY <1>4
    <3>2. (<<"header">> \o Filter(given, Wanted)) \o <<m>> = <<"header">> \o (Filter(given, Wanted) \o <<m>>)
      BY <3>1, ConcatAssociative
    <3> QED BY <1>1, <1>2, <1>3, <1>6, <2>1, <2>3, <3>2
  <2>5. log = Append(logged, m) BY <1>1, <2>1, AppendIsConcat
  <2>6. Len(log) = Len(logged) + 1 /\ log[Len(logged) + 1] = m /\ \A i \in 1 .. Len(logged) : log[i] = logged[i]
    BY <1>1, <2>5, AppendProperties
  <2>7. Len(logged) \in Nat /\ Len(logged) # 0 BY <1>1, <1>6
  <2>8. \A i \in 1 .. Len(log) : log[i] = "header" <=> i = 1
    <3>1. TAKE i \in 1 .. Len(log)
    <3>2. i \in 1 .. Len(logged) \/ i = Len(logged) + 1 BY <2>6, <2>7
    <3>3. m # "header" BY DEF Kinds
    <3> QED BY <1>1, <2>6, <2>7, <3>2, <3>3
  <2>9. log # <<>> BY <2>6, <2>7
  <2> QED BY <1>6, <2>1, <2>4, <2>8, <2>9
<1>7. CASE Logs /\ Shared(m) /\ ~begun
  <2>0. Lines(m) = <<"header", m>> BY <1>7, LinesAre
  <2>1. Lines(m) = <<"header", m>> /\ Lines(m) # <<>> BY <2>0
  <2>2. log = <<"header", m>> BY <1>1, <1>7, <2>1, ConcatEmptySeq
  <2>3. Filter(Append(given, m), Wanted) = <<m>> BY <1>1, <1>2, <1>3, <1>7
  <2>4. m # "header" BY DEF Kinds
  <2>5. \A i \in 1 .. Len(log) : log[i] = "header" <=> i = 1 BY <2>2, <2>4
  <2>6. <<"header", m>> = <<"header">> \o <<m>> OBVIOUS
  <2> QED BY <1>7, <2>1, <2>2, <2>3, <2>5, <2>6
<1> QED BY <1>5, <1>6, <1>7

\* a2log.Writer.Close of a log in which nothing is yet.
LEMMA LogIsClosed ==
    ASSUME Types, Logged, CloseLog
    PROVE  /\ begun' /\ failed \subseteq failed'
           /\ logged' # <<>> \/ "logClose" \in failed'
           /\ \A i \in 1 .. Len(logged') : logged'[i] = "header" <=> i = 1
           /\ Logs /\ failed' = {} => logged' = <<"header">> \o Filtered
<1>1. CASE begun BY <1>1 DEF CloseLog, logs, Logged
<1>2. CASE ~begun /\ Succeeds /\ logged' = Append(logged, "header") /\ begun'
  <2>1. logged' = <<"header">> BY <1>2 DEF Logged
  <2>2. Logs /\ failed = {} => Filtered = <<>> BY <1>2 DEF Logged
  <2>3. <<"header">> \o <<>> = <<"header">> OBVIOUS
  <2>4. \A i \in 1 .. Len(logged') : logged'[i] = "header" <=> i = 1 BY <2>1
  <2>5. logged' # <<>> BY <2>1
  <2>6. failed' = failed BY <1>2 DEF Succeeds
  <2>7. Logs /\ failed' = {} => logged' = <<"header">> \o Filtered BY <2>1, <2>2, <2>3, <2>6
  <2> QED BY <1>2, <2>4, <2>5, <2>6, <2>7
<1>3. CASE ~begun /\ Fails("logClose") /\ UNCHANGED logged /\ begun'
  BY <1>3 DEF Fails, Logged
<1> QED BY <1>1, <1>2, <1>3 DEF CloseLog

\* A recording is removed with nothing in it.
LEMMA StepRemoved == ASSUME Removed, Types, Order, Faults, Ready, [Next]_vars PROVE Removed'
<1> USE DEF Removed, Types, Going, Left, RLeft, Starting, Files
<1>1. CASE Begin BY <1>1 DEF Begin, Context, Goes, process, logs
<1>2. CASE CreatePcap BY <1>2 DEF CreatePcap, Fails, Succeeds, Goes, process, logs
<1>3. CASE OpenLive BY <1>3 DEF OpenLive, Fails, Succeeds, Goes, process, logs
<1>4. CASE Hook BY <1>4 DEF Hook, Goes, process, logs
<1>5. CASE OpenSource BY <1>5 DEF OpenSource, Fails, Succeeds, Goes, process, logs
<1>6. CASE OpenOutput BY <1>6 DEF OpenOutput, Fails, Succeeds, Goes, process, logs
<1>7. CASE OpenLog BY <1>7 DEF OpenLog, Fails, Succeeds, OpenedLog, Goes, process, logs
<1>8. CASE SourceEnds
  BY <1>8 DEF SourceEnds, CloseLog, Fails, Succeeds, LogFile, Goes, process, logs
<1>9. CASE CloseReader
  <2>1. Head(rclosers) \in {"unhook", "live", "source"} BY <1>9, TailReaderClosers DEF CloseReader, Order
  <2>2. failed' \cap {"start", "record"} = failed \cap {"start", "record"}
    BY <1>9, <2>1 DEF CloseReader, Fails, Succeeds
  <2>3. at' = at /\ at = "reader" /\ recorded' = recorded BY <1>9 DEF CloseReader
  <2>4. file'.pcap = file.pcap BY <1>9 DEF CloseReader
  <2> QED BY <2>2, <2>3, <2>4
<1>10. CASE CloseOutput BY <1>10 DEF CloseOutput, Fails, Succeeds, Goes, process, logs
<1>11. CASE Close
  <2>1. file'.pcap # file.pcap => Head(closers) = "pcap" /\ file'.pcap = "closed" BY <1>11 DEF Close
  <2>2. failed' \cap {"start", "record"} = failed \cap {"start", "record"}
    <3>1. Head(closers) \in Closers BY <1>11, TailClosers DEF Close, Order
    <3>2. failed' \subseteq failed \cup {"logClose", "closeSource", "closePcap", "closeLog"} /\ failed \subseteq failed'
      BY <1>11, <3>1 DEF Close, CloseLog, Fails, Succeeds, Closing, logs, Closers
    <3> QED BY <3>2
  <2>3. at' = at /\ at \in {"close", "undo"} /\ recorded' = recorded BY <1>11 DEF Close
  <2> QED BY <2>1, <2>2, <2>3
<1>12. CASE Closed BY <1>12 DEF Closed, Goes, process, logs, Ready, Faults, Order
<1>13. CASE \E m \in Kinds : Message(m)
  BY <1>13 DEF Message, Read, Succeeds, Lines, Prints, Goes, process, logs
<1>14. CASE \E m \in Kinds, n \in 0 .. 2 : MessageFails(m, n)
  BY <1>14 DEF MessageFails, Read, Fails, Lines, Goes, process, logs
<1>15. CASE SourceFails BY <1>15 DEF SourceFails, Fails, Goes, process, logs
<1>16. CASE StopCatching BY <1>16 DEF StopCatching, Goes, process, logs
<1>17. CASE Tell BY <1>17 DEF Tell, Goes, process, logs
<1>18. CASE CloseLive BY <1>18 DEF CloseLive, Goes, process, logs
<1>19. CASE Signal BY <1>19 DEF Signal, Goes, process, logs
<1>20. CASE Timer BY <1>20 DEF Timer, Goes, process, logs
<1>21. CASE UNCHANGED vars BY <1>21 DEF vars, process, logs
<1> QED
  BY <1>1, <1>2, <1>3, <1>4, <1>5, <1>6, <1>7, <1>8, <1>9, <1>10, <1>11, <1>12,
     <1>13, <1>14, <1>15, <1>16, <1>17, <1>18, <1>19, <1>20, <1>21
  DEF Next, Steps, Messages, Callbacks, Kinds

\* The log is its header and what it is to hold.
LEMMA StepLogged == ASSUME Logged, Types, Order, Faults, Ready, Removed, [Next]_vars PROVE Logged'
<1> USE DEF Logged, Left, RLeft, Starting, Files
<1>1. CASE Begin
  <2>0. Left = {} BY <1>1, FewClosers DEF Begin, Order
  <2>1. logged' = logged /\ begun' = begun /\ cmd' = cmd /\ given' = given /\ failed \subseteq failed'
        /\ Left \subseteq Left'
    BY <1>1, <2>0 DEF Begin, Context, Goes, process, logs
  <2>2. Filtered' = Filtered /\ (Logs' <=> Logs) BY <2>1 DEF Filtered, Shared, Logs
  <2>3. file'.log # "absent" => file.log # "absent" \/ "log" \in Left'
    BY <1>1, <2>0 DEF Types, Begin, Context, Goes, process, logs
  <2>4. cmd.kind = "export" /\ failed' = {} /\ at' \in {"reader", "close", "done"} => at \in {"reader", "close", "done"}
    BY <1>1 DEF Begin, Context, Goes, process, logs
  <2> QED BY <2>1, <2>2, <2>3, <2>4
<1>2. CASE CreatePcap
  <2>0. Elems(Append(closers, "pcap")) = Left \cup {"pcap"} BY <1>2, PcapIsAppended
  <2>1. logged' = logged /\ begun' = begun /\ cmd' = cmd /\ given' = given /\ failed \subseteq failed'
        /\ Left \subseteq Left'
    BY <1>2, <2>0 DEF CreatePcap, Fails, Succeeds, Goes, process, logs
  <2>2. Filtered' = Filtered /\ (Logs' <=> Logs) BY <2>1 DEF Filtered, Shared, Logs
  <2>3. file'.log # "absent" => file.log # "absent" \/ "log" \in Left'
    BY <1>2, <2>0 DEF Types, CreatePcap, Fails, Succeeds, Goes, process, logs
  <2>4. cmd.kind = "export" /\ failed' = {} /\ at' \in {"reader", "close", "done"} => at \in {"reader", "close", "done"}
    BY <1>2 DEF CreatePcap, Fails, Succeeds, Goes, process, logs
  <2> QED BY <2>1, <2>2, <2>3, <2>4
<1>3. CASE OpenLive
  <2>1. logged' = logged /\ begun' = begun /\ cmd' = cmd /\ given' = given /\ failed \subseteq failed'
        /\ Left \subseteq Left'
    BY <1>3 DEF OpenLive, Fails, Succeeds, Goes, process, logs
  <2>2. Filtered' = Filtered /\ (Logs' <=> Logs) BY <2>1 DEF Filtered, Shared, Logs
  <2>3. file'.log # "absent" => file.log # "absent" \/ "log" \in Left'
    BY <1>3 DEF Types, OpenLive, Fails, Succeeds, Goes, process, logs
  <2>4. cmd.kind = "export" /\ failed' = {} /\ at' \in {"reader", "close", "done"} => at \in {"reader", "close", "done"}
    BY <1>3 DEF OpenLive, Fails, Succeeds, Goes, process, logs
  <2> QED BY <2>1, <2>2, <2>3, <2>4
<1>4. CASE Hook
  <2>1. logged' = logged /\ begun' = begun /\ cmd' = cmd /\ given' = given /\ failed \subseteq failed'
        /\ Left \subseteq Left'
    BY <1>4 DEF Hook, Goes, process, logs
  <2>2. Filtered' = Filtered /\ (Logs' <=> Logs) BY <2>1 DEF Filtered, Shared, Logs
  <2>3. file'.log # "absent" => file.log # "absent" \/ "log" \in Left'
    BY <1>4 DEF Types, Hook, Goes, process, logs
  <2>4. cmd.kind = "export" /\ failed' = {} /\ at' \in {"reader", "close", "done"} => at \in {"reader", "close", "done"}
    BY <1>4 DEF Hook, Goes, process, logs
  <2> QED BY <2>1, <2>2, <2>3, <2>4
<1>5. CASE OpenSource
  <2>0. Left = {} BY <1>5, FewClosers DEF OpenSource, Order
  <2>1. logged' = logged /\ begun' = begun /\ cmd' = cmd /\ given' = given /\ failed \subseteq failed'
        /\ Left \subseteq Left'
    BY <1>5, <2>0 DEF OpenSource, Fails, Succeeds, Goes, process, logs
  <2>2. Filtered' = Filtered /\ (Logs' <=> Logs) BY <2>1 DEF Filtered, Shared, Logs
  <2>3. file'.log # "absent" => file.log # "absent" \/ "log" \in Left'
    BY <1>5, <2>0 DEF Types, OpenSource, Fails, Succeeds, Goes, process, logs
  <2>4. cmd.kind = "export" /\ failed' = {} /\ at' \in {"reader", "close", "done"} => at \in {"reader", "close", "done"}
    BY <1>5 DEF OpenSource, Fails, Succeeds, Goes, process, logs
  <2> QED BY <2>1, <2>2, <2>3, <2>4
<1>6. CASE OpenOutput
  <2>1. logged' = logged /\ begun' = begun /\ cmd' = cmd /\ given' = given /\ failed \subseteq failed'
        /\ Left \subseteq Left'
    BY <1>6 DEF OpenOutput, Fails, Succeeds, Goes, process, logs
  <2>2. Filtered' = Filtered /\ (Logs' <=> Logs) BY <2>1 DEF Filtered, Shared, Logs
  <2>3. file'.log # "absent" => file.log # "absent" \/ "log" \in Left'
    BY <1>6 DEF Types, OpenOutput, Fails, Succeeds, Goes, process, logs
  <2>4. cmd.kind = "export" /\ failed' = {} /\ at' \in {"reader", "close", "done"} => at \in {"reader", "close", "done"}
    BY <1>6 DEF OpenOutput, Fails, Succeeds, Goes, process, logs
  <2> QED BY <2>1, <2>2, <2>3, <2>4
<1>7. CASE OpenLog
  <2>0. OpenedLogs BY <1>7, LogIsOpened
  <2>1. logged' = logged /\ begun' = begun /\ cmd' = cmd /\ given' = given /\ failed \subseteq failed'
        /\ Left \subseteq Left'
    BY <1>7, <2>0 DEF OpenLog, Fails, Succeeds, OpenedLog, Goes, process, logs, OpenedLogs
  <2>2. Filtered' = Filtered /\ (Logs' <=> Logs) BY <2>1 DEF Filtered, Shared, Logs
  <2>3. file'.log # "absent" => file.log # "absent" \/ "log" \in Left'
    BY <1>7, <2>0 DEF Types, OpenLog, Fails, Succeeds, OpenedLog, Goes, process, logs, OpenedLogs
  <2>4. cmd.kind = "export" /\ failed' = {} /\ at' \in {"reader", "close", "done"} => at \in {"reader", "close", "done"}
    BY <1>7 DEF OpenLog, Fails, Succeeds, OpenedLog, Goes, process, logs, OpenedLogs
  <2> QED BY <2>1, <2>2, <2>3, <2>4
<1>8. CASE SourceEnds
  <2>1. at' = "reader" /\ cmd' = cmd /\ file' = file /\ closers' = closers /\ given' = given /\ at = "messages"
    BY <1>8 DEF SourceEnds, Goes
  <2>2. CASE cmd.kind = "export" /\ CloseLog
    <3>1. Filtered' = Filtered /\ (Logs' <=> Logs) BY <2>1 DEF Filtered, Shared, Logs
    <3>2. Left' = Left BY <2>1
    <3> HIDE DEF Logged
    <3>3. /\ begun' /\ failed \subseteq failed'
          /\ logged' # <<>> \/ "logClose" \in failed'
          /\ \A i \in 1 .. Len(logged') : logged'[i] = "header" <=> i = 1
          /\ Logs /\ failed' = {} => logged' = <<"header">> \o Filtered
      BY <2>2, LogIsClosed
    <3> QED BY <2>1, <3>1, <3>2, <3>3 DEF Logged
  <2>3. CASE cmd.kind # "export" /\ UNCHANGED <<logs, failed, err, late>>
    <3>1. Filtered' = Filtered /\ (Logs' <=> Logs) BY <2>1 DEF Filtered, Shared, Logs
    <3> QED BY <2>1, <2>3, <3>1 DEF logs
  <2> QED BY <1>8, <2>2, <2>3 DEF SourceEnds
<1>9. CASE CloseReader
  <2>1. logged' = logged /\ begun' = begun /\ cmd' = cmd /\ given' = given /\ failed \subseteq failed'
        /\ Left \subseteq Left'
    BY <1>9 DEF CloseReader, Fails, Succeeds, Goes, process, logs
  <2>2. Filtered' = Filtered /\ (Logs' <=> Logs) BY <2>1 DEF Filtered, Shared, Logs
  <2>3. file'.log # "absent" => file.log # "absent" \/ "log" \in Left'
    BY <1>9 DEF Types, CloseReader, Fails, Succeeds, Goes, process, logs
  <2>4. cmd.kind = "export" /\ failed' = {} /\ at' \in {"reader", "close", "done"} => at \in {"reader", "close", "done"}
    BY <1>9 DEF CloseReader, Fails, Succeeds, Goes, process, logs
  <2> QED BY <2>1, <2>2, <2>3, <2>4
<1>10. CASE CloseOutput
  <2>1. logged' = logged /\ begun' = begun /\ cmd' = cmd /\ given' = given /\ failed \subseteq failed'
        /\ Left \subseteq Left'
    BY <1>10 DEF CloseOutput, Fails, Succeeds, Goes, process, logs
  <2>2. Filtered' = Filtered /\ (Logs' <=> Logs) BY <2>1 DEF Filtered, Shared, Logs
  <2>3. file'.log # "absent" => file.log # "absent" \/ "log" \in Left'
    BY <1>10 DEF Types, CloseOutput, Fails, Succeeds, Goes, process, logs
  <2>4. cmd.kind = "export" /\ failed' = {} /\ at' \in {"reader", "close", "done"} => at \in {"reader", "close", "done"}
    BY <1>10 DEF CloseOutput, Fails, Succeeds, Goes, process, logs
  <2> QED BY <2>1, <2>2, <2>3, <2>4
<1>11. CASE Close
  <2>1. at' = at /\ cmd' = cmd /\ given' = given /\ at \in {"close", "undo"} /\ closers' = Tail(closers)
    BY <1>11 DEF Close
  <2>2. Filtered' = Filtered /\ (Logs' <=> Logs) BY <2>1 DEF Filtered, Shared, Logs
  <2>3. Left = Left' \cup {Head(closers)} BY <1>11, TailClosers DEF Close, Order
  <2>4. file'.log # "absent" => file.log # "absent" \/ Head(closers) = "logFile" BY <1>11 DEF Close
  <2>5. file.log = "absent" => Head(closers) # "logFile" BY <2>3 DEF Ready
  <2>6. CASE Head(closers) = "log" /\ CloseLog
    <3> HIDE DEF Logged
    <3>1. /\ begun' /\ failed \subseteq failed'
          /\ logged' # <<>> \/ "logClose" \in failed'
          /\ \A i \in 1 .. Len(logged') : logged'[i] = "header" <=> i = 1
          /\ Logs /\ failed' = {} => logged' = <<"header">> \o Filtered
      BY <2>6, LogIsClosed
    <3> QED BY <2>1, <2>2, <3>1 DEF Logged
  <2>7. CASE Head(closers) # "log" /\ UNCHANGED logs
    <3>1. failed \subseteq failed' BY <1>11 DEF Close, CloseLog, Fails, Succeeds
    <3> QED BY <2>1, <2>2, <2>3, <2>4, <2>5, <2>7, <3>1 DEF logs
  <2> QED BY <1>11, <2>6, <2>7 DEF Close
<1>12. CASE Closed
  <2>1. logged' = logged /\ begun' = begun /\ cmd' = cmd /\ given' = given /\ failed \subseteq failed'
        /\ Left \subseteq Left'
    BY <1>12 DEF Closed, Goes, process, logs
  <2>2. Filtered' = Filtered /\ (Logs' <=> Logs) BY <2>1 DEF Filtered, Shared, Logs
  <2>3. file'.log # "absent" => file.log # "absent" \/ "log" \in Left'
    BY <1>12 DEF Types, Closed, Goes, process, logs
  <2>4. cmd.kind = "export" /\ failed' = {} /\ at' \in {"reader", "close", "done"} => at \in {"reader", "close", "done"}
    BY <1>12 DEF Closed, Goes, process, logs, Removed
  <2> QED BY <2>1, <2>2, <2>3, <2>4
<1>13. CASE \E m \in Kinds : Message(m)
  <2>1. PICK m \in Kinds : Message(m) BY <1>13
  <2>2. failed = {} BY <2>1 DEF Message, Read, Faults, Going
  <2> DEFINE log == logged \o Lines(m)
  <2>3. /\ \A i \in 1 .. Len(log) : log[i] = "header" <=> i = 1
        /\ begun \/ Lines(m) # <<>> => log # <<>>
        /\ ~(begun \/ Lines(m) # <<>>) => log = <<>>
        /\ Logs => IF begun \/ Lines(m) # <<>>
                   THEN log = <<"header">> \o Filter(Append(given, m), Wanted)
                   ELSE Filter(Append(given, m), Wanted) = <<>>
    BY <2>2, LinesAreLogged
  <2> HIDE DEF log
  <2>4. logged' = log /\ begun' = (begun \/ Lines(m) # <<>>) /\ given' = Append(given, m) /\ cmd' = cmd
        /\ at' = "messages" /\ file' = file /\ closers' = closers
    BY <2>1 DEF Message, Read, Goes, log
  <2>5. Filtered' = Filter(Append(given, m), Wanted) BY <2>4 DEF Filtered, Wanted, Shared
  <2>6. Logs' <=> Logs BY <2>4 DEF Logs
  <2>7. Left' = Left BY <2>4
  <2> QED BY <2>3, <2>4, <2>5, <2>6, <2>7
<1>14. CASE \E m \in Kinds, n \in 0 .. 2 : MessageFails(m, n)
  <2>1. PICK m \in Kinds, n \in 0 .. 2 : MessageFails(m, n) BY <1>14
  <2>2. failed = {} BY <2>1 DEF MessageFails, Read, Faults, Going
  <2> DEFINE log == logged \o Lines(m)
  <2>3. /\ \A i \in 1 .. Len(log) : log[i] = "header" <=> i = 1
        /\ begun \/ Lines(m) # <<>> => log # <<>>
        /\ ~(begun \/ Lines(m) # <<>>) => log = <<>>
        /\ Logs => IF begun \/ Lines(m) # <<>>
                   THEN log = <<"header">> \o Filter(Append(given, m), Wanted)
                   ELSE Filter(Append(given, m), Wanted) = <<>>
    BY <2>2, LinesAreLogged
  <2> HIDE DEF log
  <2>4. failed' # {} /\ at' = "reader" /\ file' = file /\ closers' = closers /\ (begun => begun')
    BY <2>1 DEF MessageFails, Fails, Goes
  <2>5. CASE logged' = log /\ begun' = (begun \/ Lines(m) # <<>>) BY <2>3, <2>4, <2>5
  <2>6. CASE /\ n < Len(Lines(m)) /\ logged' = logged \o SubSeq(Lines(m), 1, n)
             /\ begun' = (begun \/ n > 0)
    <3>1. Lines(m) \in {<<>>, <<m>>, <<"header", m>>} /\ (Lines(m) = <<"header", m>> => ~begun)
      <4>1. CASE Logs /\ Shared(m) /\ begun
        <5>1. Lines(m) = <<m>> BY <4>1, LinesAre
        <5>2. <<m>> # <<"header", m>> OBVIOUS
        <5> QED BY <5>1, <5>2
      <4>2. CASE Logs /\ Shared(m) /\ ~begun BY <4>2, LinesAre
      <4>3. CASE ~(Logs /\ Shared(m))
        <5>1. Lines(m) = <<>> BY <4>3, LinesAre
        <5>2. <<>> # <<"header", m>> OBVIOUS
        <5> QED BY <5>1, <5>2
      <4> QED BY <4>1, <4>2, <4>3
    <3>2. n = 0 => SubSeq(Lines(m), 1, n) = <<>>
      BY <3>1
    <3>5. Len(<<>>) = 0 /\ Len(<<m>>) = 1 /\ Len(<<"header", m>>) = 2 OBVIOUS
    <3>3. CASE n = 0
      <4>1. logged \o <<>> = logged BY ConcatEmptySeq DEF Types
      <4>3. begun \in BOOLEAN BY DEF Types
      <4>2. logged' = logged /\ (begun' <=> begun)
        <5>1. begun' <=> begun BY <2>6, <3>3, <4>3
        <5>2. logged' = logged BY <2>6, <3>2, <3>3, <4>1
        <5> QED BY <5>1, <5>2
      <4> QED BY <2>2, <2>4, <4>2
    <3>4. CASE n # 0
      <4>1. n = 1 /\ Lines(m) = <<"header", m>>
        <5>1. n < Len(Lines(m)) BY <2>6
        <5>2. n \in {1, 2} BY <2>1, <3>4
        <5>3. Len(Lines(m)) \in {0, 1, 2} BY <3>1, <3>5
        <5>6. \A j \in {1, 2}, k \in {0, 1, 2} : j < k => j = 1 /\ k = 2 OBVIOUS
        <5>4. n = 1 /\ Len(Lines(m)) = 2 BY <5>1, <5>2, <5>3, <5>6
        <5>5. Lines(m) # <<>> /\ Lines(m) # <<m>>
          <6> HIDE DEF IInv, Types
          <6> QED BY <3>5, <5>4
        <5> QED BY <5>4, <5>5, <3>1
      <4>2. logged = <<>> BY <3>1, <4>1
      <4>3. SubSeq(<<"header", m>>, 1, 1) = <<"header">>
        <5>1. <<"header", m>> \in Seq(Kinds \cup {"header"}) OBVIOUS
        <5>2. /\ SubSeq(<<"header", m>>, 1, 1) \in Seq(Kinds \cup {"header"})
              /\ Len(SubSeq(<<"header", m>>, 1, 1)) = 1 /\ SubSeq(<<"header", m>>, 1, 1)[1] = "header"
          BY <5>1, <3>5, SubSeqProperties
        <5>3. <<"header">> \in Seq(Kinds \cup {"header"}) /\ Len(<<"header">>) = 1 /\ <<"header">>[1] = "header" OBVIOUS
        <5>4. \A i \in 1 .. Len(<<"header">>) : SubSeq(<<"header", m>>, 1, 1)[i] = <<"header">>[i]
          <6>1. \A i \in 1 .. 1 : i = 1 OBVIOUS
          <6> QED BY <6>1, <5>2, <5>3
        <5>5. Len(SubSeq(<<"header", m>>, 1, 1)) = Len(<<"header">>) BY <5>2, <5>3
        <5> HIDE DEF IInv, Types
        <5> QED BY <5>2, <5>3, <5>4, <5>5, SeqEqual
      <4>4. <<>> \o <<"header">> = <<"header">> OBVIOUS
      <4>8. begun'
        <5>1. n > 0 BY <4>1
        <5> QED BY <2>6, <5>1
      <4>9. logged' = <<>> \o SubSeq(<<"header", m>>, 1, 1) BY <2>6, <4>1, <4>2
      <4>5. logged' = <<"header">> /\ begun' BY <4>3, <4>4, <4>8, <4>9
      <4>6. \A i \in 1 .. Len(logged') : logged'[i] = "header" <=> i = 1 BY <4>5
      <4>7. logged' # <<>> BY <4>5
      <4> QED BY <2>4, <4>5, <4>6, <4>7
    <3> QED BY <3>3, <3>4
  <2> QED BY <2>1, <2>5, <2>6 DEF MessageFails, log
<1>15. CASE SourceFails
  <2>1. logged' = logged /\ begun' = begun /\ cmd' = cmd /\ given' = given /\ failed \subseteq failed'
        /\ Left \subseteq Left'
    BY <1>15 DEF SourceFails, Fails, Goes, process, logs
  <2>2. Filtered' = Filtered /\ (Logs' <=> Logs) BY <2>1 DEF Filtered, Shared, Logs
  <2>3. file'.log # "absent" => file.log # "absent" \/ "log" \in Left'
    BY <1>15 DEF Types, SourceFails, Fails, Goes, process, logs
  <2>4. cmd.kind = "export" /\ failed' = {} /\ at' \in {"reader", "close", "done"} => at \in {"reader", "close", "done"}
    BY <1>15 DEF SourceFails, Fails, Goes, process, logs
  <2> QED BY <2>1, <2>2, <2>3, <2>4
<1>16. CASE StopCatching
  <2>1. logged' = logged /\ begun' = begun /\ cmd' = cmd /\ given' = given /\ failed \subseteq failed'
        /\ Left \subseteq Left'
    BY <1>16 DEF StopCatching, Goes, process, logs
  <2>2. Filtered' = Filtered /\ (Logs' <=> Logs) BY <2>1 DEF Filtered, Shared, Logs
  <2>3. file'.log # "absent" => file.log # "absent" \/ "log" \in Left'
    BY <1>16 DEF Types, StopCatching, Goes, process, logs
  <2>4. cmd.kind = "export" /\ failed' = {} /\ at' \in {"reader", "close", "done"} => at \in {"reader", "close", "done"}
    BY <1>16 DEF StopCatching, Goes, process, logs
  <2> QED BY <2>1, <2>2, <2>3, <2>4
<1>17. CASE Tell
  <2>1. logged' = logged /\ begun' = begun /\ cmd' = cmd /\ given' = given /\ failed \subseteq failed'
        /\ Left \subseteq Left'
    BY <1>17 DEF Tell, Goes, process, logs
  <2>2. Filtered' = Filtered /\ (Logs' <=> Logs) BY <2>1 DEF Filtered, Shared, Logs
  <2>3. file'.log # "absent" => file.log # "absent" \/ "log" \in Left'
    BY <1>17 DEF Types, Tell, Goes, process, logs
  <2>4. cmd.kind = "export" /\ failed' = {} /\ at' \in {"reader", "close", "done"} => at \in {"reader", "close", "done"}
    BY <1>17 DEF Tell, Goes, process, logs
  <2> QED BY <2>1, <2>2, <2>3, <2>4
<1>18. CASE CloseLive
  <2>1. logged' = logged /\ begun' = begun /\ cmd' = cmd /\ given' = given /\ failed \subseteq failed'
        /\ Left \subseteq Left'
    BY <1>18 DEF CloseLive, Goes, process, logs
  <2>2. Filtered' = Filtered /\ (Logs' <=> Logs) BY <2>1 DEF Filtered, Shared, Logs
  <2>3. file'.log # "absent" => file.log # "absent" \/ "log" \in Left'
    BY <1>18 DEF Types, CloseLive, Goes, process, logs
  <2>4. cmd.kind = "export" /\ failed' = {} /\ at' \in {"reader", "close", "done"} => at \in {"reader", "close", "done"}
    BY <1>18 DEF CloseLive, Goes, process, logs
  <2> QED BY <2>1, <2>2, <2>3, <2>4
<1>19. CASE Signal
  <2>1. logged' = logged /\ begun' = begun /\ cmd' = cmd /\ given' = given /\ failed \subseteq failed'
        /\ Left \subseteq Left'
    BY <1>19 DEF Signal, Goes, process, logs
  <2>2. Filtered' = Filtered /\ (Logs' <=> Logs) BY <2>1 DEF Filtered, Shared, Logs
  <2>3. file'.log # "absent" => file.log # "absent" \/ "log" \in Left'
    BY <1>19 DEF Types, Signal, Goes, process, logs
  <2>4. cmd.kind = "export" /\ failed' = {} /\ at' \in {"reader", "close", "done"} => at \in {"reader", "close", "done"}
    BY <1>19 DEF Signal, Goes, process, logs
  <2> QED BY <2>1, <2>2, <2>3, <2>4
<1>20. CASE Timer
  <2>1. logged' = logged /\ begun' = begun /\ cmd' = cmd /\ given' = given /\ failed \subseteq failed'
        /\ Left \subseteq Left'
    BY <1>20 DEF Timer, Goes, process, logs
  <2>2. Filtered' = Filtered /\ (Logs' <=> Logs) BY <2>1 DEF Filtered, Shared, Logs
  <2>3. file'.log # "absent" => file.log # "absent" \/ "log" \in Left'
    BY <1>20 DEF Types, Timer, Goes, process, logs
  <2>4. cmd.kind = "export" /\ failed' = {} /\ at' \in {"reader", "close", "done"} => at \in {"reader", "close", "done"}
    BY <1>20 DEF Timer, Goes, process, logs
  <2> QED BY <2>1, <2>2, <2>3, <2>4
<1>21. CASE UNCHANGED vars BY <1>21 DEF vars, process, logs, Filtered, Shared, Logs
<1> QED
  BY <1>1, <1>2, <1>3, <1>4, <1>5, <1>6, <1>7, <1>8, <1>9, <1>10, <1>11, <1>12,
     <1>13, <1>14, <1>15, <1>16, <1>17, <1>18, <1>19, <1>20, <1>21
  DEF Next, Steps, Messages, Callbacks, Kinds

\* What is printed is what was read.
LEMMA StepPrinted == ASSUME Printed, Types, Faults, Ready, Removed, [Next]_vars PROVE Printed'
<1> USE DEF Printed, Types, Ready
<1>1. CASE Begin BY <1>1 DEF Begin, Context, Goes, process, logs
<1>2. CASE CreatePcap BY <1>2 DEF CreatePcap, Fails, Succeeds, Goes, process, logs
<1>3. CASE OpenLive BY <1>3 DEF OpenLive, Fails, Succeeds, Goes, process, logs
<1>4. CASE Hook BY <1>4 DEF Hook, Goes, process, logs
<1>5. CASE OpenSource BY <1>5 DEF OpenSource, Fails, Succeeds, Goes, process, logs
<1>6. CASE OpenOutput BY <1>6 DEF OpenOutput, Fails, Succeeds, Goes, process, logs
<1>7. CASE OpenLog BY <1>7 DEF OpenLog, Fails, Succeeds, OpenedLog, Goes, process, logs
<1>8. CASE SourceEnds
  BY <1>8 DEF SourceEnds, CloseLog, Fails, Succeeds, LogFile, Goes, process, logs
<1>9. CASE CloseReader BY <1>9 DEF CloseReader, Fails, Succeeds, Goes, process, logs
<1>10. CASE CloseOutput
  <2>1. Len(printed \o buffer) = Len(printed) + Len(buffer) /\ printed \o buffer \in Seq(Kinds) BY ConcatProperties
  <2>2. (printed \o buffer) \o <<>> = printed \o buffer BY <2>1, ConcatEmptySeq
  <2>3. file.out = "open" \/ failed # {} \/ cmd.kind = "record" BY <1>10 DEF CloseOutput
  <2>4. /\ given' = given /\ recorded' = recorded /\ cmd' = cmd /\ at' = "close" /\ failed \subseteq failed'
        /\ \/ printed' = printed /\ buffer' = buffer /\ file.out # "open"
           \/ printed' = printed \o buffer /\ buffer' = <<>>
           \/ printed' = printed /\ buffer' = <<>> /\ failed' # {}
    BY <1>10 DEF CloseOutput, Goes, Succeeds, Fails
  <2>5. CASE printed' = printed /\ buffer' = buffer /\ file.out # "open" BY <2>3, <2>4, <2>5
  <2>6. CASE printed' = printed \o buffer /\ buffer' = <<>> BY <2>1, <2>2, <2>4, <2>6
  <2>7. CASE printed' = printed /\ buffer' = <<>> /\ failed' # {} BY <2>4, <2>7
  <2> QED BY <2>4, <2>5, <2>6, <2>7
<1>11. CASE Close
  BY <1>11 DEF Close, CloseLog, Fails, Succeeds, Closing, LogFile, Goes, process, logs
<1>12. CASE Closed BY <1>12 DEF Closed, Goes, Removed
<1>13. CASE \E m \in Kinds : Message(m)
  <2>1. PICK m \in Kinds : Message(m) BY <1>13
  <2>2. given' = Append(given, m) /\ recorded' <= recorded + 1 /\ failed' = failed /\ cmd' = cmd /\ at' = "messages"
        /\ failed = {}
    BY <2>1 DEF Message, Read, Succeeds, Goes, Faults, Going
  <2>8. recorded' \in Nat /\ Len(given) \in Nat /\ Len(printed) \in Nat /\ Len(buffer) \in Nat
    BY <2>1 DEF Message, Read
  <2>3. given' = given \o <<m>> /\ Len(given') = Len(given) + 1 /\ recorded' <= Len(given') + 1
    BY <2>2, <2>8, AppendIsConcat, AppendProperties
  <2>4. <<m>> \in Seq(Kinds) OBVIOUS
  <2>5. CASE printed' = printed /\ buffer' = buffer /\ cmd.kind \in {"record", "export"}
    BY <2>2, <2>3, <2>5, <2>8
  <2>6. CASE printed' = printed \o buffer \o <<m>> /\ buffer' = <<>> /\ cmd.kind \notin {"record", "export"}
    <3>1. Len(printed \o buffer) = Len(printed) + Len(buffer) /\ printed \o buffer \in Seq(Kinds) BY ConcatProperties
    <3>2. Len(printed') = Len(printed) + Len(buffer) + 1 /\ printed' \in Seq(Kinds)
      BY <2>4, <2>6, <3>1, ConcatProperties
    <3>3. printed' \o buffer' = printed' BY <2>6, <3>2, ConcatEmptySeq
    <3>4. Len(buffer') = 0 BY <2>6
    <3>5. Len(printed') + Len(buffer') <= Len(given') BY <2>3, <2>8, <3>2, <3>4
    <3>6. recorded' <= Len(given') + 1 BY <2>3
    <3>7. cmd'.kind \in {"watch", "show"} => printed \o buffer = given BY <2>2
    <3>8. cmd'.kind \in {"watch", "show"} => printed' \o buffer' = given' BY <2>3, <2>6, <3>3, <3>7
    <3>9. cmd'.kind \notin {"record", "export"} /\ at' \notin {"close", "done"} BY <2>2, <2>6
    <3> QED BY <3>5, <3>6, <3>8, <3>9
  <2>7. CASE printed' = printed /\ buffer' = Append(buffer, m) /\ cmd.kind \notin {"record", "export"}
    <3>1. buffer' = buffer \o <<m>> /\ Len(buffer') = Len(buffer) + 1 BY <2>7, AppendIsConcat, AppendProperties
    <3>2. printed \o (buffer \o <<m>>) = (printed \o buffer) \o <<m>>
      <4>1. printed \in Seq(Kinds) /\ buffer \in Seq(Kinds) OBVIOUS
      <4> HIDE DEF IInv, Types
      <4> QED BY <2>4, <4>1, ConcatAssociative
    <3>3. Len(printed') + Len(buffer') <= Len(given') BY <2>3, <2>7, <2>8, <3>1
    <3>4. recorded' <= Len(given') + 1 BY <2>3
    <3>5. cmd'.kind \in {"watch", "show"} => printed \o buffer = given BY <2>2
    <3>6. cmd'.kind \in {"watch", "show"} => printed' \o buffer' = given' BY <2>3, <2>7, <3>1, <3>2, <3>5
    <3>7. cmd'.kind \notin {"record", "export"} /\ at' \notin {"close", "done"} BY <2>2, <2>7
    <3> QED BY <3>3, <3>4, <3>6, <3>7
  <2> QED BY <2>1, <2>5, <2>6, <2>7 DEF Message, Prints
<1>14. CASE \E m \in Kinds, n \in 0 .. 2 : MessageFails(m, n)
  <2>1. PICK m \in Kinds, n \in 0 .. 2 : MessageFails(m, n) BY <1>14
  <2>2. given' = Append(given, m) /\ recorded' \in {recorded, recorded + 1} /\ failed' # {} /\ cmd' = cmd
        /\ at' = "reader"
    BY <2>1 DEF MessageFails, Read, Fails, Goes
  <2>3. Len(given') = Len(given) + 1 /\ Len(given) \in Nat BY <2>2, AppendProperties
  <2>4. printed' = printed /\ buffer' = buffer BY <2>1 DEF MessageFails
  <2>5. Len(printed) \in Nat /\ Len(buffer) \in Nat OBVIOUS
  <2> QED BY <2>2, <2>3, <2>4, <2>5
<1>15. CASE SourceFails BY <1>15 DEF SourceFails, Fails, Goes, process, logs
<1>16. CASE StopCatching BY <1>16 DEF StopCatching, Goes, process, logs
<1>17. CASE Tell BY <1>17 DEF Tell, Goes, process, logs
<1>18. CASE CloseLive BY <1>18 DEF CloseLive, Goes, process, logs
<1>19. CASE Signal BY <1>19 DEF Signal, Goes, process, logs
<1>20. CASE Timer BY <1>20 DEF Timer, Goes, process, logs
<1>21. CASE UNCHANGED vars BY <1>21 DEF vars, process, logs
<1> QED
  BY <1>1, <1>2, <1>3, <1>4, <1>5, <1>6, <1>7, <1>8, <1>9, <1>10, <1>11, <1>12,
     <1>13, <1>14, <1>15, <1>16, <1>17, <1>18, <1>19, <1>20, <1>21
  DEF Next, Steps, Messages, Callbacks, Kinds

\* Who tells of a stop was asked to, or has not yet looked whether the command is over.
LEMMA StepTold == ASSUME Told, Types, Order, [Next]_vars PROVE Told'
<1> USE DEF Told, StopAsked, Types, Left
<1>1. CASE Begin
  <2>1. Left' = {"over", "cancel", "stop"} BY <1>1, FewClosers DEF Begin
  <2> QED BY <1>1, <2>1 DEF Begin, Goes
<1>2. CASE CreatePcap BY <1>2, PcapIsAppended DEF CreatePcap, process, Goes
<1>3. CASE OpenLive BY <1>3 DEF OpenLive, Fails, Succeeds, Goes, process, logs
<1>4. CASE Hook BY <1>4 DEF Hook, Goes, process, logs
<1>5. CASE OpenSource
  <2>1. Left' \subseteq {"source"} BY <1>5, FewClosers DEF OpenSource, Order
  <2> QED BY <1>5, <2>1 DEF OpenSource, process
<1>6. CASE OpenOutput BY <1>6 DEF OpenOutput, Fails, Succeeds, Goes, process, logs
<1>7. CASE OpenLog BY <1>7, LogIsOpened DEF OpenLog, OpenedLogs, process, Goes
<1>8. CASE SourceEnds
  BY <1>8 DEF SourceEnds, CloseLog, Fails, Succeeds, LogFile, Goes, process, logs
<1>9. CASE CloseReader BY <1>9 DEF CloseReader, Fails, Succeeds, Goes, process, logs
<1>10. CASE CloseOutput BY <1>10 DEF CloseOutput, Fails, Succeeds, Goes, process, logs
<1>11. CASE Close
  <2>1. /\ Left = Left' \cup {Head(closers)} /\ closers' = Tail(closers)
        /\ \A d \in Left' : Rank[Head(closers)] < Rank[d]
    BY <1>11, TailClosers DEF Close, Order
  <2>2. Head(closers) = "cancel" => over
    <3>1. Head(closers) = "cancel" => "over" \notin Left' BY <2>1 DEF Rank
    <3> QED BY <2>1, <3>1
  <2>3. over' = (over \/ Head(closers) = "over") BY <1>11 DEF Close
  <2> QED BY <1>11, <2>1, <2>2, <2>3 DEF Close
<1>12. CASE Closed BY <1>12 DEF Closed, Goes, process, logs
<1>13. CASE \E m \in Kinds : Message(m)
  BY <1>13 DEF Message, Read, Succeeds, Lines, Prints, Goes, process, logs
<1>14. CASE \E m \in Kinds, n \in 0 .. 2 : MessageFails(m, n)
  BY <1>14 DEF MessageFails, Read, Fails, Lines, Goes, process, logs
<1>15. CASE SourceFails BY <1>15 DEF SourceFails, Fails, Goes, process, logs
<1>16. CASE StopCatching BY <1>16 DEF StopCatching, Expired
<1>17. CASE Tell BY <1>17 DEF Tell, Goes, process, logs
<1>18. CASE CloseLive BY <1>18 DEF CloseLive, Goes, process, logs
<1>19. CASE Signal BY <1>19 DEF Signal, Goes, process, logs
<1>20. CASE Timer BY <1>20 DEF Timer, Goes, process, logs
<1>21. CASE UNCHANGED vars BY <1>21 DEF vars, process, logs
<1> QED
  BY <1>1, <1>2, <1>3, <1>4, <1>5, <1>6, <1>7, <1>8, <1>9, <1>10, <1>11, <1>12,
     <1>13, <1>14, <1>15, <1>16, <1>17, <1>18, <1>19, <1>20, <1>21
  DEF Next, Steps, Messages, Callbacks, Kinds

-----------------------------------------------------------------------------
LEMMA InitHolds == Init => IInv
<1> SUFFICES ASSUME Init PROVE IInv OBVIOUS
<1> USE DEF Init
<1>1. Types
  <2>1. <<>> \in Seq(Kinds) /\ <<>> \in Seq(Kinds \cup {"header"}) OBVIOUS
  <2>2. file \in [Files -> {"absent", "open", "closed", "removed"}] OBVIOUS
  <2> QED BY <2>1, <2>2 DEF Types, Places, Going, Starting
<1>2. Faults BY DEF Faults
<1>3. Order BY FewClosers DEF Order, ReaderClosers, Left
<1>4. Held BY DEF Held, Files
<1>5. Ready BY FewClosers DEF Ready, Left, Files
<1>6. Removed BY DEF Removed, Files
<1>7. Logged
  <2>1. Filtered = <<>> BY FilterEmpty DEF Filtered
  <2> QED BY <2>1 DEF Logged, Files
<1>8. Printed BY DEF Printed
<1>9. Told BY FewClosers DEF Told, Left
<1> QED BY <1>1, <1>2, <1>3, <1>4, <1>5, <1>6, <1>7, <1>8, <1>9 DEF IInv

LEMMA NextHolds == IInv /\ [Next]_vars => IInv'
BY StepTypes, StepFaults, StepOrder, StepHeld, StepReady, StepRemoved, StepLogged, StepPrinted, StepTold DEF IInv

LEMMA Holds == Spec => []IInv
BY InitHolds, NextHolds, PTL DEF Spec

\* Of any command, however it ends: a log without an error is one header and all messages but those
\* that name the account, the output holds all of them, a log that is in error still begins with its one
\* header, and nothing is written to a file before it is open or once it is closed (openLog, Writer, finish).
THEOREM LogsAndOutputAreWhole == Spec => []LogsAreWhole
<1>1. ASSUME IInv PROVE LogsAreWhole
  <2> USE <1>1 DEF IInv
  <2>1. TypeOK BY DEF TypeOK, Printed, Types, Ready, Held
  <2>2. LogAndOutputAreWhole
    <3>1. SUFFICES ASSUME at = "done", err = {}
                   PROVE  /\ Logs => logged = <<"header">> \o Filtered
                          /\ cmd.kind \in {"watch", "show"} => printed = given
      BY DEF LogAndOutputAreWhole
    <3>2. failed = {} /\ Left = {} BY <3>1, FewClosers DEF Faults, Order, Left
    <3>3. Logs => begun BY <3>1, <3>2 DEF Logs, Logged, Ready
    <3>4. buffer = <<>> BY <3>1, <3>2 DEF Printed
    <3>5. printed \o <<>> = printed BY ConcatEmptySeq DEF Types
    <3> QED BY <3>2, <3>3, <3>4, <3>5 DEF Logged, Printed
  <2>3. LogHasItsHeader
    <3>1. at = "done" => Left = {} BY FewClosers DEF Order, Left
    <3> QED BY <3>1 DEF LogHasItsHeader, Logged
  <2>4. WrittenWhileOpen BY DEF WrittenWhileOpen, Ready
  <2> QED BY <2>1, <2>2, <2>3, <2>4 DEF LogsAreWhole
<1> QED BY <1>1, Holds, PTL

\* Of any command, whichever of its steps failed: when it ends the files it opened are closed and the
\* capture too, signals are the system's again, its recording is removed just when its capture did not
\* start, and every failure is among its errors (options.closers, Reader.Close, finish).
THEOREM NothingOfItIsLeft == Spec => []NothingIsLeft
<1>1. ASSUME IInv PROVE NothingIsLeft
  <2> USE <1>1 DEF IInv
  <2>1. at = "done" => Left = {} /\ RLeft = {} BY FewClosers DEF Order, Left, RLeft
  <2>2. NothingLeftOpen BY <2>1 DEF NothingLeftOpen, Held, Files
  <2>3. RemovedIfNothingIsInIt BY DEF RemovedIfNothingIsInIt, Removed
  <2>4. EveryFailureIsTold BY DEF EveryFailureIsTold, Faults
  <2> QED BY <2>2, <2>3, <2>4 DEF NothingIsLeft
<1> QED BY <1>1, Holds, PTL

\* The safety half of StopsWhenAsked: a command says that it stops its capture only if a signal came or its
\* time was up, wherever the callback stands when the command ends by itself (capture's over).
THEOREM StopIsAskedFor == Spec => []ToldOnlyWhenAsked
<1>1. IInv => ToldOnlyWhenAsked BY DEF IInv, Told, ToldOnlyWhenAsked
<1> QED BY <1>1, Holds, PTL
=============================================================================
