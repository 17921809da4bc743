------------------------------- MODULE GameParse -------------------------------
(***************************************************************************)
(* game.Parse, src/game/parse.go, and the reader of reader.go: a payload   *)
(* is read front to back, a field at a time, and the first read that fails *)
(* is kept.  A payload is what its reads find: bytes that are left, and a  *)
(* value of those the code tells apart for every field.  Each message has  *)
(* a layout: the fields it reads, which may depend on what was read.       *)
(***************************************************************************)
EXTENDS Integers, Sequences
LOCAL INSTANCE SequencesExt

CONSTANTS
    Kinds,          \* the messages, of those of Layout and "none", which nothing reads
    MaxLen,         \* bound: bytes of a payload
    MaxVarint,      \* bound: bytes of a varint, 5 in the code
    Counts          \* bound: the lengths of lists and names

ParseAssumption ==
    /\ Kinds \subseteq {"hit", "spawn", "object", "death", "fall", "gearScore", "combatPower", "kill",
                        "character", "cast", "castEnd", "moveA", "moveB", "tick", "ping", "zone", "sheet",
                        "sheetUpdate", "gauges", "nameCheck", "servers", "redirect", "account",
                        "characters", "lobbyPing"}
    /\ MaxLen \in Nat /\ MaxVarint \in 1 .. 5 /\ Counts \subseteq Nat /\ 0 \in Counts

VARIABLES
    kind,           \* the frame's opcode, by the name of what reads it
    client,         \* whether the frame is from the client
    left, bad,      \* the reader: r.left() and r.bad
    at,             \* the field it is at
    v,              \* the values read that the code looks at again
    out,            \* "reading", or what Parse returns: "event", "layout" or "unread"
    room            \* history: bytes there to back what was allocated for a count, less it

vars == <<kind, client, left, bad, at, v, out, room>>

-----------------------------------------------------------------------------
\* Fields.  Each has the widths it may have, a name if its value is looked at again,
\* its values, those of them that leave the reader good, those for which the message's
\* form is known, the bytes an entry takes of the list that it counts, and whether the
\* message is given up if they cannot be there.

Names == {"sw", "form", "n", "m", "len", "mask", "load", "flags", "legion", "actor", "skill", "alive"}

Zero(name) ==
    CASE name = "sw" -> [low |-> 0, bits |-> {}]
      [] name \in {"form", "flags"} -> {}
      [] name = "load" -> FALSE
      [] name = "mask" -> <<0, 0, 0, 0>>
      [] OTHER -> 0

Field(ws, name, among) ==
    [ws |-> ws, name |-> name, among |-> among, good |-> among, known |-> among, unit |-> 0, ends |-> FALSE]

Skip(n) == Field({n}, "", {0})
U(n, name, among) == Field({n}, name, among)
Varint == Field(1 .. MaxVarint, "", {0})

\* The same field with a name and values.
Of(f, name, among) == [f EXCEPT !.name = name, !.among = among, !.good = among, !.known = among]

\* The code sets bad for what is not among good, and returns nil for what is not among
\* known.
Must(f, good) == [f EXCEPT !.good = good]
Known(f, known) == [f EXCEPT !.known = known]

\* A number with a condition on it: 1 if it holds.
Right(n) == Must(U(n, "", {0, 1}), {1})

\* A number that has to fit in a byte, or has to be 0.
Small == Must(Of(Varint, "", {0, 1}), {1})

\* No field: the code returns nil.
Refuse == Known(Skip(0), {})

\* A count of entries of at least unit bytes, refused when they cannot be there.
Count(f, name, unit, ends) == [Of(f, name, Counts) EXCEPT !.unit = unit, !.ends = ends]

If(c, fields) == IF c THEN fields ELSE <<>>

\* The fields, n times over.
Rep(n, fields) == [i \in 1 .. n * Len(fields) |-> fields[1 + ((i - 1) % Len(fields))]]

\* reader.name: the length, and UTF-8.
Text(n) == IF n = 0 THEN Skip(0) ELSE Right(n)
Name == <<U(1, "len", Counts), Text(v.len)>>

\* reader.u32s
U32s(name, n) == <<Count(Skip(1), name, 4, FALSE)>> \o Rep(n, <<Skip(4)>>)

\* reader.pos
Pos == <<Skip(4), Skip(4), Skip(4)>>

-----------------------------------------------------------------------------
\* Layouts.

Hit ==
    <<Varint, Of(Varint, "sw", [low : {0, 4, 6, 9}, bits : SUBSET {16, 32, 64}]),
      Known(Of(Varint, "form", (SUBSET {1, 4, 16}) \cup {{2}}), SUBSET {1, 4, 16}),
      Varint, Skip(4), Skip(1), Small>>
    \o If(v.sw.low = 9, <<Refuse>>)
    \o If(v.sw.low = 6, <<Skip(1), Varint, Skip(1)>>)
    \o <<Skip(4), Right(4), Varint>>
    \o If(v.sw.low # 0, <<Varint>>)
    \o If(v.sw.low = 4 /\ 16 \in v.sw.bits, <<Skip(1)>>)
    \o If(32 \in v.sw.bits, <<Count(Varint, "n", 1, TRUE)>> \o Rep(v.n, <<Varint>>))
    \o If(1 \in v.form, U32s("m", v.m))
    \o If(64 \in v.sw.bits, U32s("len", v.len))
    \o <<Skip(1), Right(1)>>
    \o If(4 \in v.form, <<Varint>>)
    \o If(16 \in v.form /\ v.sw.low = 4, <<Skip(1)>>)

Spawn ==
    <<Varint, Skip(2), Known(Of(Varint, "n", 0 .. 2), {0, 1})>>
    \o If(v.n = 1, Name)
    \o <<Skip(4), U(1, "flags", SUBSET {8}), Right(1)>> \o Pos \o <<Skip(4), Skip(2)>>
    \o If(8 \in v.flags, <<Skip(12)>>)
    \o <<U(1, "alive", 0 .. 2), Of(Varint, "n", {0, 1}),
         Must(Varint, IF v.alive > 1 \/ (v.alive = 0 /\ v.n # 0) THEN {} ELSE {0})>>

Object ==
    <<Varint, Known(U(2, "form", {{}, {1}, {8}, {1, 8}, {2}}), {{}, {1}, {8}, {1, 8}}), Skip(4)>> \o Pos
    \o <<Skip(4), Skip(4), Right(2), Skip(1), Skip(8)>>
    \o If(1 \in v.form, <<Skip(4)>>) \o <<Skip(14)>> \o If(8 \in v.form, <<Skip(4)>>) \o <<Right(1)>>

Kill ==
    <<Varint, U(4, "skill", {0, 1}), Of(Varint, "actor", {0, 1}),
      Skip(2)>> \o Name \o <<U(1, "legion", Counts), Text(v.legion),
      Must(U(2, "", {0, 1}), IF v.legion = 0 THEN {0} ELSE {1}), Varint, Skip(4),
      Must(U(1, "", {0, 1}), IF v.actor = 0 /\ v.skill = 0 THEN {0} ELSE {1}), Skip(1)>>

Character == <<Varint, Skip(4), U(1, "flags", SUBSET {1})>> \o If(1 \in v.flags, Name)

Cast ==
    <<Varint, Known(U(1, "flags", (SUBSET {4, 8}) \cup {{1}}), SUBSET {4, 8}), Skip(4), Skip(1), U(1, "n", {0, 2}),
      Varint, Skip(4)>>
    \o If(v.n = 2, Pos) \o <<Varint, Skip(1), Varint>>
    \o If(4 \in v.flags, <<Skip(1)>>) \o If(8 \in v.flags, <<Varint>>)

MoveB == <<Varint, U(1, "flags", SUBSET {1})>> \o If(1 \in v.flags, <<Skip(1)>>) \o Pos

\* rows
Rows ==
    <<Count(Varint, "n", 6, TRUE)>> \o Rep(v.n, <<Skip(2), Skip(4)>>) \o <<Right(4), Right(4)>>

Gauges ==
    <<Varint, Known(Must(U(1, "flags", (SUBSET {1, 2}) \cup {{4}}), SUBSET {1, 2}), SUBSET {1, 2})>>
    \o If(1 \in v.flags, <<U(1, "n", Counts)>> \o Rep(v.n, <<Skip(1), Skip(4)>>))
    \o If(2 \in v.flags, <<U(1, "m", Counts)>> \o Rep(v.m, <<Skip(1), Skip(8)>>))

\* groupBits: the first of four entries carries the mask for all of them.
GroupBits(i, n) ==
    If(i % 4 = 0,
       <<Must(U(1, "mask", [1 .. 4 -> {0, 1}]), {m \in [1 .. 4 -> {0, 1}] : \A j \in 1 .. 4 : i + j > n => m[j] = 0})>>)

\* The entries of a list of n: those of each, from 0.
Entries(n, Entry(_)) == FlattenSeq([i \in 1 .. n |-> Entry(i - 1)])

\* peek, the first time: whether the next bytes are there and end as a load does.
Peek == U(0, "load", IF ~bad /\ left >= 4 THEN BOOLEAN ELSE {FALSE})

Servers ==
    LET Entry(i) == <<Skip(2), Skip(1), Right(2), Right(2)>> \o Name \o GroupBits(i, v.n) \o <<Skip(1)>>
                    \o If(i = 0, <<Peek>>)
                    \o (IF v.load THEN <<Skip(1)>> ELSE <<Skip(2), Skip(4)>>) \o <<Skip(3)>>
    IN <<Right(2), U(1, "n", Counts)>> \o Entries(v.n, Entry) \o <<Right(2)>>

Characters ==
    LET Entry(i) == <<Skip(2)>> \o Name \o <<Skip(4), Skip(4), Right(4), Skip(4), Skip(1), Skip(8), Skip(8)>>
                    \o GroupBits(i, v.n)
    IN <<Right(2), U(1, "n", Counts)>> \o Entries(v.n, Entry) \o <<Right(2)>>

Death == <<Varint, Small, Small>>

Fall == <<Varint, Varint>>

GearScore == <<Skip(4), Right(4)>>

CombatPower == <<Skip(8), Right(8)>>

CastEnd == <<Varint, Skip(4), Skip(2)>>

MoveA == <<Varint, Skip(2)>> \o Pos

Tick == <<Skip(8)>>

Ping == <<Skip(2), Skip(8), Skip(8)>>

Zone == <<Small, Skip(5)>> \o Pos

Sheet == <<Right(2)>> \o Rows

SheetUpdate == <<Varint>> \o Rows

NameCheck == <<Skip(2)>> \o Name \o <<Right(1)>>

Redirect == <<Right(2), Skip(2), Must(U(1, "len", Counts), Counts \ {0}), Text(v.len), Skip(2)>>

Account ==
    <<Right(2), Right(1)>> \o Name \o <<Skip(3), U(1, "len", Counts), IF v.len = 0 THEN Must(Skip(0), {}) ELSE Right(v.len)>>
    \o <<Skip(2), Skip(5), Right(2), Skip(3)>>

LobbyPing == <<Right(2), Skip(8), Skip(8)>>

\* What reads each opcode.
Layout ==
    CASE kind = "hit" -> Hit
      [] kind = "spawn" -> Spawn
      [] kind = "object" -> Object
      [] kind = "death" -> Death
      [] kind = "fall" -> Fall
      [] kind = "gearScore" -> GearScore
      [] kind = "combatPower" -> CombatPower
      [] kind = "kill" -> Kill
      [] kind = "character" -> Character
      [] kind = "cast" -> Cast
      [] kind = "castEnd" -> CastEnd
      [] kind = "moveA" -> MoveA
      [] kind = "moveB" -> MoveB
      [] kind = "tick" -> Tick
      [] kind = "ping" -> Ping
      [] kind = "zone" -> Zone
      [] kind = "sheet" -> Sheet
      [] kind = "sheetUpdate" -> SheetUpdate
      [] kind = "gauges" -> Gauges
      [] kind = "nameCheck" -> NameCheck
      [] kind = "servers" -> Servers
      [] kind = "redirect" -> Redirect
      [] kind = "account" -> Account
      [] kind = "characters" -> Characters
      [] kind = "lobbyPing" -> LobbyPing

\* The messages that may have more after what is read of them.
Open == {"spawn", "character", "moveA", "moveB", "zone"}

-----------------------------------------------------------------------------
\* The reader.

\* A count's entries cannot be there.
TooMany(f, x, rest) == f.unit > 0 /\ x > rest \div f.unit

\* What Parse returns: a read that failed comes before a form that is not known.
\* Mutant: the other way around.
ReturnedNilFirst(nil, failed) == IF nil THEN "unread" ELSE IF failed THEN "layout" ELSE "event"

Returned(nil, failed) == IF failed THEN "layout" ELSE IF nil THEN "unread" ELSE "event"

\* The field f was read as x, or as the zero it has when a read fails.
Read(f, x, nil, failed) ==
    /\ v' = IF f.name = "" THEN v ELSE [v EXCEPT ![f.name] = x]
    /\ bad' = failed /\ at' = at + 1
    /\ out' = IF nil THEN Returned(nil, failed) ELSE out

\* take, and what is built on it.
Take(f) ==
    \E w \in f.ws, x \in f.among :
        /\ ~bad /\ w <= left /\ left' = left - w
        /\ IF TooMany(f, x, left - w)
           THEN Read(f, 0, f.ends, TRUE) /\ UNCHANGED room
           ELSE Read(f, x, x \notin f.known, x \notin f.good) /\ room' = IF f.unit > 0 THEN left - w - x * f.unit ELSE room

\* A read that fails, because bytes are missing or a varint is none.
Fail(f) ==
    /\ ~bad /\ (f.ws = Varint.ws \/ \E w \in f.ws : w > left)
    /\ Read(f, Zero(f.name), Zero(f.name) \notin f.known, TRUE) /\ UNCHANGED <<left, room>>

\* Mutant: a read after one that failed goes on where that stopped.
ReadNothingOn(f) ==
    /\ bad /\ left' \in {left - w : w \in {u \in f.ws : u <= left}}
    /\ Read(f, Zero(f.name), Zero(f.name) \notin f.known, TRUE) /\ UNCHANGED room

\* A read after one that failed.
ReadNothing(f) ==
    bad /\ Read(f, Zero(f.name), Zero(f.name) \notin f.known, TRUE) /\ UNCHANGED <<left, room>>

\* end
Ended == kind \notin Open /\ left # 0

ReadField ==
    /\ out = "reading" /\ at <= Len(Layout)
    /\ Take(Layout[at]) \/ Fail(Layout[at]) \/ ReadNothing(Layout[at])
    /\ UNCHANGED <<kind, client>>

ReadAll ==
    /\ out = "reading" /\ kind # "none" /\ at = Len(Layout) + 1
    /\ bad' = (bad \/ Ended) /\ out' = Returned(FALSE, bad')
    /\ UNCHANGED <<kind, client, left, at, v, room>>

Init ==
    /\ kind \in Kinds \cup {"none"} /\ client \in BOOLEAN
    /\ left \in 0 .. MaxLen /\ bad = FALSE /\ at = 1 /\ room = 0
    /\ v = [name \in Names |-> Zero(name)]
    /\ out = IF client \/ kind = "none" THEN "unread" ELSE "reading"

Next == ReadField \/ ReadAll

Spec == Init /\ [][Next]_vars

-----------------------------------------------------------------------------
\* Properties.

\* Nothing is allocated for entries that the payload has no room for (hit, rows, u32s):
\* a count is compared with what is left before its list is made.
AllocationsAreBacked == room >= 0

\* The first read that fails holds the place where it stopped, and the reader stays bad,
\* whatever is read after it (reader's comment; ErrLayout names the byte).
FailureHoldsItsPlace == [][bad => bad' /\ left' = left]_vars

\* A payload cut short, or that breaks its layout, fails with ErrLayout, even if the code
\* gives up on it for a form it does not know (Parse).
BrokenIsNeverUnread == out = "unread" => ~bad

\* An event is all of its payload, except of the messages that are read in part (end).
EventIsWhole == out = "event" => ~bad /\ (kind \notin Open => left = 0)

\* A message is read as an event whole, or its failure is told, and no count makes room that the
\* payload cannot fill (Parse).
MessageIsWhole == AllocationsAreBacked /\ BrokenIsNeverUnread /\ EventIsWhole
=============================================================================
