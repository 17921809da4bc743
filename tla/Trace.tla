-------------------------------- MODULE Trace --------------------------------
(***************************************************************************)
(* The Chrome trace of src/trace.go: every message is an instant on its    *)
(* opcode's track, an event the game reads is one on its entities' tracks, *)
(* and a Cast is kept until what becomes of it is known.                   *)
(***************************************************************************)
EXTENDS Integers, SequencesExt

CONSTANTS
    Messages,       \* what a message may be, see AMessage
    Times,          \* capture times, which may run backwards
    MaxMessages     \* bound: messages of a recording

VARIABLES
    added,          \* the messages so far, with their times
    ops,            \* trace.ops: the opcode tracks
    entities,       \* trace.entities: the entity tracks, in the order they were opened
    named,          \* the entities that have a name or an NPC's
    casts,          \* trace.casts: the Casts that have not ended, by actor and skill
    out,            \* what was written
    ended           \* WriteTrace is done

traceVars == <<added, ops, entities, named, casts, out, ended>>

\* A message as add looks at it.  actor and other are the entities of its event;
\* "none" is an event that is unread, of another kind, or that JSON cannot hold.
AMessage == [kind : {"Hit", "Cast", "CastEnd", "Spawn", "Player", "Kill", "Death", "Move", "none"},
             actor : Nat, other : Nat, skill : Nat, client : BOOLEAN]

ASSUME TraceAssumption ==
    Messages \subseteq AMessage /\ Times \subseteq Nat /\ MaxMessages \in Nat

-----------------------------------------------------------------------------
\* Events of the trace.  of is the number of the message whose arguments it has.

Instant(what, pid, tid, of, ts) ==
    [ph |-> "i", what |-> what, pid |-> pid, tid |-> tid, of |-> of, ts |-> ts, dur |-> 0]

\* The opcode's track, set apart for the client's messages.
OpTrack(m) == <<m.kind, m.client>>

\* The entities whose tracks m's event is put on, in the order of the code.
On(m) ==
    CASE m.kind = "Hit" -> <<m.actor, m.other>>
      [] m.kind \in {"Spawn", "Player", "Kill", "Death", "Move"} -> <<m.other>>
      [] OTHER -> <<>>

\* The entities whose tracks are opened: those, and the actor of a Kill it names.
Opens(m) ==
    IF m.kind \in {"Cast", "CastEnd"} THEN <<m.actor>>
    ELSE IF m.kind = "Kill" /\ m.actor # 0 THEN <<m.other, m.actor>> ELSE On(m)

\* tracks, with id's opened if it is not among them.
Open(tracks, id) == IF id \in Range(tracks) THEN tracks ELSE Append(tracks, id)

\* tracks, with those of ids opened one after another.
Opened(tracks, ids) ==
    LET upto[i \in 0 .. Len(ids)] == IF i = 0 THEN tracks ELSE Open(upto[i - 1], ids[i])
    IN upto[Len(ids)]

\* Who m gives a name or an NPC.
Names(m) ==
    CASE m.kind \in {"Spawn", "Player"} -> {m.other}
      [] m.kind = "Kill" /\ m.actor # 0 -> {m.actor}
      [] OTHER -> {}

Key(m) == <<m.actor, m.skill>>

Without(f, k) == [x \in DOMAIN f \ {k} |-> f[x]]
With(f, k, v) == [x \in DOMAIN f \cup {k} |-> IF x = k THEN v ELSE f[x]]

\* Mutant: a Cast that is cast again is forgotten.
RecastForgets(k, of, ts) == <<>>

\* The Cast kept for k is written as it is when k is cast again.
Recast(k, of, ts) == IF k \in DOMAIN casts THEN <<casts[k]>> ELSE <<>>

\* A Cast that ended at ts, as a slice.
Slice(c, ts) == [c EXCEPT !.ph = "X", !.dur = ts - c.ts]

\* What add writes for the n-th message beside its opcode's instant.
Written(m, n, ts) ==
    CASE m.kind = "Cast" -> Recast(Key(m), n, ts)
      [] m.kind = "CastEnd" /\ Key(m) \in DOMAIN casts -> <<Slice(casts[Key(m)], ts)>>
      [] m.kind = "CastEnd" /\ Key(m) \notin DOMAIN casts -> <<Instant("CastEnd", "entity", m.actor, n, ts)>>
      [] OTHER -> [i \in DOMAIN On(m) |-> Instant(m.kind, "entity", On(m)[i], n, ts)]

\* The Casts kept after the n-th message.
Kept(m, n, ts) ==
    CASE m.kind = "Cast" -> With(casts, Key(m), Instant("Cast", "entity", m.actor, n, ts))
      [] m.kind = "CastEnd" -> Without(casts, Key(m))
      [] OTHER -> casts

-----------------------------------------------------------------------------
TraceInit ==
    /\ added = <<>> /\ ops = {} /\ entities = <<>> /\ named = {} /\ casts = <<>> /\ out = <<>>
    /\ ended = FALSE

\* trace.add.  Times are microseconds after the first frame.
Add(m, time) ==
    LET n  == Len(added) + 1
        ts == IF added = <<>> THEN 0 ELSE time - added[1].time
    IN /\ ~ended /\ n <= MaxMessages
       /\ added' = Append(added, [m |-> m, time |-> time])
       /\ ops' = ops \cup {OpTrack(m)}
       /\ entities' = IF m.kind = "none" THEN entities ELSE Opened(entities, Opens(m))
       /\ named' = named \cup Names(m)
       /\ casts' = Kept(m, n, ts)
       /\ out' = out \o <<Instant(m.kind, "opcode", OpTrack(m), n, ts)>> \o Written(m, n, ts)
       /\ UNCHANGED ended

Meta(what, pid, tid) ==
    [ph |-> "M", what |-> what, pid |-> pid, tid |-> tid, of |-> 0, ts |-> 0, dur |-> 0]

\* The place of an entity's track: how many were opened before it.
Place(id) == (CHOOSE i \in DOMAIN entities : entities[i] = id) - 1

\* The name and the place of each entity's track, one after the other.
EntityMetas(ids) ==
    [j \in 1 .. 2 * Len(ids) |->
        LET id == ids[(j + 1) \div 2]
        IN IF j % 2 = 1 THEN Meta("thread_name", "entity", id)
           ELSE [Meta("thread_sort_index", "entity", id) EXCEPT !.dur = Place(id)]]

OpMetas(tids) ==
    [j \in 1 .. 2 * Len(tids) |->
        Meta(IF j % 2 = 1 THEN "thread_name" ELSE "thread_sort_index", "opcode", tids[(j + 1) \div 2])]

Processes == <<Meta("process_name", "opcode", 0), Meta("process_name", "entity", 0)>>

\* trace.end, after the last message or the one that could not be read: the Casts
\* that never ended, by their times, those of one time in any order, and the tracks.
End ==
    /\ ~ended /\ ended' = TRUE
    /\ \E left \in SetToSeqs({casts[k] : k \in DOMAIN casts}), ids \in SetToSeqs(Range(entities)) :
        /\ \A i, j \in DOMAIN left : i < j => left[i].ts <= left[j].ts
        /\ \A i, j \in DOMAIN ids : i < j => ids[i] < ids[j]
        /\ out' = out \o left \o Processes \o OpMetas(SetToSeq(ops)) \o EntityMetas(ids)
    /\ UNCHANGED <<added, ops, entities, named, casts>>

TraceNext == (\E m \in Messages, time \in Times : Add(m, time)) \/ End

TraceSpec == TraceInit /\ [][TraceNext]_traceVars

-----------------------------------------------------------------------------
\* Properties.

\* What the trace keeps is what its types say, and tracks are opened once.
TraceTypeOK ==
    /\ \A k \in DOMAIN casts : casts[k].what = "Cast" /\ casts[k].of \in DOMAIN added
    /\ \A i, j \in DOMAIN entities : entities[i] = entities[j] => i = j
    /\ named \subseteq Range(entities)

IsCast(n) == added[n].m.kind = "Cast"

\* The events written for the Cast that the n-th message is.
EventsOf(n) == {i \in DOMAIN out : out[i].pid = "entity" /\ out[i].what = "Cast" /\ out[i].of = n}

\* Each Cast is written once, when it ends, when it is cast again or with the
\* trace, and until then it is kept (add, end).
EachCastOnce ==
    \A n \in DOMAIN added : IsCast(n) =>
        IF ~ended /\ \E k \in DOMAIN casts : casts[k].of = n
        THEN EventsOf(n) = {} ELSE Cardinality(EventsOf(n)) = 1

\* The message that decides what becomes of the n-th, a Cast: the next Cast or
\* CastEnd of the same actor and skill, or 0.
Decider(n) ==
    LET later == {j \in DOMAIN added : /\ j > n /\ added[j].m.kind \in {"Cast", "CastEnd"}
                                       /\ Key(added[j].m) = Key(added[n].m)}
    IN IF later = {} THEN 0 ELSE CHOOSE j \in later : \A i \in later : j <= i

\* A slice is a Cast with the CastEnd that was its own, as long as it took, and a
\* Cast with an end of its own is a slice (add).
SlicesAreCasts ==
    \A n \in DOMAIN added : IsCast(n) => \A i \in EventsOf(n) :
        LET d == Decider(n)
        IN IF d # 0 /\ ~IsCast(d)
           THEN /\ out[i].ph = "X"
                /\ out[i].ts = added[n].time - added[1].time
                /\ out[i].ts + out[i].dur = added[d].time - added[1].time
           ELSE out[i].ph = "i"

\* When the trace is written, every track that has an event, or an entity that was
\* named, is named once and has a place in the order of its own (end).
TracksAreNamed ==
    ended =>
        /\ \A i \in DOMAIN out : out[i].ph # "M" =>
            Cardinality({j \in DOMAIN out : /\ out[j].what = "thread_name" /\ out[j].pid = out[i].pid
                                            /\ out[j].tid = out[i].tid}) = 1
        /\ \A id \in named : \E j \in DOMAIN out : /\ out[j].what = "thread_name" /\ out[j].pid = "entity"
                                               /\ out[j].tid = id
        /\ LET places == {j \in DOMAIN out : out[j].what = "thread_sort_index" /\ out[j].pid = "entity"}
           IN {out[j].dur : j \in places} = 0 .. Cardinality(places) - 1

\* Each Cast is in the trace once, with the end that is its own, on a track with a name
\* (add, end).
TraceIsWhole == TraceTypeOK /\ EachCastOnce /\ SlicesAreCasts /\ TracksAreNamed
=============================================================================
