----------------------------- MODULE ByteStream -----------------------------
(***************************************************************************)
(* What reassembly promises the framer behind it, whatever the capture     *)
(* lost, repeated or reordered: one direction of a connection is handed    *)
(* over from some first byte on, in order, and each byte is either given   *)
(* once or reported lost once.  A direction is opened anew when a SYN      *)
(* starts it over.                                                         *)
(***************************************************************************)
EXTENDS Integers

CONSTANT N          \* the bytes a connection sends in this direction

VARIABLES
    start,          \* the first byte the framer is told of
    cursor,         \* the byte the framer is told of next
    got,            \* the bytes given, of those the framer was told of
    lost            \* the bytes reported lost

vars == <<start, cursor, got, lost>>

Init == start = 0 /\ cursor = 0 /\ got = {} /\ lost = {}

\* The framer is told of the bytes from cursor on, up to some byte.
Advance ==
    \E upto \in cursor .. N : \E given \in SUBSET (cursor .. upto - 1) :
        /\ cursor' = upto
        /\ got' = got \cup given
        /\ lost' = lost \cup ((cursor .. upto - 1) \ given)
        /\ UNCHANGED start

\* A stream is made, and its first bytes may be told of at once.
Open ==
    \E from \in 0 .. N : \E upto \in from .. N : \E given \in SUBSET (from .. upto - 1) :
        /\ start' = from
        /\ cursor' = upto
        /\ got' = given
        /\ lost' = (from .. upto - 1) \ given

Next == Advance \/ Open

Spec == Init /\ [][Next]_vars
=============================================================================
