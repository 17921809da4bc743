------------------------------ MODULE FlowLock ------------------------------
(***************************************************************************)
(* What the decoder's lock promises those who read its frames: at any time *)
(* at most one connection is the game's, and the frames that carry a       *)
(* direction come from it alone, be it locked, or let go and not yet       *)
(* forgotten.  A connection is found, let go when it closes, and forgotten *)
(* when it is over; another is found only after that.                      *)
(***************************************************************************)
CONSTANTS
    Connections,
    None            \* no connection

VARIABLES
    locked,         \* whether the lock is on
    game,           \* the game's connection, as far as it is known
    sources         \* the connections that this step's directed frames are from

vars == <<locked, game, sources>>

Init == locked = FALSE /\ game = None /\ sources = {}

\* Frames with a direction come from the game's connection only.
Speak(c) == sources' \subseteq {c} \ {None}

\* The lock holds, or stays off.
Keep == /\ UNCHANGED <<locked, game>>
        /\ Speak(game)

Find == /\ ~locked
        /\ locked' = TRUE
        /\ game' \in Connections
        /\ Speak(game')

\* The connection closes; its last frames are still the game's.
LetGo == /\ locked
         /\ locked' = FALSE
         /\ UNCHANGED game
         /\ Speak(game)

\* The last frames of a connection may still come in the step that forgets it.
Forget == /\ locked' = FALSE
          /\ game' = None
          /\ Speak(game)

\* The lock lapses, and the segment that ends it, of the same connection made anew or of another,
\* earns the next one at once.
Lapse == /\ locked
         /\ locked' = TRUE
         /\ game' \in Connections
         /\ Speak(game')

\* A lock is earned by the very segment that closes its connection.
FindAndLetGo == /\ locked' = FALSE
                /\ game' \in Connections
                /\ Speak(game')

Next == Keep \/ Find \/ LetGo \/ Forget \/ Lapse \/ FindAndLetGo

Spec == Init /\ [][Next]_vars
=============================================================================
