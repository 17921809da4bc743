----------------------------- MODULE MCCaptures -----------------------------
(***************************************************************************)
(* Captures on one Windows machine: one of them from within, with all its  *)
(* goroutines (LiveCapture), or all of them, as they find each other's     *)
(* sessions (Sessions), with three processes and two numbers, so that a    *)
(* number is used again while another capture starts.                      *)
(***************************************************************************)
EXTENDS LiveCapture, Sessions, TLC

CONSTANTS p1, p2, p3

VARIABLE seenFrom       \* "within" or "outside"

MCProcs == {p1, p2, p3}
MCForeign == {[pid |-> 0, created |-> 0]}
MCSymmetry == Permutations(MCProcs)

ASSUME MachineAssumption == SessionsAssumption

AtMostOne(S) == \A i, j \in S : i = j

\* At most one process is of another program or may not be opened; another program's session begins
\* or ends before there are two processes; and the first of the numbers is the first to be used.
FewOthers ==
    /\ AtMostOne({i \in Procs : proc[i].denied \/ (proc[i].at # "unborn" /\ ~proc[i].capture)})'
    /\ sessions' \cap Foreign # sessions \cap Foreign => AtMostOne({i \in Procs : proc[i].at # "unborn"})
    /\ \A i \in Procs : proc'[i].created = 1 => proc'[i].pid = 1

MCInit ==
    /\ seenFrom \in {"within", "outside"}
    /\ Init
    /\ SessionsInit /\ (seenFrom = "within" => sessions = {})

MCNext ==
    /\ UNCHANGED seenFrom
    /\ \/ seenFrom = "within" /\ Next /\ UNCHANGED sessionsVars
       \/ seenFrom = "outside" /\ SessionsNext /\ FewOthers /\ UNCHANGED vars

MCSpec == MCInit /\ [][MCNext]_<<vars, seenFrom, sessionsVars>>
=============================================================================
