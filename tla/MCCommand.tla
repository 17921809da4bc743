------------------------------- MODULE MCCommand -------------------------------
(***************************************************************************)
(* Command with the flags that change what is opened and closed.           *)
(***************************************************************************)
EXTENDS Command

Asked(kinds, pcaps, logging, outs, timing, streams) ==
    [kind : kinds, pcap : pcaps, log : logging, out : outs, timed : timing, stream : streams, account : BOOLEAN]

MCCommands ==
    Asked({"watch"}, BOOLEAN, {"no", "file", "stdout"}, {"file", "stdout"}, BOOLEAN, {FALSE})
        \cup {c \in Asked({"record"}, BOOLEAN, {"no", "file", "stdout"}, {"stdout"}, BOOLEAN, {FALSE}) : c.pcap \/ c.log # "no"}
        \cup Asked({"show", "export"}, {FALSE}, {"no"}, {"file", "stdout", "source"}, {FALSE}, BOOLEAN)
================================================================================
