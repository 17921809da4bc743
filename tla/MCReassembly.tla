---------------------------- MODULE MCReassembly ----------------------------
(***************************************************************************)
(* Reassembly on 16 sequence numbers: a connection of four bytes whose     *)
(* numbers wrap at its third byte or not at all, and one that starts at 0. *)
(***************************************************************************)
EXTENDS Reassembly

MCStartSeqs == {1, 14}
MCStartSeqsZero == {0, 14}
MCTimes == 0 .. 2
=============================================================================
