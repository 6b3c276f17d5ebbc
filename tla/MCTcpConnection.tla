-------------------------- MODULE MCTcpConnection --------------------------
(***************************************************************************)
(* TcpConnection for TLC: one thread besides the loop's, messages of one   *)
(* or two bytes (so that a message can be sent in part), and two bytes per *)
(* thread (two messages in a row, or one that is split).                   *)
(***************************************************************************)
EXTENDS TcpConnection

CONSTANTS p1, loop

MCProducers == {p1}
MCLengths == 1 .. 2
=============================================================================
