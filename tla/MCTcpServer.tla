---------------------------- MODULE MCTcpServer ----------------------------
(* No pool, one loop or two; three connections, so that the index of the     *)
(* round robin comes round.                                                  *)
EXTENDS TcpServer
=============================================================================
