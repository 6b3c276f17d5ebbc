---------------------------- MODULE MCTcpClient ----------------------------
(* Connect may be called twice; five sockets, so that a client connects again *)
(* three times.                                                               *)
EXTENDS TcpClient
=============================================================================
