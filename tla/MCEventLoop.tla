---------------------------- MODULE MCEventLoop ----------------------------
(* EventLoop for TLC: two threads besides the loop's and four functions.   *)
EXTENDS EventLoop

CONSTANTS p1, p2, loop

MCProducers == {p1, p2}
=============================================================================
