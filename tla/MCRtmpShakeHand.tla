--------------------------- MODULE MCRtmpShakeHand ---------------------------
(* Broadcasters that are accepted or not, and that send createStream in full  *)
(* or as a 0xc3 chunk, with two pieces of data after the shake hand.          *)
EXTENDS RtmpShakeHand

MCAccepted == BOOLEAN
MCForms == {"full", "c3"}
=============================================================================
