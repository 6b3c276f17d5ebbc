---------------------------- MODULE MCRtmpCodec ----------------------------
(***************************************************************************)
(* RtmpCodec for TLC.  Headers of 4, 3, 2 and 1 bytes stand for those of   *)
(* 12, 8, 4 and 1.  Chunks of 2 bytes: the script takes half of one, the   *)
(* video message fills one, the audio message takes one and a half.  Five  *)
(* messages: the three first packs and two more, or a type twice.          *)
(***************************************************************************)
EXTENDS RtmpCodec

MCKinds == {[type |-> "script", size |-> 1], [type |-> "video", size |-> 2],
            [type |-> "audio", size |-> 3]}
MCHeaderLen == [fmt \in 0 .. 3 |-> 4 - fmt]
=============================================================================
