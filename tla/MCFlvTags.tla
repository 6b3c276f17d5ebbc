------------------------------ MODULE MCFlvTags ------------------------------
(* Bytes of two values, so that three of them come round after 8 and the     *)
(* times pass that twice; five messages, two of them after the first packs.  *)
EXTENDS FlvTags, FiniteSets, TLC

MCTypes == <<"script", "video", "audio", "video", "audio">>
MCDeltas == {<<0, 0, 0>>, <<1, 0, 1>>}
MCSizes == {<<0, 0, 1>>, <<1, 1, 0>>}
MCSymmetry == Permutations(Viewers)
=============================================================================
