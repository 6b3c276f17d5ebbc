------------------------------ MODULE MCBuffer ------------------------------
(* Two buffers of different size, one too small for two pieces.              *)
EXTENDS Buffer

MCSizeOf == [b \in {"a", "b"} |-> IF b = "a" THEN 3 ELSE 1]
=============================================================================
