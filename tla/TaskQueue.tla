----------------------------- MODULE TaskQueue -----------------------------
(***************************************************************************)
(* A queue.  It is what EventLoop::RunInLoop promises: the functions       *)
(* handed to a loop run one at a time, each at most once, in the order in  *)
(* which they were handed over.  And it is what RtmpCodec makes of a       *)
(* stream of chunks: "posted" are then the messages of a broadcaster,      *)
(* "done" those that are put together.                                     *)
(***************************************************************************)
EXTENDS SequencesExt

VARIABLES posted, done

Init == posted = <<>> /\ done = <<>>

\* One more function at the end of the queue.
HandOver == Len(posted') = Len(posted) + 1 /\ IsPrefix(posted, posted')

\* The oldest function that has not run yet.
RunOldest ==
  /\ Len(done) < Len(posted)
  /\ done' = Append(done, posted[Len(done) + 1])

Post == HandOver /\ UNCHANGED done

Run == RunOldest /\ UNCHANGED posted

\* A function that hands over another one while it runs.
RunAndPost == RunOldest /\ HandOver

Next == Post \/ Run \/ RunAndPost

Spec == Init /\ [][Next]_<<posted, done>>
=============================================================================
