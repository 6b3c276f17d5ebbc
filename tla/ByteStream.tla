----------------------------- MODULE ByteStream -----------------------------
(***************************************************************************)
(* What a TcpConnection promises to the code that calls Send and Shutdown: *)
(* a one-way stream.  Data is accepted only while the stream is open, what *)
(* is delivered is always a prefix of what was accepted, nothing delivered *)
(* is ever taken back, and the stream only moves towards "closed".         *)
(***************************************************************************)
EXTENDS SequencesExt

VARIABLES state, accepted, delivered

Init ==
  /\ state = "new"
  /\ accepted = <<>>
  /\ delivered = <<>>

Open ==
  /\ state = "new"
  /\ state' = "open"
  /\ UNCHANGED <<accepted, delivered>>

\* Take in more data and hand on more of what is held; both may be nothing.
\* What is already held may still be handed on after the stream has closed.
Transfer ==
  /\ state # "new"
  /\ accepted' # accepted => state = "open"
  /\ IsPrefix(accepted, accepted')
  /\ IsPrefix(delivered, delivered')
  /\ IsPrefix(delivered', accepted')
  /\ UNCHANGED state

\* Closing one's own side: nothing more is taken in.
HalfClose ==
  /\ state = "open"
  /\ state' = "closing"
  /\ UNCHANGED <<accepted, delivered>>

Close ==
  /\ state \in {"open", "closing"}
  /\ state' = "closed"
  /\ UNCHANGED <<accepted, delivered>>

Next == Open \/ Transfer \/ HalfClose \/ Close

Spec == Init /\ [][Next]_<<state, accepted, delivered>>
=============================================================================
