--------------------------- MODULE TcpConnection ---------------------------
(***************************************************************************)
(* One TcpConnection (network/TcpConnection.cpp) on its event loop         *)
(* (network/EventLoop.cpp): the loop thread, the threads that call Send on *)
(* the connection from outside the loop, the kernel socket and the peer.   *)
(*                                                                         *)
(* The loop thread runs LoopOnce, the readable handler, the writable       *)
(* handler and the queued functions in that order; pc says where it is.    *)
(* The "...App" values of pc are inside a callback of the application,     *)
(* which may call Send and Shutdown any number of times.  Everything other *)
(* threads, the kernel and the peer do interleaves with those steps.       *)
(***************************************************************************)
EXTENDS Channel, Integers, SequencesExt

CONSTANTS
  Producers,    \* threads other than the loop's that call Send
  LoopThread,   \* the thread of the loop, as the origin of data
  Lengths,      \* the lengths Send is called with
  MaxBytes,     \* bound: bytes one thread ever sends
  RecvCap,      \* capacity of recv_buffer_
  MaxInbound,   \* bound: bytes of the peer waiting in the kernel
  Teardown      \* whether the owner's destructor may run

ASSUME ProducersAssumption == LoopThread \notin Producers
ASSUME LengthsAssumption == Lengths \subseteq Nat \ {0}
ASSUME BoundsAssumption ==
  /\ MaxBytes \in Nat
  /\ RecvCap \in Nat \ {0}
  /\ MaxInbound \in Nat
  /\ Teardown \in BOOLEAN

VARIABLES
  status,       \* connection_status_
  sendBuf,      \* send_buffer_: accepted, not yet given to the kernel
  recvBuf,      \* recv_buffer_: number of bytes held
  pending,      \* EventLoop::pending_func_
  batch,        \* what HandlePendingFunc took out of it and has not run yet
  pc,           \* where the loop thread is
  alive,        \* the TcpConnection object still exists
  torn,         \* ConnectDestroyed was called
  wire,         \* bytes the kernel took from the connection
  wrShut,       \* the write side of the socket was shut down
  inbound,      \* bytes of the peer not read yet
  peer,         \* what the peer did with its side
  issued,       \* ghost: bytes each thread gave to Send while connected
  accepted,     \* ghost: bytes SendInLoop took, in the order it took them
  closes,       \* ghost: how often OnClose ran
  touched       \* ghost: a queued function used the object after its end

connVars  == <<status, sendBuf, wire, wrShut, accepted>>
loopVars  == <<pending, batch, pc>>
peerVars  == <<inbound, peer>>
ghostVars == <<issued, closes, touched>>
vars == <<channelVars, connVars, loopVars, peerVars, ghostVars,
          recvBuf, alive, torn>>

Threads == Producers \cup {LoopThread}
Byte == [from : Threads, seq : Nat]
Task == [op : {"Established", "SendInLoop"}, data : Seq(Byte)]
AppCode == {"inApp", "outApp", "funcApp"}

TypeOK ==
  /\ ChannelTypeOK
  /\ status \in {"CONNECTING", "CONNECTED", "DISCONNECTING", "DISCONNECTED"}
  /\ sendBuf \in Seq(Byte) /\ wire \in Seq(Byte) /\ accepted \in Seq(Byte)
  /\ recvBuf \in 0 .. RecvCap
  /\ pending \in Seq(Task) /\ batch \in Seq(Task)
  /\ pc \in AppCode \cup {"poll", "in", "out", "guard", "swap", "func", "crashed"}
  /\ alive \in BOOLEAN /\ torn \in BOOLEAN /\ wrShut \in BOOLEAN
  /\ inbound \in 0 .. MaxInbound
  /\ peer \in {"open", "fin", "reset"}
  /\ issued \in [Threads -> 0 .. MaxBytes]
  /\ closes \in Nat
  /\ touched \in BOOLEAN

\* TcpServer::OnNewConnection has queued Established; nothing else happened.
Init ==
  /\ ChannelInit
  /\ status = "CONNECTING"
  /\ sendBuf = <<>> /\ wire = <<>> /\ accepted = <<>>
  /\ recvBuf = 0
  /\ pending = << [op |-> "Established", data |-> <<>>] >>
  /\ batch = <<>>
  /\ pc = "poll"
  /\ alive = TRUE /\ torn = FALSE /\ wrShut = FALSE
  /\ inbound = 0 /\ peer = "open"
  /\ issued = [t \in Threads |-> 0]
  /\ closes = 0 /\ touched = FALSE

-----------------------------------------------------------------------------
(* The socket.  send() takes a prefix of the data, possibly none of it (an *)
(* interrupted call or a full kernel buffer); once the write side is shut  *)
(* down or the peer has reset the connection it fails.                     *)

CanSend == ~wrShut /\ peer # "reset"

\* Socket::ShutdownWrite by way of Shutdown().
Shutdown ==
  IF status = "CONNECTED"
    THEN /\ status' = "DISCONNECTING"
         /\ wrShut' = (wrShut \/ ~IsWriting)
    ELSE UNCHANGED <<status, wrShut>>

-----------------------------------------------------------------------------
(* SendInLoop *)

\* Mutant: a connection that is being closed still takes data.
GivenUpWhenDisconnected == status = "DISCONNECTED"

GivenUp == status \in {"DISCONNECTED", "DISCONNECTING"}

\* Mutants: the whole message is buffered again after a partial send; new data
\* is sent past what is waiting in the buffer.
SendDirectlyResend(data, n) ==
  /\ ~IsWriting /\ sendBuf = <<>>
  /\ CanSend
  /\ wire' = wire \o SubSeq(data, 1, n)
  /\ sendBuf' = IF n < Len(data) THEN data ELSE <<>>
  /\ accepted' = accepted \o data
  /\ IF n < Len(data) THEN EnableWritable ELSE UNCHANGED channelVars
  /\ UNCHANGED <<status, wrShut>>

SendDirectlyOvertaking(data, n) ==
  /\ ~IsWriting
  /\ CanSend
  /\ wire' = wire \o SubSeq(data, 1, n)
  /\ sendBuf' = sendBuf \o SubSeq(data, n + 1, Len(data))
  /\ accepted' = accepted \o data
  /\ IF n < Len(data) THEN EnableWritable ELSE UNCHANGED channelVars
  /\ UNCHANGED <<status, wrShut>>

\* Nothing is waiting: the kernel takes the first n bytes, the rest waits.
SendDirectly(data, n) ==
  /\ ~IsWriting /\ sendBuf = <<>>
  /\ CanSend
  /\ wire' = wire \o SubSeq(data, 1, n)
  /\ sendBuf' = SubSeq(data, n + 1, Len(data))
  /\ accepted' = accepted \o data
  /\ IF n < Len(data) THEN EnableWritable ELSE UNCHANGED channelVars
  /\ UNCHANGED <<status, wrShut>>

\* EPIPE or ECONNRESET: the data is dropped and the connection shut down.
SendFatal ==
  /\ ~IsWriting /\ sendBuf = <<>>
  /\ ~CanSend
  /\ Shutdown
  /\ UNCHANGED <<sendBuf, wire, accepted, channelVars>>

AppendToSendBuffer(data) ==
  /\ IsWriting \/ sendBuf # <<>>
  /\ sendBuf' = sendBuf \o data
  /\ accepted' = accepted \o data
  /\ IF IsWriting THEN UNCHANGED channelVars ELSE EnableWritable
  /\ UNCHANGED <<status, wire, wrShut>>

\* complete: the write-complete callback ran.
SendInLoop(data, complete) ==
  \/ GivenUp /\ ~complete /\ UNCHANGED <<connVars, channelVars>>
  \/ /\ ~GivenUp
     /\ \/ \E n \in 0 .. Len(data) :
             complete = (n = Len(data)) /\ SendDirectly(data, n)
        \/ ~complete /\ SendFatal
        \/ ~complete /\ AppendToSendBuffer(data)

-----------------------------------------------------------------------------
(* Callers of Send and Shutdown *)

Payload(t, len) == [i \in 1 .. len |-> [from |-> t, seq |-> issued[t] + i]]

Issue(t, len) ==
  /\ issued[t] + len <= MaxBytes
  /\ issued' = [issued EXCEPT ![t] = @ + len]

\* Send from another thread: the status is looked at now, the data is copied
\* and queued for the loop together with the address of the connection.
SendFromThread(t, len) ==
  /\ alive
  /\ status = "CONNECTED"
  /\ Issue(t, len)
  /\ pending' = Append(pending, [op |-> "SendInLoop", data |-> Payload(t, len)])
  /\ UNCHANGED <<channelVars, connVars, batch, pc, peerVars, closes, touched,
                 recvBuf, alive, torn>>

\* Send from a callback that runs on the loop thread.
SendFromCallback(len) ==
  /\ pc \in AppCode
  /\ status = "CONNECTED"
  /\ Issue(LoopThread, len)
  /\ \E complete \in BOOLEAN : SendInLoop(Payload(LoopThread, len), complete)
  /\ UNCHANGED <<loopVars, peerVars, closes, touched, recvBuf, alive, torn>>

ShutdownFromCallback ==
  /\ pc \in AppCode
  /\ status = "CONNECTED"
  /\ Shutdown
  /\ UNCHANGED <<channelVars, sendBuf, wire, accepted, loopVars, peerVars,
                 ghostVars, recvBuf, alive, torn>>

-----------------------------------------------------------------------------
(* The loop thread *)

AfterReadable == IF IsWriting THEN "out" ELSE "guard"

\* epoll reports IN whenever there is something to read or the stream has
\* ended, OUT when the kernel has room; a hang-up is reported without being
\* asked for, and HandleEvent does nothing with it.
Readable == IF inbound > 0 \/ peer # "open" THEN mask \cap {"IN"} ELSE {}
HangUp == peer = "reset" \/ (peer = "fin" /\ wrShut)

LoopOnce ==
  /\ pc = "poll"
  /\ \E writable \in SUBSET ({"OUT"} \cap mask) :
       LET ready == Readable \cup writable IN
       IF inEpoll /\ (ready # {} \/ HangUp)
         THEN /\ SetEvent(ready)
              /\ pc' = IF "IN" \in ready THEN "in"
                       ELSE IF "OUT" \in ready THEN "out" ELSE "guard"
         ELSE pc' = "swap" /\ UNCHANGED channelVars
  /\ UNCHANGED <<connVars, pending, batch, peerVars, ghostVars, recvBuf, alive,
                 torn>>

\* Mutant: the channel stays with the multiplexer.
OnCloseStillWatched ==
  /\ status' = "DISCONNECTED"
  /\ closes' = closes + 1
  /\ UNCHANGED channelVars

OnClose ==
  /\ status' = "DISCONNECTED"
  /\ DisableAll
  /\ closes' = closes + 1

\* The read found data: the application is told and keeps some of it unread.
OnReadableData ==
  /\ pc = "in"
  /\ inbound > 0 /\ recvBuf < RecvCap /\ peer # "reset"
  /\ \E n \in 1 .. inbound :
       /\ n = inbound \/ recvBuf + n = RecvCap
       /\ recvBuf + n <= RecvCap
       /\ inbound' = inbound - n
       /\ recvBuf' \in 0 .. recvBuf + n
  /\ pc' = "inApp"
  /\ UNCHANGED <<channelVars, connVars, pending, batch, peer, ghostVars, alive,
                 torn>>

\* The read returned 0: the end of the stream, or no room in the buffer.
OnReadableEnd ==
  /\ pc = "in"
  /\ recvBuf = RecvCap \/ (inbound = 0 /\ peer = "fin")
  /\ OnClose
  /\ pc' = AfterReadable
  /\ UNCHANGED <<sendBuf, wire, wrShut, accepted, pending, batch, peerVars,
                 issued, touched, recvBuf, alive, torn>>

\* The read failed: logged only.  A reset is reported once, then the stream
\* reads as ended; what was still in the kernel is lost.
OnReadableError ==
  /\ pc = "in"
  /\ peer = "reset" /\ recvBuf < RecvCap
  /\ IF inbound > 0
       THEN inbound' = 0 /\ UNCHANGED <<channelVars, status, closes>>
       ELSE OnClose /\ UNCHANGED inbound
  /\ pc' = AfterReadable
  /\ UNCHANGED <<sendBuf, wire, wrShut, accepted, pending, batch, peer, issued,
                 touched, recvBuf, alive, torn>>

OnWritable ==
  /\ pc = "out"
  /\ CanSend
  /\ \E n \in 1 .. Len(sendBuf) :
       /\ wire' = wire \o SubSeq(sendBuf, 1, n)
       /\ sendBuf' = SubSeq(sendBuf, n + 1, Len(sendBuf))
       /\ IF n = Len(sendBuf)
            THEN DisableWritable /\ pc' = "outApp"
            ELSE UNCHANGED channelVars /\ pc' = "guard"
  /\ UNCHANGED <<status, wrShut, accepted, pending, batch, peerVars, ghostVars,
                 recvBuf, alive, torn>>

\* send() took nothing or failed, whatever the reason: logged only.
OnWritableError ==
  /\ pc = "out"
  /\ pc' = "guard"
  /\ UNCHANGED <<channelVars, connVars, pending, batch, peerVars, ghostVars,
                 recvBuf, alive, torn>>

\* A callback of the application returns to the handler that called it.
AppReturn ==
  /\ \/ pc = "inApp" /\ pc' = AfterReadable /\ UNCHANGED <<status, wrShut>>
     \/ /\ pc = "outApp"
        /\ pc' = "guard"
        /\ IF status = "DISCONNECTING" THEN Shutdown
                                       ELSE UNCHANGED <<status, wrShut>>
     \/ pc = "funcApp" /\ pc' = "func" /\ UNCHANGED <<status, wrShut>>
  /\ UNCHANGED <<channelVars, sendBuf, wire, accepted, pending, batch, peerVars,
                 ghostVars, recvBuf, alive, torn>>

\* The end of HandleEventWithGuard.  If OnClose gave the connection up, the
\* guard was the last reference unless the application kept one of its own.
DropGuard ==
  /\ pc = "guard"
  /\ pc' = "swap"
  /\ \/ alive' = alive /\ UNCHANGED channelVars
     \/ status = "DISCONNECTED" /\ alive' = FALSE /\ CloseFd
  /\ UNCHANGED <<connVars, pending, batch, peerVars, ghostVars, recvBuf, torn>>

\* Mutant: the queue is copied, not swapped.
SwapPendingCopied ==
  /\ pc = "swap"
  /\ batch' = pending
  /\ pc' = "func"
  /\ UNCHANGED <<pending, channelVars, connVars, peerVars, ghostVars, recvBuf,
                 alive, torn>>

SwapPending ==
  /\ pc = "swap"
  /\ batch' = pending
  /\ pending' = <<>>
  /\ pc' = "func"
  /\ UNCHANGED <<channelVars, connVars, peerVars, ghostVars, recvBuf, alive,
                 torn>>

RunEstablished ==
  /\ pc = "func"
  /\ batch # <<>> /\ Head(batch).op = "Established"
  /\ batch' = Tail(batch)
  /\ status' = "CONNECTED"
  /\ EnableReadable
  /\ pc' = "funcApp"
  /\ UNCHANGED <<sendBuf, wire, wrShut, accepted, pending, peerVars, ghostVars,
                 recvBuf, alive, torn>>

RunSendInLoop ==
  /\ pc = "func"
  /\ batch # <<>> /\ Head(batch).op = "SendInLoop"
  /\ alive
  /\ batch' = Tail(batch)
  /\ \E complete \in BOOLEAN :
       /\ SendInLoop(Head(batch).data, complete)
       /\ pc' = IF complete THEN "funcApp" ELSE "func"
  /\ UNCHANGED <<pending, peerVars, ghostVars, recvBuf, alive, torn>>

\* The object is gone: the old status may still be read in the freed memory
\* and the data given up, or the process crashes.
RunSendOnDestroyed ==
  /\ pc = "func"
  /\ batch # <<>> /\ Head(batch).op = "SendInLoop"
  /\ ~alive
  /\ batch' = Tail(batch)
  /\ touched' = TRUE
  /\ pc' \in {"func", "crashed"}
  /\ UNCHANGED <<channelVars, connVars, pending, peerVars, issued, closes,
                 recvBuf, alive, torn>>

EndBatch ==
  /\ pc = "func"
  /\ batch = <<>>
  /\ pc' = "poll"
  /\ UNCHANGED <<channelVars, connVars, pending, batch, peerVars, ghostVars,
                 recvBuf, alive, torn>>

LoopStep ==
  \/ LoopOnce
  \/ OnReadableData \/ OnReadableEnd \/ OnReadableError
  \/ OnWritable \/ OnWritableError
  \/ AppReturn \/ DropGuard
  \/ SwapPending \/ RunEstablished \/ RunSendInLoop \/ RunSendOnDestroyed
  \/ EndBatch

-----------------------------------------------------------------------------
(* The owner, and the peer *)

\* Mutant: the status is not looked at.
ConnectDestroyedAlways ==
  /\ Teardown /\ ~torn /\ alive
  /\ torn' = TRUE
  /\ status' = "DISCONNECTED" /\ DisableAll
  /\ UNCHANGED <<sendBuf, wire, wrShut, accepted, loopVars, peerVars, ghostVars,
                 recvBuf, alive>>

\* ~TcpServer and ~TcpClient, on their own thread.
ConnectDestroyed ==
  /\ Teardown /\ ~torn /\ alive
  /\ torn' = TRUE
  /\ IF status = "CONNECTED"
       THEN status' = "DISCONNECTED" /\ DisableAll
       ELSE UNCHANGED <<status, channelVars>>
  /\ UNCHANGED <<sendBuf, wire, wrShut, accepted, loopVars, peerVars, ghostVars,
                 recvBuf, alive>>

PeerSends ==
  /\ peer = "open"
  /\ inbound < MaxInbound
  /\ inbound' = inbound + 1
  /\ UNCHANGED <<channelVars, connVars, loopVars, peer, ghostVars, recvBuf,
                 alive, torn>>

PeerEnds ==
  /\ peer # "reset"
  /\ peer' \in {"fin", "reset"} \ {peer}
  /\ UNCHANGED <<channelVars, connVars, loopVars, inbound, ghostVars, recvBuf,
                 alive, torn>>

Crashed == pc = "crashed" /\ UNCHANGED vars

Next ==
  \/ LoopStep
  \/ \E len \in Lengths :
       \/ SendFromCallback(len)
       \/ \E t \in Producers : SendFromThread(t, len)
  \/ ShutdownFromCallback
  \/ ConnectDestroyed
  \/ PeerSends \/ PeerEnds
  \/ Crashed

Spec == Init /\ [][Next]_vars /\ WF_vars(LoopStep)

-----------------------------------------------------------------------------
(* Properties that hold *)

\* Partial sends, appends to the send buffer and the writable handler neither
\* lose, repeat nor reorder a byte: what the kernel has followed by what is
\* buffered is exactly what SendInLoop took (SendInLoop, OnWritable).
StreamIntegrity == wire \o sendBuf = accepted

\* Stretches of bytes are in order when a thread's bytes come in the order of
\* its calls and no byte comes twice.
InOrder(stretches) ==
  \A k, l \in DOMAIN stretches :
    \A i \in DOMAIN stretches[k], j \in DOMAIN stretches[l] :
      /\ k < l \/ (k = l /\ i < j)
      /\ stretches[k][i].from = stretches[l][j].from
      => stretches[k][i].seq < stretches[l][j].seq

BytesOf(stretches) == UNION {Range(stretches[k]) : k \in DOMAIN stretches}

\* Whatever mixture of direct and queued sends a thread's data went through,
\* the socket sees that thread's bytes in the order of its calls and without
\* a gap, also across Shutdown and fatal errors (Send, SendInLoop).
SenderOrder ==
  LET taken == << wire \o sendBuf >> IN
  /\ InOrder(taken)
  /\ \A b \in BytesOf(taken) :
       {[from |-> b.from, seq |-> k] : k \in 1 .. b.seq} \subseteq BytesOf(taken)

\* What the threads gave to Send, in the order in which the kernel is to get
\* it: what SendInLoop took, then the data of the queued functions.
Stretches ==
  LET tasks == batch \o pending IN
  [k \in 0 .. Len(tasks) |-> IF k = 0 THEN wire \o sendBuf ELSE tasks[k].data]

Issued == {b \in [from : Threads, seq : 1 .. MaxBytes] : b.seq <= issued[b.from]}

\* As long as the connection is up, every byte a thread gave to Send is with
\* the kernel, in the send buffer or queued for the loop, once and in order
\* (Send, RunInLoop, HandlePendingFunc).
NothingLostWhileConnected ==
  status = "CONNECTED" => InOrder(Stretches) /\ BytesOf(Stretches) = Issued

\* The loop is only woken for OUT while there is something to write, and the
\* writable handler never calls send() with nothing to send: otherwise the
\* level-triggered loop would spin (EnableWritable, DisableWritable).
ArmedOnlyWithData ==
  (inEpoll /\ "OUT" \in mask) \/ pc = "out" => sendBuf # <<>>

\* A closed connection is never watched for input again, even when handlers of
\* the same report still run after OnClose, so OnClose runs at most once
\* (OnClose, DisableAll, HandleEvent).
ClosedOnce ==
  /\ closes <= 1
  /\ status = "DISCONNECTED" => ~(inEpoll /\ "IN" \in mask)

StaysShut ==
  status \in {"DISCONNECTING", "DISCONNECTED"} =>
    UNCHANGED accepted /\ status' # "CONNECTED"

\* After Shutdown nothing more is taken for the peer, not even data queued
\* before it, and a shut-down connection never becomes connected again
\* (SendInLoop, Established).
ShutdownIsFinal == [][StaysShut]_vars

\* Whatever the application and other threads do, once the peer has ended the
\* stream the loop notices and closes the connection (Loop, OnReadable).
PeerCloseNoticed == (peer # "open") ~> (status = "DISCONNECTED")

StreamState ==
  CASE status = "CONNECTING" -> "new"
    [] status = "CONNECTED" -> "open"
    [] status = "DISCONNECTING" -> "closing"
    [] status = "DISCONNECTED" -> "closed"

Stream == INSTANCE ByteStream WITH state <- StreamState, delivered <- wire

\* A connection is the stream its callers take it for: data is taken only while
\* it is connected, what reached the kernel is a prefix of what was taken, and
\* the status only moves forward (all of TcpConnection).
ImplementsStream == Stream!Spec

-----------------------------------------------------------------------------
(* What the comments of the code say, and the code does not do *)

\* TcpConnection.cpp:250-251, data the kernel did not take "can be copied to
\* the send buffer and wait to be sent": whenever the loop goes back to poll,
\* buffered data of a connected connection has the socket watched for OUT.
BufferedDataIsArmed ==
  pc = "poll" /\ status = "CONNECTED" /\ sendBuf # <<>> =>
    inEpoll /\ "OUT" \in mask

\* Channel.cpp:54-55, after the TcpConnection is destroyed "no member function
\* or variable of it may be used".
NoUseAfterDestroy == ~touched
=============================================================================
