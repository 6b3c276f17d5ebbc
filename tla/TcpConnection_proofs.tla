------------------------ MODULE TcpConnection_proofs ------------------------
(***************************************************************************)
(* Proofs about TcpConnection, for every set of threads, every message     *)
(* length and every bound.                                                 *)
(***************************************************************************)
EXTENDS TcpConnection, SequenceTheorems, TLAPS

-----------------------------------------------------------------------------
(* Lemmas *)

\* A message of length len, cut at n: the two parts are sequences of bytes and
\* together they are the message (SendInLoop, OnWritable).
LEMMA SplitMessage ==
  ASSUME NEW S, NEW data \in Seq(S), NEW n \in 0 .. Len(data)
  PROVE  /\ SubSeq(data, 1, n) \in Seq(S)
         /\ SubSeq(data, n + 1, Len(data)) \in Seq(S)
         /\ SubSeq(data, 1, n) \o SubSeq(data, n + 1, Len(data)) = data
         /\ n < Len(data) => SubSeq(data, n + 1, Len(data)) # <<>>
         /\ n = Len(data) => SubSeq(data, n + 1, Len(data)) = <<>>
  <1>1. Len(data) \in Nat /\ \A i \in 1 .. Len(data) : data[i] \in S
    BY ElementOfSeq, LenProperties
  <1>2. SubSeq(data, 1, n) \in Seq(S)
    BY <1>1, SubSeqProperties
  <1>3. /\ SubSeq(data, n + 1, Len(data)) \in Seq(S)
        /\ n < Len(data) => Len(SubSeq(data, n + 1, Len(data))) # 0
    BY <1>1, SubSeqProperties
  <1>4. SubSeq(data, 1, n) \o SubSeq(data, n + 1, Len(data))
          = SubSeq(data, 1, Len(data))
    <2>1. /\ 1 \in 1 .. Len(data) + 1
          /\ n \in 1 - 1 .. Len(data)
          /\ Len(data) \in n .. Len(data)
      BY <1>1
    <2>2. QED
      BY <2>1, ConcatAdjacentSubSeq
  <1>5. SubSeq(data, 1, Len(data)) = data
    BY SubSeqFull
  <1>6. n = Len(data) => SubSeq(data, n + 1, Len(data)) = <<>>
    BY <1>1, SubSeqEmpty
  <1>7. QED
    BY <1>2, <1>3, <1>4, <1>5, <1>6, EmptySeq, Zenon

\* Three stretches of data in a row can be grouped either way.
Regroup(a, b, c) == (a \o b) \o c = a \o (b \o c)

LEMMA RegroupBytes == \A a, b, c \in Seq(Byte) : Regroup(a, b, c)
  BY ConcatAssociative DEF Regroup

\* What Send copies is a sequence of bytes.
LEMMA PayloadType ==
  ASSUME TypeOK, NEW t \in Threads, NEW len \in Nat
  PROVE  Payload(t, len) \in Seq(Byte)
  <1>1. \A i \in 1 .. len : [from |-> t, seq |-> issued[t] + i] \in Byte
    BY DEF TypeOK, Byte
  <1>2. QED
    BY <1>1 DEF Payload

\* The count of what a thread sent keeps within its bound.
LEMMA IssuedType ==
  ASSUME TypeOK, NEW t \in Threads, NEW len \in Lengths, Issue(t, len)
  PROVE  issued' \in [Threads -> 0 .. MaxBytes]
  <1>1. len \in Nat /\ MaxBytes \in Nat
    BY LengthsAssumption, BoundsAssumption DEF LengthsAssumption, BoundsAssumption
  <1>2. issued[t] + len \in 0 .. MaxBytes
    BY <1>1 DEF Issue, TypeOK
  <1>3. QED
    BY <1>2 DEF Issue, TypeOK

\* Any update of the channel leaves it well-typed.
LEMMA UpdateChannelType ==
  ASSUME ChannelTypeOK, NEW ev \in SUBSET Events, NEW st \in ChannelStatus,
         UpdateChannel(ev, st)
  PROVE  ChannelTypeOK'
  BY DEF ChannelTypeOK, UpdateChannel, Events, ChannelStatus

\* Every operation of a channel keeps the types of its variables.
LEMMA ChannelTypes ==
  ASSUME ChannelTypeOK
  PROVE  /\ EnableReadable => ChannelTypeOK'
         /\ EnableWritable => ChannelTypeOK'
         /\ DisableWritable => ChannelTypeOK'
         /\ DisableAll => ChannelTypeOK'
         /\ CloseFd => ChannelTypeOK'
         /\ UNCHANGED channelVars => ChannelTypeOK'
  <1>1. /\ epEvent \cup {"IN"} \in SUBSET Events
        /\ epEvent \cup {"OUT"} \in SUBSET Events
        /\ epEvent \ {"OUT"} \in SUBSET Events
        /\ {} \in SUBSET Events
        /\ chStatus \in ChannelStatus /\ "DEL" \in ChannelStatus
    BY DEF ChannelTypeOK, Events, ChannelStatus
  <1>2. QED
    BY <1>1, UpdateChannelType
    DEF EnableReadable, EnableWritable, DisableWritable, DisableAll, CloseFd,
        ChannelTypeOK, channelVars

-----------------------------------------------------------------------------
(* Type correctness *)

\* SendInLoop keeps the connection's own variables well-typed.
LEMMA SendInLoopType ==
  ASSUME TypeOK, NEW data \in Seq(Byte), NEW complete, SendInLoop(data, complete)
  PROVE  /\ ChannelTypeOK'
         /\ status' \in {"CONNECTED", "DISCONNECTING", "DISCONNECTED", "CONNECTING"}
         /\ sendBuf' \in Seq(Byte) /\ wire' \in Seq(Byte)
         /\ accepted' \in Seq(Byte)
         /\ wrShut' \in BOOLEAN
  <1> USE DEF TypeOK
  <1>1. CASE UNCHANGED <<connVars, channelVars>>
    BY <1>1, ChannelTypes DEF connVars
  <1>2. CASE \E n \in 0 .. Len(data) : SendDirectly(data, n)
    <2>1. PICK n \in 0 .. Len(data) : SendDirectly(data, n)
      BY <1>2
    <2>2. /\ SubSeq(data, 1, n) \in Seq(Byte)
          /\ SubSeq(data, n + 1, Len(data)) \in Seq(Byte)
      BY SplitMessage
    <2>3. ChannelTypeOK'
      BY <2>1, ChannelTypes DEF SendDirectly
    <2>4. /\ wire' = wire \o SubSeq(data, 1, n)
          /\ sendBuf' = SubSeq(data, n + 1, Len(data))
          /\ accepted' = accepted \o data
          /\ UNCHANGED <<status, wrShut>>
      BY <2>1 DEF SendDirectly
    <2>5. QED
      BY <2>2, <2>3, <2>4
  <1>3. CASE SendFatal
    BY <1>3, ChannelTypes DEF SendFatal, Shutdown, IsWriting
  <1>4. CASE AppendToSendBuffer(data)
    <2>1. ChannelTypeOK'
      BY <1>4, ChannelTypes DEF AppendToSendBuffer
    <2>2. QED
      BY <1>4, <2>1 DEF AppendToSendBuffer
  <1>5. QED
    BY <1>1, <1>2, <1>3, <1>4 DEF SendInLoop

\* Every variable keeps its type.
THEOREM TypeCorrect == Spec => []TypeOK
  <1>1. Init => TypeOK
    <2> SUFFICES ASSUME Init PROVE TypeOK
      OBVIOUS
    <2>1. ChannelTypeOK
      BY DEF Init, ChannelInit, ChannelTypeOK, ChannelStatus
    <2>2. /\ pending \in Seq(Task) /\ batch \in Seq(Task)
          /\ sendBuf \in Seq(Byte) /\ wire \in Seq(Byte)
          /\ accepted \in Seq(Byte)
      <3>1. [op |-> "Established", data |-> <<>>] \in Task
        BY DEF Task
      <3>2. QED
        BY <3>1 DEF Init
    <2>3. QED
      <3>1. /\ recvBuf \in 0 .. RecvCap /\ inbound \in 0 .. MaxInbound
            /\ issued \in [Threads -> 0 .. MaxBytes]
        BY BoundsAssumption DEF Init, BoundsAssumption
      <3>2. QED
        BY <2>1, <2>2, <3>1 DEF Init, TypeOK
  <1>2. TypeOK /\ [Next]_vars => TypeOK'
    <2> SUFFICES ASSUME TypeOK, [Next]_vars
                 PROVE  TypeOK'
      OBVIOUS
    <2>1. CASE UNCHANGED vars
      BY <2>1 DEF vars, TypeOK, ChannelTypeOK, channelVars, connVars, loopVars,
                  peerVars, ghostVars
    <2>2. CASE LoopOnce
      <3>1. ChannelTypeOK'
        BY <2>2 DEF LoopOnce, TypeOK, ChannelTypeOK, SetEvent, channelVars,
                    Readable, Events
      <3>2. QED
        BY <2>2, <3>1 DEF LoopOnce, TypeOK, connVars, peerVars, ghostVars
    <2>3. CASE OnReadableData
      <3>1. inbound' \in 0 .. MaxInbound /\ recvBuf' \in 0 .. RecvCap
        BY <2>3, BoundsAssumption DEF OnReadableData, TypeOK, BoundsAssumption
      <3>2. QED
        BY <2>3, <3>1, ChannelTypes DEF OnReadableData, TypeOK, connVars,
                                        ghostVars, AppCode
    <2>4. CASE OnReadableEnd
      BY <2>4, ChannelTypes DEF OnReadableEnd, OnClose, TypeOK, peerVars,
                                AfterReadable
    <2>5. CASE OnReadableError
      <3>1. inbound' \in 0 .. MaxInbound
        BY <2>5, BoundsAssumption DEF OnReadableError, TypeOK, BoundsAssumption
      <3>2. QED
        BY <2>5, <3>1, ChannelTypes DEF OnReadableError, OnClose, TypeOK,
                                        AfterReadable
    <2>6. CASE OnWritable
      <3>1. PICK n \in 1 .. Len(sendBuf) :
              /\ wire' = wire \o SubSeq(sendBuf, 1, n)
              /\ sendBuf' = SubSeq(sendBuf, n + 1, Len(sendBuf))
              /\ IF n = Len(sendBuf)
                   THEN DisableWritable /\ pc' = "outApp"
                   ELSE UNCHANGED channelVars /\ pc' = "guard"
        BY <2>6 DEF OnWritable
      <3>2. sendBuf \in Seq(Byte) /\ wire \in Seq(Byte) /\ n \in 0 .. Len(sendBuf)
        BY DEF TypeOK
      <3>3. wire' \in Seq(Byte) /\ sendBuf' \in Seq(Byte)
        BY <3>1, <3>2, SplitMessage
      <3>4. ChannelTypeOK'
        BY <3>1, ChannelTypes DEF TypeOK
      <3>5. QED
        BY <2>6, <3>1, <3>3, <3>4 DEF OnWritable, TypeOK, peerVars, ghostVars,
                                      AppCode
    <2>7. CASE OnWritableError
      BY <2>7, ChannelTypes DEF OnWritableError, TypeOK, connVars, peerVars,
                                ghostVars
    <2>8. CASE AppReturn
      BY <2>8, ChannelTypes DEF AppReturn, TypeOK, peerVars, ghostVars,
                                AfterReadable, Shutdown
    <2>9. CASE DropGuard
      BY <2>9, ChannelTypes DEF DropGuard, TypeOK, connVars, peerVars, ghostVars
    <2>10. CASE SwapPending
      BY <2>10, ChannelTypes DEF SwapPending, TypeOK, connVars, peerVars,
                                 ghostVars
    <2>11. CASE RunEstablished
      <3>1. Tail(batch) \in Seq(Task)
        BY <2>11 DEF RunEstablished, TypeOK
      <3>2. QED
        BY <2>11, <3>1, ChannelTypes DEF RunEstablished, TypeOK, peerVars,
                                         ghostVars, AppCode
    <2>12. CASE RunSendInLoop
      <3>1. Tail(batch) \in Seq(Task) /\ Head(batch) \in Task
        BY <2>12 DEF RunSendInLoop, TypeOK
      <3>2. Head(batch).data \in Seq(Byte)
        BY <3>1 DEF Task
      <3>3. PICK complete \in BOOLEAN :
              /\ SendInLoop(Head(batch).data, complete)
              /\ pc' = IF complete THEN "funcApp" ELSE "func"
        BY <2>12 DEF RunSendInLoop
      <3>4. QED
        BY <2>12, <3>1, <3>2, <3>3, SendInLoopType
        DEF RunSendInLoop, TypeOK, peerVars, ghostVars, AppCode
    <2>13. CASE RunSendOnDestroyed
      <3>1. Tail(batch) \in Seq(Task)
        BY <2>13 DEF RunSendOnDestroyed, TypeOK
      <3>2. QED
        BY <2>13, <3>1, ChannelTypes DEF RunSendOnDestroyed, TypeOK, connVars,
                                         peerVars
    <2>14. CASE EndBatch
      BY <2>14, ChannelTypes DEF EndBatch, TypeOK, connVars, peerVars, ghostVars
    <2>15. ASSUME NEW len \in Lengths, SendFromCallback(len)
           PROVE  TypeOK'
      <3>1. PICK complete \in BOOLEAN :
              SendInLoop(Payload(LoopThread, len), complete)
        BY <2>15 DEF SendFromCallback
      <3>2. Payload(LoopThread, len) \in Seq(Byte)
        BY PayloadType, LengthsAssumption DEF Threads, LengthsAssumption
      <3>3. issued' \in [Threads -> 0 .. MaxBytes]
        BY <2>15, IssuedType DEF SendFromCallback, Threads
      <3>4. QED
        BY <2>15, <3>1, <3>2, <3>3, SendInLoopType
        DEF SendFromCallback, TypeOK, loopVars, peerVars
    <2>16. ASSUME NEW len \in Lengths, NEW t \in Producers, SendFromThread(t, len)
           PROVE  TypeOK'
      <3>1. Payload(t, len) \in Seq(Byte)
        BY PayloadType, LengthsAssumption DEF Threads, LengthsAssumption
      <3>2. pending' \in Seq(Task)
        BY <2>16, <3>1 DEF SendFromThread, TypeOK, Task
      <3>3. issued' \in [Threads -> 0 .. MaxBytes]
        BY <2>16, IssuedType DEF SendFromThread, Threads
      <3>4. QED
        BY <2>16, <3>2, <3>3, ChannelTypes DEF SendFromThread, TypeOK, connVars,
                                               peerVars
    <2>17. CASE ShutdownFromCallback
      BY <2>17, ChannelTypes DEF ShutdownFromCallback, Shutdown, TypeOK, loopVars,
                                 peerVars, ghostVars, IsWriting
    <2>18. CASE ConnectDestroyed
      BY <2>18, ChannelTypes DEF ConnectDestroyed, TypeOK, loopVars, peerVars,
                                 ghostVars
    <2>19. CASE PeerSends
      <3>1. inbound' \in 0 .. MaxInbound
        BY <2>19, BoundsAssumption DEF PeerSends, TypeOK, BoundsAssumption
      <3>2. QED
        BY <2>19, <3>1, ChannelTypes DEF PeerSends, TypeOK, connVars, loopVars,
                                         ghostVars
    <2>20. CASE PeerEnds
      BY <2>20, ChannelTypes DEF PeerEnds, TypeOK, connVars, loopVars, ghostVars
    <2>21. CASE Crashed
      BY <2>1, <2>21 DEF Crashed
    <2>22. QED
      BY <2>1, <2>2, <2>3, <2>4, <2>5, <2>6, <2>7, <2>8, <2>9, <2>10, <2>11,
         <2>12, <2>13, <2>14, <2>15, <2>16, <2>17, <2>18, <2>19, <2>20, <2>21
      DEF Next, LoopStep
  <1>3. QED
    BY <1>1, <1>2, PTL DEF Spec

-----------------------------------------------------------------------------
(* Stream integrity *)

\* Only SendInLoop and the writable handler touch the outgoing data.
LEMMA StreamSteps ==
  ASSUME TypeOK, [Next]_vars
  PROVE  \/ \E data \in Seq(Byte), complete \in BOOLEAN :
              SendInLoop(data, complete)
         \/ OnWritable
         \/ UNCHANGED <<sendBuf, wire, accepted>>
  <1>1. ASSUME NEW len \in Lengths, SendFromCallback(len)
        PROVE  \E data \in Seq(Byte), complete \in BOOLEAN :
                 SendInLoop(data, complete)
    <2>1. Payload(LoopThread, len) \in Seq(Byte)
      BY PayloadType, LengthsAssumption DEF Threads, LengthsAssumption
    <2>2. QED
      BY <1>1, <2>1 DEF SendFromCallback
  <1>2. ASSUME RunSendInLoop
        PROVE  \E data \in Seq(Byte), complete \in BOOLEAN :
                 SendInLoop(data, complete)
    <2>1. Head(batch) \in Task
      BY <1>2 DEF RunSendInLoop, TypeOK
    <2>2. Head(batch).data \in Seq(Byte)
      BY <2>1 DEF Task
    <2>3. QED
      BY <1>2, <2>2 DEF RunSendInLoop
  <1>3. ASSUME LoopStep, ~RunSendInLoop, ~OnWritable
        PROVE  UNCHANGED <<sendBuf, wire, accepted>>
    BY <1>3
    DEF LoopStep, LoopOnce, OnReadableData, OnReadableEnd, OnReadableError,
        OnWritableError, AppReturn, DropGuard, SwapPending, RunEstablished,
        RunSendOnDestroyed, EndBatch, connVars
  <1>4. ASSUME NEW len \in Lengths, NEW t \in Producers, SendFromThread(t, len)
        PROVE  UNCHANGED <<sendBuf, wire, accepted>>
    BY <1>4 DEF SendFromThread, connVars
  <1>5. ASSUME \/ ShutdownFromCallback \/ ConnectDestroyed
               \/ PeerSends \/ PeerEnds \/ Crashed \/ UNCHANGED vars
        PROVE  UNCHANGED <<sendBuf, wire, accepted>>
    BY <1>5 DEF ShutdownFromCallback, ConnectDestroyed, PeerSends, PeerEnds,
                Crashed, vars, connVars
  <1>6. QED
    BY <1>1, <1>2, <1>3, <1>4, <1>5 DEF Next

\* One SendInLoop: what the kernel took, what is buffered and what was taken
\* from the caller grow by the same bytes.
LEMMA SendInLoopIntegrity ==
  ASSUME TypeOK, StreamIntegrity,
         NEW data \in Seq(Byte), NEW complete, SendInLoop(data, complete)
  PROVE  StreamIntegrity'
  <1> USE DEF StreamIntegrity
  <1>1. wire \in Seq(Byte) /\ sendBuf \in Seq(Byte) /\ accepted \in Seq(Byte)
    BY DEF TypeOK
  <1>2. CASE UNCHANGED <<connVars, channelVars>>
    BY <1>2 DEF connVars
  <1>3. CASE \E n \in 0 .. Len(data) : SendDirectly(data, n)
    <2>1. PICK n \in 0 .. Len(data) : SendDirectly(data, n)
      BY <1>3
    <2> DEFINE sent == SubSeq(data, 1, n)
               rest == SubSeq(data, n + 1, Len(data))
    <2>2. sent \in Seq(Byte) /\ rest \in Seq(Byte)
      BY SplitMessage
    <2>3. sent \o rest = data
      BY SplitMessage
    <2>4. wire' = wire \o sent /\ sendBuf' = rest /\ accepted' = accepted \o data
      BY <2>1 DEF SendDirectly
    <2>5. accepted = wire
      BY <1>1, <2>1, ConcatEmptySeq DEF SendDirectly
    <2> HIDE DEF sent, rest
    <2>6. Regroup(wire, sent, rest)
      BY <1>1, <2>2, RegroupBytes
    <2>7. wire' \o sendBuf' = wire \o data
      BY <2>3, <2>4, <2>6, Zenon DEF Regroup
    <2>8. accepted' = wire \o data
      BY <2>4, <2>5, Zenon
    <2>9. QED
      BY <2>7, <2>8
  <1>4. CASE SendFatal
    BY <1>4 DEF SendFatal
  <1>5. CASE AppendToSendBuffer(data)
    <2>1. Regroup(wire, sendBuf, data)
      BY <1>1, RegroupBytes
    <2>2. QED
      BY <1>5, <2>1 DEF AppendToSendBuffer, Regroup
  <1>6. QED
    BY <1>2, <1>3, <1>4, <1>5 DEF SendInLoop

\* The writable handler moves bytes from the buffer to the kernel.
LEMMA OnWritableIntegrity ==
  ASSUME TypeOK, StreamIntegrity, OnWritable
  PROVE  StreamIntegrity'
  <1>1. PICK n \in 1 .. Len(sendBuf) :
          /\ wire' = wire \o SubSeq(sendBuf, 1, n)
          /\ sendBuf' = SubSeq(sendBuf, n + 1, Len(sendBuf))
    BY DEF OnWritable
  <1> DEFINE sent == SubSeq(sendBuf, 1, n)
             rest == SubSeq(sendBuf, n + 1, Len(sendBuf))
  <1>2. wire \in Seq(Byte) /\ sendBuf \in Seq(Byte) /\ n \in 0 .. Len(sendBuf)
    BY DEF TypeOK
  <1>3. sent \in Seq(Byte) /\ rest \in Seq(Byte) /\ sent \o rest = sendBuf
    BY <1>2, SplitMessage
  <1>4. wire' = wire \o sent /\ sendBuf' = rest /\ accepted' = accepted
    BY <1>1 DEF OnWritable
  <1> HIDE DEF sent, rest
  <1>5. Regroup(wire, sent, rest)
    BY <1>2, <1>3, RegroupBytes
  <1>6. QED
    BY <1>3, <1>4, <1>5 DEF StreamIntegrity, Regroup

\* What the kernel has followed by what is buffered is what SendInLoop took.
THEOREM Integrity == Spec => []StreamIntegrity
  <1>1. Init => StreamIntegrity
    <2> SUFFICES ASSUME Init PROVE StreamIntegrity
      OBVIOUS
    <2>1. <<>> \in Seq(Byte)
      OBVIOUS
    <2>2. <<>> \o <<>> = <<>>
      BY <2>1, ConcatEmptySeq
    <2>3. QED
      BY <2>2 DEF Init, StreamIntegrity
  <1>2. TypeOK /\ StreamIntegrity /\ [Next]_vars => StreamIntegrity'
    <2> SUFFICES ASSUME TypeOK, StreamIntegrity, [Next]_vars
                 PROVE  StreamIntegrity'
      OBVIOUS
    <2>1. CASE \E data \in Seq(Byte), complete \in BOOLEAN :
                 SendInLoop(data, complete)
      BY <2>1, SendInLoopIntegrity
    <2>2. CASE OnWritable
      BY <2>2, OnWritableIntegrity
    <2>3. CASE UNCHANGED <<sendBuf, wire, accepted>>
      BY <2>3 DEF StreamIntegrity
    <2>4. QED
      BY <2>1, <2>2, <2>3, StreamSteps
  <1>3. QED
    BY <1>1, <1>2, TypeCorrect, PTL DEF Spec

-----------------------------------------------------------------------------
(* The inductive invariant *)

\* The kernel watches a registered descriptor for what the channel asked for.
ChannelInSync ==
  /\ chStatus # "DEL"
  /\ mask = IF inEpoll THEN epEvent ELSE {}

\* OUT is only asked for while something is buffered, and the report a handler
\* is working on is no older than that.
ArmedInv ==
  /\ "OUT" \in epEvent => sendBuf # <<>>
  /\ pc \in {"in", "inApp", "out"} /\ IsWriting => sendBuf # <<>>
  /\ pc = "out" => IsWriting

EstablishedTask == [op |-> "Established", data |-> <<>>]
SendTask == {task \in Task : task.op = "SendInLoop"}

\* Established is queued once, before anything else, and until it has run the
\* connection does nothing.
TaskInv ==
  /\ batch = <<>> \/ pc \in {"func", "funcApp", "crashed"}
  /\ \/ /\ status = "CONNECTING"
        /\ ~inEpoll /\ accepted = <<>>
        /\ pc \in {"poll", "swap", "func"}
        /\ \/ pending = <<EstablishedTask>> /\ batch = <<>>
           \/ pending = <<>> /\ batch = <<EstablishedTask>>
     \/ /\ status # "CONNECTING"
        /\ pending \in Seq(SendTask) /\ batch \in Seq(SendTask)

\* Input is not asked for after OnClose, and the readable handler only runs
\* on a connection that OnClose has not closed.
CloseInv ==
  /\ closes = 0 \/ (closes = 1 /\ status = "DISCONNECTED")
  /\ status = "DISCONNECTED" => "IN" \notin epEvent
  /\ pc = "in" => closes = 0

IInv == TypeOK /\ ChannelInSync /\ ArmedInv /\ TaskInv /\ CloseInv

\* Every step changes the channel through one of its operations, or not at all.
LEMMA ChannelSteps ==
  ASSUME [Next]_vars
  PROVE  \/ UNCHANGED channelVars
         \/ EnableReadable \/ EnableWritable \/ DisableWritable \/ DisableAll
         \/ CloseFd
         \/ \E ev : SetEvent(ev)
  <1>1. ASSUME NEW data, NEW complete, SendInLoop(data, complete)
        PROVE  UNCHANGED channelVars \/ EnableWritable
    BY <1>1 DEF SendInLoop, SendDirectly, SendFatal, AppendToSendBuffer
  <1>2. ASSUME NEW len \in Lengths, SendFromCallback(len)
        PROVE  UNCHANGED channelVars \/ EnableWritable
    BY <1>1, <1>2 DEF SendFromCallback
  <1>3. ASSUME RunSendInLoop
        PROVE  UNCHANGED channelVars \/ EnableWritable
    BY <1>1, <1>3 DEF RunSendInLoop
  <1>4. ASSUME NEW len \in Lengths, NEW t \in Producers, SendFromThread(t, len)
        PROVE  UNCHANGED channelVars
    BY <1>4 DEF SendFromThread
  <1>5. QED
    BY <1>2, <1>3, <1>4
    DEF Next, LoopStep, LoopOnce, OnReadableData, OnReadableEnd, OnReadableError,
        OnWritable, OnWritableError, AppReturn, DropGuard, SwapPending,
        RunEstablished, RunSendOnDestroyed, EndBatch, ShutdownFromCallback,
        ConnectDestroyed, PeerSends, PeerEnds, Crashed, OnClose, vars

\* The kernel's view of the channel follows the channel's own.
LEMMA SyncStep ==
  ASSUME ChannelInSync, [Next]_vars
  PROVE  ChannelInSync'
  <1> USE DEF ChannelInSync
  <1>1. CASE UNCHANGED channelVars
    BY <1>1 DEF channelVars
  <1>2. CASE \E ev : SetEvent(ev)
    BY <1>2 DEF SetEvent
  <1>3. CASE CloseFd
    BY <1>3 DEF CloseFd
  <1>4. ASSUME NEW ev, NEW st, UpdateChannel(ev, st)
        PROVE  ChannelInSync'
    BY <1>4 DEF UpdateChannel
  <1>5. QED
    BY <1>1, <1>2, <1>3, <1>4, ChannelSteps
    DEF EnableReadable, EnableWritable, DisableWritable, DisableAll

-----------------------------------------------------------------------------
(* OUT is armed only while data is buffered *)

\* SendInLoop arms OUT only after it has buffered something.
LEMMA SendInLoopArmed ==
  ASSUME TypeOK, ArmedInv, NEW data \in Seq(Byte), NEW complete,
         SendInLoop(data, complete)
  PROVE  /\ "OUT" \in epEvent' => sendBuf' # <<>>
         /\ sendBuf # <<>> => sendBuf' # <<>>
         /\ event' = event
  <1>1. CASE UNCHANGED <<connVars, channelVars>>
    BY <1>1 DEF connVars, channelVars, ArmedInv
  <1>2. CASE \E n \in 0 .. Len(data) : SendDirectly(data, n)
    <2>1. PICK n \in 0 .. Len(data) : SendDirectly(data, n)
      BY <1>2
    <2>2. Len(data) \in Nat
      OBVIOUS
    <2>3. CASE n < Len(data)
      <3>1. SubSeq(data, n + 1, Len(data)) # <<>>
        BY <2>3, SplitMessage
      <3>2. QED
        BY <2>1, <2>3, <3>1 DEF SendDirectly, EnableWritable, UpdateChannel
    <2>4. CASE ~(n < Len(data))
      BY <2>1, <2>4 DEF SendDirectly, ArmedInv, channelVars
    <2>5. QED
      BY <2>3, <2>4
  <1>3. CASE SendFatal
    BY <1>3 DEF SendFatal, ArmedInv, channelVars
  <1>4. CASE AppendToSendBuffer(data)
    <2>1. sendBuf \in Seq(Byte)
      BY DEF TypeOK
    <2>2. sendBuf # <<>> => sendBuf \o data # <<>>
      BY <2>1, ConcatEqualIffEmpty
    <2>3. CASE IsWriting
      BY <1>4, <2>2, <2>3 DEF AppendToSendBuffer, ArmedInv, channelVars
    <2>4. CASE ~IsWriting
      BY <1>4, <2>2, <2>4
      DEF AppendToSendBuffer, EnableWritable, UpdateChannel
    <2>5. QED
      BY <2>3, <2>4
  <1>5. QED
    BY <1>1, <1>2, <1>3, <1>4 DEF SendInLoop

\* No step leaves the socket watched for OUT, or the loop in OnWritable, without
\* data to write.
LEMMA ArmedStep ==
  ASSUME TypeOK, ChannelInSync, ArmedInv, [Next]_vars
  PROVE  ArmedInv'
  <1>1. CASE LoopOnce
    <2>1. PICK writable \in SUBSET ({"OUT"} \cap mask) :
            IF inEpoll /\ (Readable \cup writable # {} \/ HangUp)
              THEN /\ SetEvent(Readable \cup writable)
                   /\ pc' = IF "IN" \in Readable \cup writable THEN "in"
                            ELSE IF "OUT" \in Readable \cup writable THEN "out"
                            ELSE "guard"
              ELSE pc' = "swap" /\ UNCHANGED channelVars
      BY <1>1 DEF LoopOnce
    <2>2. "OUT" \in mask => sendBuf # <<>>
      BY DEF ChannelInSync, ArmedInv
    <2>3. "OUT" \in Readable \cup writable => "OUT" \in mask
      BY DEF Readable
    <2>4. sendBuf' = sendBuf
      BY <1>1 DEF LoopOnce, connVars
    <2>5. QED
      BY <2>1, <2>2, <2>3, <2>4 DEF ArmedInv, SetEvent, channelVars, IsWriting
  <1>2. CASE OnReadableData
    BY <1>2 DEF OnReadableData, ArmedInv, channelVars, connVars, IsWriting
  <1>3. CASE OnReadableEnd \/ OnReadableError
    BY <1>3 DEF OnReadableEnd, OnReadableError, OnClose, DisableAll,
                UpdateChannel, ArmedInv, AfterReadable, IsWriting, channelVars
  <1>4. CASE OnWritable
    <2>1. PICK n \in 1 .. Len(sendBuf) :
            /\ sendBuf' = SubSeq(sendBuf, n + 1, Len(sendBuf))
            /\ IF n = Len(sendBuf)
                 THEN DisableWritable /\ pc' = "outApp"
                 ELSE UNCHANGED channelVars /\ pc' = "guard"
      BY <1>4 DEF OnWritable
    <2>2. sendBuf \in Seq(Byte) /\ n \in 0 .. Len(sendBuf) /\ Len(sendBuf) \in Nat
      BY DEF TypeOK
    <2>3. n < Len(sendBuf) => sendBuf' # <<>>
      BY <2>1, <2>2, SplitMessage
    <2>4. CASE n = Len(sendBuf)
      BY <2>1, <2>4 DEF ArmedInv, DisableWritable, UpdateChannel
    <2>5. CASE n # Len(sendBuf)
      BY <2>1, <2>2, <2>3, <2>5 DEF ArmedInv
    <2>6. QED
      BY <2>4, <2>5
  <1>5. CASE \/ OnWritableError \/ SwapPending \/ RunSendOnDestroyed \/ EndBatch
             \/ PeerSends \/ PeerEnds \/ Crashed \/ UNCHANGED vars
             \/ ShutdownFromCallback
    BY <1>5 DEF OnWritableError, SwapPending, RunSendOnDestroyed, EndBatch,
                PeerSends, PeerEnds, Crashed, ShutdownFromCallback, vars,
                ArmedInv, channelVars, connVars, loopVars, IsWriting
  <1>6. CASE AppReturn
    BY <1>6 DEF AppReturn, AfterReadable, ArmedInv, channelVars, IsWriting
  <1>7. CASE DropGuard
    BY <1>7 DEF DropGuard, CloseFd, ArmedInv, channelVars, connVars
  <1>8. CASE RunEstablished
    BY <1>8 DEF RunEstablished, EnableReadable, UpdateChannel, ArmedInv
  <1>9. CASE ConnectDestroyed
    BY <1>9 DEF ConnectDestroyed, DisableAll, UpdateChannel, ArmedInv,
                channelVars, loopVars, IsWriting
  <1>10. ASSUME NEW data \in Seq(Byte), NEW complete, SendInLoop(data, complete),
                pc' = pc \/ pc' \notin {"in", "inApp", "out"}
         PROVE  ArmedInv'
    BY <1>10, SendInLoopArmed DEF ArmedInv, IsWriting
  <1>11. CASE RunSendInLoop
    <2>1. Head(batch) \in Task
      BY <1>11 DEF RunSendInLoop, TypeOK
    <2>2. Head(batch).data \in Seq(Byte)
      BY <2>1 DEF Task
    <2>3. QED
      BY <1>10, <1>11, <2>2 DEF RunSendInLoop
  <1>12. ASSUME NEW len \in Lengths, SendFromCallback(len)
         PROVE  ArmedInv'
    <2>1. Payload(LoopThread, len) \in Seq(Byte)
      BY PayloadType, LengthsAssumption DEF Threads, LengthsAssumption
    <2>2. QED
      BY <1>10, <1>12, <2>1 DEF SendFromCallback, loopVars
  <1>13. ASSUME NEW len \in Lengths, NEW t \in Producers, SendFromThread(t, len)
         PROVE  ArmedInv'
    BY <1>13 DEF SendFromThread, ArmedInv, channelVars, connVars, IsWriting
  <1>14. QED
    BY <1>1, <1>2, <1>3, <1>4, <1>5, <1>6, <1>7, <1>8, <1>9, <1>11, <1>12, <1>13
    DEF Next, LoopStep

-----------------------------------------------------------------------------
(* Established runs first, and once *)

\* While Established is queued no handler and no sender does anything.
LEMMA ConnectingSteps ==
  ASSUME TypeOK, TaskInv, status = "CONNECTING", [Next]_vars
  PROVE  TaskInv' /\ closes' = closes
  <1> USE DEF TaskInv, EstablishedTask
  <1>1. Head(<<EstablishedTask>>).op = "Established" /\ Tail(<<EstablishedTask>>) = <<>>
    BY DEF EstablishedTask
  <1>2. <<>> \in Seq(SendTask)
    OBVIOUS
  <1>3. CASE LoopOnce
    BY <1>3 DEF LoopOnce, connVars, channelVars, ghostVars
  <1>4. CASE SwapPending
    BY <1>4 DEF SwapPending, connVars, channelVars, ghostVars
  <1>5. CASE RunEstablished
    <2>1. batch = <<EstablishedTask>> /\ pending = <<>>
      BY <1>5 DEF RunEstablished
    <2>2. batch' = <<>> /\ pending' = <<>> /\ status' = "CONNECTED" /\ pc' = "funcApp"
      BY <1>1, <1>5, <2>1 DEF RunEstablished
    <2>3. QED
      BY <1>2, <1>5, <2>2 DEF RunEstablished, ghostVars
  <1>6. CASE EndBatch
    BY <1>6 DEF EndBatch, connVars, channelVars, ghostVars
  <1>7. CASE PeerSends \/ PeerEnds \/ UNCHANGED vars \/ ConnectDestroyed
    BY <1>7 DEF PeerSends, PeerEnds, ConnectDestroyed, vars, connVars, channelVars,
                loopVars, ghostVars
  <1>8. batch # <<>> => Head(batch).op = "Established"
    BY <1>1
  <1>9. ~RunSendInLoop /\ ~RunSendOnDestroyed
    BY <1>8 DEF RunSendInLoop, RunSendOnDestroyed
  <1>10. QED
    BY <1>3, <1>4, <1>5, <1>6, <1>7, <1>9
    DEF Next, LoopStep, OnReadableData, OnReadableEnd, OnReadableError,
        OnWritable, OnWritableError, AppReturn, DropGuard, AppCode,
        SendFromCallback, SendFromThread, ShutdownFromCallback, Crashed

\* Afterwards only SendInLoop is ever queued.
LEMMA TaskStep ==
  ASSUME TypeOK, TaskInv, [Next]_vars
  PROVE  TaskInv'
  <1>1. CASE status = "CONNECTING"
    BY <1>1, ConnectingSteps
  <1>2. CASE status # "CONNECTING"
    <2> USE DEF TaskInv
    <2>1. pending \in Seq(SendTask) /\ batch \in Seq(SendTask)
      BY <1>2
    <2>2. batch # <<>> => Head(batch) \in SendTask /\ Tail(batch) \in Seq(SendTask)
      BY <2>1
    <2>3. ~RunEstablished
      BY <2>2 DEF RunEstablished, SendTask
    <2>4. ASSUME NEW data, NEW complete, SendInLoop(data, complete)
          PROVE  status' # "CONNECTING"
      BY <1>2, <2>4 DEF SendInLoop, SendDirectly, SendFatal, AppendToSendBuffer,
                        Shutdown, connVars
    <2>5. CASE LoopOnce \/ OnReadableData \/ OnReadableEnd \/ OnReadableError
               \/ OnWritable \/ OnWritableError
      BY <1>2, <2>1, <2>5
      DEF LoopOnce, OnReadableData, OnReadableEnd, OnReadableError, OnClose,
          OnWritable, OnWritableError, connVars
    <2>6. CASE AppReturn
      BY <1>2, <2>1, <2>6 DEF AppReturn, Shutdown
    <2>7. CASE DropGuard \/ EndBatch
      BY <1>2, <2>1, <2>7 DEF DropGuard, EndBatch, connVars
    <2>8. CASE SwapPending
      BY <1>2, <2>1, <2>8 DEF SwapPending, connVars
    <2>9. CASE RunSendInLoop
      BY <1>2, <2>1, <2>2, <2>4, <2>9 DEF RunSendInLoop
    <2>10. CASE RunSendOnDestroyed
      BY <1>2, <2>1, <2>2, <2>10 DEF RunSendOnDestroyed, connVars
    <2>11. ASSUME NEW len \in Lengths, SendFromCallback(len)
           PROVE  TaskInv'
      BY <1>2, <2>1, <2>4, <2>11 DEF SendFromCallback, loopVars
    <2>12. ASSUME NEW len \in Lengths, NEW t \in Producers, SendFromThread(t, len)
           PROVE  TaskInv'
      <3>1. Payload(t, len) \in Seq(Byte)
        BY PayloadType, LengthsAssumption DEF Threads, LengthsAssumption
      <3>2. [op |-> "SendInLoop", data |-> Payload(t, len)] \in SendTask
        BY <3>1 DEF SendTask, Task
      <3>3. pending' \in Seq(SendTask)
        BY <2>1, <2>12, <3>2 DEF SendFromThread
      <3>4. QED
        BY <1>2, <2>1, <2>12, <3>3 DEF SendFromThread, connVars
    <2>13. CASE ShutdownFromCallback \/ ConnectDestroyed
      BY <1>2, <2>1, <2>13 DEF ShutdownFromCallback, ConnectDestroyed, Shutdown,
                               loopVars
    <2>14. CASE PeerSends \/ PeerEnds \/ Crashed \/ UNCHANGED vars
      BY <1>2, <2>1, <2>14 DEF PeerSends, PeerEnds, Crashed, vars, connVars,
                               loopVars
    <2>15. QED
      BY <2>3, <2>5, <2>6, <2>7, <2>8, <2>9, <2>10, <2>11, <2>12, <2>13, <2>14
      DEF Next, LoopStep
  <1>3. QED
    BY <1>1, <1>2

-----------------------------------------------------------------------------
(* A connection closes once, and for good *)

\* Established only runs on a connection that has not been set up before.
LEMMA EstablishedFirst ==
  ASSUME TaskInv, RunEstablished
  PROVE  status = "CONNECTING"
  <1>1. batch \in Seq(SendTask) => Head(batch) \in SendTask
    BY DEF RunEstablished
  <1>2. QED
    BY <1>1 DEF RunEstablished, TaskInv, SendTask

\* A status never goes back: to "CONNECTED" only from "CONNECTING", and from
\* "DISCONNECTED" nowhere.
LEMMA StatusSteps ==
  ASSUME TypeOK, TaskInv, [Next]_vars
  PROVE  \/ UNCHANGED status
         \/ status = "CONNECTING" /\ status' = "CONNECTED"
              /\ UNCHANGED <<sendBuf, wire, accepted>>
         \/ status = "CONNECTED" /\ status' = "DISCONNECTING"
              /\ UNCHANGED <<sendBuf, wire, accepted>>
         \/ status \in {"CONNECTED", "DISCONNECTING", "DISCONNECTED"}
              /\ status' = "DISCONNECTED"
              /\ UNCHANGED <<sendBuf, wire, accepted>>
  <1>1. ASSUME NEW data, NEW complete, SendInLoop(data, complete)
        PROVE  \/ UNCHANGED status
               \/ status = "CONNECTED" /\ status' = "DISCONNECTING"
                    /\ UNCHANGED <<sendBuf, wire, accepted>>
    BY <1>1 DEF SendInLoop, SendDirectly, SendFatal, AppendToSendBuffer, Shutdown,
                connVars
  <1>2. CASE RunSendInLoop
    BY <1>1, <1>2 DEF RunSendInLoop
  <1>3. ASSUME NEW len \in Lengths, SendFromCallback(len)
        PROVE  \/ UNCHANGED status
               \/ status = "CONNECTED" /\ status' = "DISCONNECTING"
                    /\ UNCHANGED <<sendBuf, wire, accepted>>
    BY <1>1, <1>3 DEF SendFromCallback
  <1>4. CASE RunEstablished
    BY <1>4, EstablishedFirst DEF RunEstablished
  <1>5. CASE OnReadableEnd \/ OnReadableError
    <2>1. status # "CONNECTING"
      BY <1>5 DEF OnReadableEnd, OnReadableError, TaskInv
    <2>2. QED
      BY <1>5, <2>1 DEF OnReadableEnd, OnReadableError, OnClose, TypeOK
  <1>6. CASE ShutdownFromCallback \/ ConnectDestroyed
    BY <1>6 DEF ShutdownFromCallback, ConnectDestroyed, Shutdown
  <1>7. CASE AppReturn
    BY <1>7 DEF AppReturn, Shutdown
  <1>8. ASSUME NEW len \in Lengths, NEW t \in Producers, SendFromThread(t, len)
        PROVE  UNCHANGED status
    BY <1>8 DEF SendFromThread, connVars
  <1>9. CASE \/ LoopOnce \/ OnReadableData \/ OnWritable \/ OnWritableError
             \/ DropGuard \/ SwapPending \/ RunSendOnDestroyed \/ EndBatch
             \/ PeerSends \/ PeerEnds \/ Crashed \/ UNCHANGED vars
    BY <1>9 DEF LoopOnce, OnReadableData, OnWritable, OnWritableError, DropGuard,
                SwapPending, RunSendOnDestroyed, EndBatch, PeerSends, PeerEnds,
                Crashed, vars, connVars
  <1>10. QED
    BY <1>2, <1>3, <1>4, <1>5, <1>6, <1>7, <1>8, <1>9 DEF Next, LoopStep

\* No step closes a connection twice or watches a closed one for input.
LEMMA CloseStep ==
  ASSUME TypeOK, ChannelInSync, TaskInv, CloseInv, [Next]_vars
  PROVE  CloseInv'
  <1>1. CASE OnReadableEnd \/ OnReadableError
    BY <1>1 DEF OnReadableEnd, OnReadableError, OnClose, DisableAll,
                UpdateChannel, CloseInv, AfterReadable, channelVars
  <1>2. CASE LoopOnce
    <2>1. "IN" \in mask => closes = 0
      BY DEF ChannelInSync, CloseInv
    <2>2. pc' = "in" => "IN" \in mask
      BY <1>2 DEF LoopOnce, Readable
    <2>3. QED
      BY <1>2, <2>1, <2>2 DEF LoopOnce, CloseInv, SetEvent, channelVars,
                              connVars, ghostVars
  <1>3. CASE RunEstablished
    <2>1. status = "CONNECTING"
      BY <1>3, EstablishedFirst
    <2>2. QED
      BY <1>3, <2>1 DEF RunEstablished, CloseInv, ghostVars
  <1>4. CASE ConnectDestroyed
    BY <1>4 DEF ConnectDestroyed, DisableAll, UpdateChannel, CloseInv,
                channelVars, loopVars, ghostVars
  <1>5. ASSUME UNCHANGED closes, pc' # "in",
               UNCHANGED epEvent \/ epEvent' = epEvent \ {"OUT"},
               UNCHANGED status
        PROVE  CloseInv'
    BY <1>5 DEF CloseInv
  <1>6. CASE \/ OnReadableData \/ OnWritable \/ OnWritableError \/ DropGuard
             \/ SwapPending \/ RunSendOnDestroyed \/ EndBatch
    BY <1>5, <1>6
    DEF OnReadableData, OnWritable, OnWritableError, DropGuard, SwapPending,
        RunSendOnDestroyed, EndBatch, channelVars, connVars, ghostVars, CloseFd,
        DisableWritable, UpdateChannel
  <1>7. ASSUME UNCHANGED closes, UNCHANGED pc, UNCHANGED epEvent, UNCHANGED status
        PROVE  CloseInv'
    BY <1>7 DEF CloseInv
  <1>8. CASE PeerSends \/ PeerEnds \/ Crashed \/ UNCHANGED vars
    BY <1>7, <1>8 DEF PeerSends, PeerEnds, Crashed, vars, channelVars, connVars,
                      loopVars, ghostVars
  <1>9. ASSUME NEW len \in Lengths, NEW t \in Producers, SendFromThread(t, len)
        PROVE  CloseInv'
    BY <1>7, <1>9 DEF SendFromThread, channelVars, connVars
  <1>10. CASE ShutdownFromCallback \/ AppReturn
    BY <1>10 DEF ShutdownFromCallback, AppReturn, AfterReadable, Shutdown,
                 CloseInv, channelVars, loopVars, ghostVars
  <1>11. ASSUME NEW data, NEW complete, SendInLoop(data, complete)
         PROVE  /\ status = "DISCONNECTED" => UNCHANGED <<status, epEvent>>
                /\ status' = "DISCONNECTED" => status = "DISCONNECTED"
    BY <1>11 DEF SendInLoop, GivenUp, SendDirectly, SendFatal,
                 AppendToSendBuffer, Shutdown, connVars, channelVars
  <1>12. CASE RunSendInLoop
    BY <1>11, <1>12 DEF RunSendInLoop, CloseInv, ghostVars
  <1>13. ASSUME NEW len \in Lengths, SendFromCallback(len)
         PROVE  CloseInv'
    BY <1>11, <1>13 DEF SendFromCallback, CloseInv, loopVars
  <1>14. QED
    BY <1>1, <1>2, <1>3, <1>4, <1>6, <1>8, <1>9, <1>10, <1>12, <1>13
    DEF Next, LoopStep

\* The inductive invariant holds in every reachable state.
THEOREM Invariant == Spec => []IInv
  <1>1. Init => ChannelInSync /\ ArmedInv /\ TaskInv /\ CloseInv
    BY DEF Init, ChannelInit, ChannelInSync, ArmedInv, TaskInv, CloseInv,
           EstablishedTask, IsWriting
  <1>2. TypeOK /\ ChannelInSync /\ ArmedInv /\ TaskInv /\ CloseInv /\ [Next]_vars
          => (ChannelInSync /\ ArmedInv /\ TaskInv /\ CloseInv)'
    BY SyncStep, ArmedStep, TaskStep, CloseStep
  <1>3. QED
    BY <1>1, <1>2, TypeCorrect, PTL DEF Spec, IInv

\* The loop is only woken for OUT, and the writable handler only runs, while
\* there is something to send.
THEOREM ArmedCorrect == Spec => []ArmedOnlyWithData
  <1>1. IInv => ArmedOnlyWithData
    BY DEF IInv, ChannelInSync, ArmedInv, ArmedOnlyWithData
  <1>2. QED
    BY <1>1, Invariant, PTL

\* OnClose runs at most once, and input is never asked for afterwards.
THEOREM ClosedOnceCorrect == Spec => []ClosedOnce
  <1>1. IInv => ClosedOnce
    BY DEF IInv, ChannelInSync, CloseInv, ClosedOnce
  <1>2. QED
    BY <1>1, Invariant, PTL

\* After Shutdown or a close nothing more is taken, and nothing reconnects.
THEOREM ShutdownIsFinalCorrect == Spec => ShutdownIsFinal
  <1>1. IInv /\ [Next]_vars => [StaysShut]_vars
    <2> SUFFICES ASSUME IInv, [Next]_vars,
                        status \in {"DISCONNECTING", "DISCONNECTED"}
                 PROVE  accepted' = accepted /\ status' # "CONNECTED"
      BY DEF StaysShut
    <2>1. ASSUME NEW data, NEW complete, SendInLoop(data, complete)
          PROVE  UNCHANGED accepted
      BY <2>1 DEF SendInLoop, GivenUp, connVars
    <2>2. UNCHANGED accepted
      <3>1. OnWritable => UNCHANGED accepted
        BY DEF OnWritable
      <3>2. TypeOK
        BY DEF IInv
      <3>3. QED
        BY <2>1, <3>1, <3>2, StreamSteps
    <2>3. status' # "CONNECTED"
      BY StatusSteps DEF IInv
    <2>4. QED
      BY <2>2, <2>3
  <1>2. QED
    BY <1>1, Invariant, PTL DEF Spec, ShutdownIsFinal

-----------------------------------------------------------------------------
(* An open connection is watched *)

\* A connection that is open, or shut down by this side only, is watched for
\* input, whatever was done to the mask for output meanwhile: the end of the
\* stream cannot go unnoticed (EnableWritable, DisableWritable, OnClose).
OpenIsWatched ==
  status \in {"CONNECTED", "DISCONNECTING"} => inEpoll /\ "IN" \in mask

\* Until Established has run the channel is new, and from then to the close the
\* kernel knows it and it asks for input.
WatchedInv ==
  /\ status = "CONNECTING" => chStatus = "NEW"
  /\ status \in {"CONNECTED", "DISCONNECTING"} => inEpoll /\ "IN" \in epEvent

\* SendInLoop changes the mask only of a connection that is open, and only adds.
LEMMA SendInLoopWatched ==
  ASSUME WatchedInv, ChannelInSync, status # "CONNECTING", chStatus \in ChannelStatus,
         NEW data, NEW complete, SendInLoop(data, complete)
  PROVE  WatchedInv'
  <1>1. UNCHANGED channelVars \/ EnableWritable
    BY DEF SendInLoop, SendDirectly, SendFatal, AppendToSendBuffer
  <1>2. UNCHANGED status \/ (status = "CONNECTED" /\ status' = "DISCONNECTING")
    BY DEF SendInLoop, SendDirectly, SendFatal, AppendToSendBuffer, Shutdown, connVars
  <1>3. CASE UNCHANGED channelVars
    BY <1>2, <1>3 DEF WatchedInv, channelVars
  <1>4. CASE EnableWritable
    BY <1>2, <1>4 DEF WatchedInv, ChannelInSync, EnableWritable, UpdateChannel, ChannelStatus
  <1>5. QED
    BY <1>1, <1>3, <1>4

LEMMA WatchedStep == IInv /\ WatchedInv /\ [Next]_vars => WatchedInv'
  <1> SUFFICES ASSUME IInv, WatchedInv, [Next]_vars PROVE WatchedInv'
    OBVIOUS
  <1>1. TypeOK /\ ChannelInSync /\ TaskInv /\ chStatus \in ChannelStatus
    BY DEF IInv, TypeOK, ChannelTypeOK
  <1>2. pc \notin {"poll", "swap", "func"} => status # "CONNECTING"
    BY <1>1 DEF TaskInv
  <1>3. CASE RunEstablished
    <2>1. chStatus = "NEW"
      BY <1>1, <1>3, EstablishedFirst DEF WatchedInv
    <2>2. QED
      BY <1>3, <2>1 DEF RunEstablished, EnableReadable, UpdateChannel, WatchedInv
  <1>4. CASE OnReadableEnd \/ OnReadableError
    BY <1>4 DEF OnReadableEnd, OnReadableError, OnClose, WatchedInv, channelVars
  <1>5. CASE OnWritable
    <2>1. UNCHANGED channelVars \/ DisableWritable
      BY <1>5 DEF OnWritable
    <2>2. status # "CONNECTING" /\ status' = status
      BY <1>2, <1>5 DEF OnWritable
    <2>3. QED
      BY <1>1, <2>1, <2>2
      DEF WatchedInv, ChannelInSync, DisableWritable, UpdateChannel, channelVars, ChannelStatus
  <1>6. CASE LoopOnce
    BY <1>6 DEF LoopOnce, SetEvent, WatchedInv, channelVars, connVars
  <1>7. CASE AppReturn \/ ShutdownFromCallback
    BY <1>7 DEF AppReturn, ShutdownFromCallback, Shutdown, WatchedInv, channelVars
  <1>8. CASE DropGuard
    BY <1>8 DEF DropGuard, CloseFd, WatchedInv, channelVars, connVars
  <1>9. CASE ConnectDestroyed
    BY <1>9 DEF ConnectDestroyed, WatchedInv, channelVars
  <1>10. CASE \/ OnReadableData \/ OnWritableError \/ SwapPending \/ RunSendOnDestroyed
              \/ EndBatch \/ PeerSends \/ PeerEnds \/ Crashed \/ UNCHANGED vars
    BY <1>10 DEF OnReadableData, OnWritableError, SwapPending, RunSendOnDestroyed, EndBatch,
                 PeerSends, PeerEnds, Crashed, vars, channelVars, connVars, WatchedInv
  <1>11. ASSUME NEW len \in Lengths, NEW t \in Producers, SendFromThread(t, len)
         PROVE  WatchedInv'
    BY <1>11 DEF SendFromThread, channelVars, connVars, WatchedInv
  <1>12. CASE RunSendInLoop
    <2>1. status # "CONNECTING"
      <3>1. Head(<<EstablishedTask>>).op = "Established"
        BY DEF EstablishedTask
      <3>2. QED
        BY <1>1, <1>12, <3>1 DEF RunSendInLoop, TaskInv
    <2>2. QED
      BY <1>1, <1>12, <2>1, SendInLoopWatched DEF RunSendInLoop
  <1>13. ASSUME NEW len \in Lengths, SendFromCallback(len)
         PROVE  WatchedInv'
    <2>1. status = "CONNECTED"
      BY <1>13 DEF SendFromCallback
    <2>2. QED
      BY <1>1, <1>13, <2>1, SendInLoopWatched DEF SendFromCallback
  <1>14. QED
    BY <1>3, <1>4, <1>5, <1>6, <1>7, <1>8, <1>9, <1>10, <1>11, <1>12, <1>13
    DEF Next, LoopStep

\* From Established to the close the kernel watches the connection for input: the
\* end of the stream cannot go unnoticed (EnableReadable, EnableWritable,
\* DisableWritable).
THEOREM WatchedCorrect == Spec => []OpenIsWatched
  <1>1. Init => WatchedInv
    BY DEF Init, ChannelInit, WatchedInv
  <1>2. IInv /\ WatchedInv => OpenIsWatched
    BY DEF IInv, ChannelInSync, WatchedInv, OpenIsWatched
  <1>3. QED
    BY <1>1, <1>2, WatchedStep, Invariant, PTL DEF Spec

-----------------------------------------------------------------------------
(* A connection is a stream *)

\* A sequence is a prefix of itself and of anything appended to it.
LEMMA PrefixOfConcat ==
  ASSUME NEW S, NEW s \in Seq(S), NEW t \in Seq(S)
  PROVE  IsPrefix(s, s \o t)
  <1>1. Len(s) \in Nat /\ Len(t) \in Nat /\ Len(s \o t) = Len(s) + Len(t)
    BY ConcatProperties
  <1>2. SubSeq(s, 1, Len(s)) = SubSeq(s \o t, 1, Len(s))
    <2>1. CASE Len(s) = 0
      BY <2>1, SubSeqEmpty
    <2>2. CASE Len(s) # 0
      <3>1. 1 \in 1 .. Len(s) /\ Len(s) \in 1 .. Len(s)
        BY <1>1, <2>2
      <3>2. QED
        BY <3>1, SubSeqOfConcat1
    <2>3. QED
      BY <2>1, <2>2
  <1>3. QED
    BY <1>1, <1>2 DEF IsPrefix

\* A sequence is a prefix of itself.
LEMMA PrefixOfSelf ==
  ASSUME NEW S, NEW s \in Seq(S)
  PROVE  IsPrefix(s, s)
  BY DEF IsPrefix

\* Every step that hands data on or takes data in is a Transfer of the stream.
LEMMA TransferSteps ==
  ASSUME TypeOK, TypeOK', StreamIntegrity, StreamIntegrity', [Next]_vars
  PROVE  /\ IsPrefix(accepted, accepted')
         /\ IsPrefix(wire, wire')
         /\ IsPrefix(wire', accepted')
  <1>1. /\ wire \in Seq(Byte) /\ sendBuf \in Seq(Byte) /\ accepted \in Seq(Byte)
        /\ wire' \in Seq(Byte) /\ sendBuf' \in Seq(Byte)
    BY DEF TypeOK
  <1>2. IsPrefix(wire', accepted')
    BY <1>1, PrefixOfConcat DEF StreamIntegrity
  <1>3. ASSUME UNCHANGED <<wire, accepted>>
        PROVE  IsPrefix(accepted, accepted') /\ IsPrefix(wire, wire')
    BY <1>1, <1>3, PrefixOfSelf
  <1>4. CASE OnWritable
    <2>1. PICK n \in 1 .. Len(sendBuf) : wire' = wire \o SubSeq(sendBuf, 1, n)
      BY <1>4 DEF OnWritable
    <2>2. n \in 0 .. Len(sendBuf)
      BY <2>1
    <2>3. SubSeq(sendBuf, 1, n) \in Seq(Byte)
      BY <1>1, <2>2, SplitMessage
    <2>4. IsPrefix(wire, wire')
      BY <1>1, <2>1, <2>3, PrefixOfConcat
    <2>5. accepted' = accepted
      BY <1>4 DEF OnWritable
    <2>6. IsPrefix(accepted, accepted')
      <3>1. IsPrefix(accepted, accepted)
        BY <1>1, PrefixOfSelf
      <3>2. QED
        BY <2>5, <3>1
    <2>7. QED
      BY <1>2, <2>4, <2>6
  <1>5. ASSUME NEW data \in Seq(Byte), NEW complete, SendInLoop(data, complete)
        PROVE  IsPrefix(accepted, accepted') /\ IsPrefix(wire, wire')
    <2>1. CASE UNCHANGED <<connVars, channelVars>> \/ SendFatal
      BY <1>3, <2>1 DEF connVars, SendFatal
    <2>2. CASE AppendToSendBuffer(data)
      <3>1. accepted' = accepted \o data /\ wire' = wire
        BY <2>2 DEF AppendToSendBuffer
      <3>2. QED
        BY <1>1, <3>1, PrefixOfConcat, PrefixOfSelf
    <2>3. CASE \E n \in 0 .. Len(data) : SendDirectly(data, n)
      <3>1. PICK n \in 0 .. Len(data) : SendDirectly(data, n)
        BY <2>3
      <3>2. accepted' = accepted \o data /\ wire' = wire \o SubSeq(data, 1, n)
        BY <3>1 DEF SendDirectly
      <3>3. SubSeq(data, 1, n) \in Seq(Byte)
        BY SplitMessage
      <3>4. QED
        BY <1>1, <3>2, <3>3, PrefixOfConcat
    <2>4. QED
      BY <1>5, <2>1, <2>2, <2>3 DEF SendInLoop
  <1>6. QED
    BY <1>2, <1>3, <1>4, <1>5, StreamSteps

\* Nothing is taken unless the connection is connected.
LEMMA TakenWhileConnected ==
  ASSUME TypeOK, TaskInv, [Next]_vars, accepted' # accepted
  PROVE  status = "CONNECTED" /\ status' = "CONNECTED"
  <1>1. OnWritable => accepted' = accepted
    BY DEF OnWritable
  <1>2. PICK data \in Seq(Byte), complete \in BOOLEAN : SendInLoop(data, complete)
    BY <1>1, StreamSteps
  <1>3. ~GivenUp /\ UNCHANGED status
    BY <1>2 DEF SendInLoop, SendDirectly, SendFatal, AppendToSendBuffer, connVars
  <1>4. status # "CONNECTING"
    <2> SUFFICES ASSUME status = "CONNECTING" PROVE FALSE
      OBVIOUS
    <2>1. accepted = <<>> /\ status' = "CONNECTING" /\ TaskInv'
      BY <1>3, ConnectingSteps DEF TaskInv
    <2>2. QED
      BY <2>1 DEF TaskInv
  <1>5. QED
    BY <1>3, <1>4 DEF GivenUp, TypeOK

\* Every behaviour of a connection is a behaviour of the stream.
THEOREM StreamRefinement == Spec => ImplementsStream
  <1>1. Init => Stream!Init
    BY DEF Init, Stream!Init, StreamState
  <1>2. /\ IInv /\ IInv' /\ StreamIntegrity /\ StreamIntegrity' /\ [Next]_vars
        => [Stream!Next]_<<StreamState, accepted, wire>>
    <2> SUFFICES ASSUME IInv, IInv', StreamIntegrity, StreamIntegrity',
                        [Next]_vars
                 PROVE  Stream!Next \/ UNCHANGED <<StreamState, accepted, wire>>
      OBVIOUS
    <2>1. TypeOK /\ TypeOK' /\ TaskInv /\ TaskInv'
      BY DEF IInv
    <2>2. CASE UNCHANGED status
      <3>1. StreamState' = StreamState
        BY <2>2 DEF StreamState
      <3>2. CASE status = "CONNECTING"
        <4>1. accepted = <<>> /\ accepted' = <<>>
          BY <2>1, <2>2, <3>2 DEF TaskInv
        <4>2. wire = <<>> /\ wire' = <<>>
          BY <2>1, <4>1, ConcatEqualIffEmpty DEF StreamIntegrity, TypeOK
        <4>3. QED
          BY <3>1, <4>1, <4>2
      <3>3. CASE status # "CONNECTING"
        <4>1. StreamState # "new"
          BY <2>1, <3>3 DEF StreamState, TypeOK
        <4>2. accepted' # accepted => StreamState = "open"
          BY <2>1, TakenWhileConnected DEF StreamState
        <4>3. Stream!Transfer
          BY <2>1, <3>1, <4>1, <4>2, TransferSteps
          DEF Stream!Transfer, Stream!IsPrefix, IsPrefix
        <4>4. QED
          BY <4>3 DEF Stream!Next
      <3>4. QED
        BY <3>2, <3>3
    <2>3. CASE status' # status
      <3>1. \/ status = "CONNECTING" /\ status' = "CONNECTED"
            \/ status = "CONNECTED" /\ status' = "DISCONNECTING"
            \/ status \in {"CONNECTED", "DISCONNECTING"}
                 /\ status' = "DISCONNECTED"
        BY <2>1, <2>3, StatusSteps
      <3>2. UNCHANGED <<accepted, wire>>
        BY <2>1, <2>3, StatusSteps
      <3>3. QED
        BY <3>1, <3>2
        DEF Stream!Next, Stream!Open, Stream!HalfClose, Stream!Close, StreamState
    <2>4. QED
      BY <2>2, <2>3
  <1>3. QED
    BY <1>1, <1>2, Invariant, Integrity, PTL
    DEF Spec, ImplementsStream, Stream!Spec

-----------------------------------------------------------------------------
(* What a thread sends arrives in order, and nothing is lost *)

\* A byte is of some stretches when it stands somewhere in one of them.
LEMMA InBytesOf ==
  ASSUME NEW stretches, NEW b
  PROVE  b \in BytesOf(stretches)
           <=> \E k \in DOMAIN stretches : \E i \in DOMAIN stretches[k] : stretches[k][i] = b
  BY DEF BytesOf, Range

\* The bytes of two stretches put together.
LEMMA ConcatIs ==
  ASSUME NEW a \in Seq(Byte), NEW b \in Seq(Byte)
  PROVE  /\ Len(a) \in Nat /\ Len(b) \in Nat /\ Len(a \o b) = Len(a) + Len(b)
         /\ \A i \in 1 .. Len(a) : (a \o b)[i] = a[i]
         /\ \A i \in 1 .. Len(b) : (a \o b)[Len(a) + i] = b[i]
  <1>1. /\ Len(a) \in Nat /\ Len(b) \in Nat /\ Len(a \o b) = Len(a) + Len(b)
        /\ \A i \in 1 .. Len(a) + Len(b) :
             (a \o b)[i] = IF i <= Len(a) THEN a[i] ELSE b[i - Len(a)]
    BY ConcatProperties
  <1>2. \A i \in 1 .. Len(b) : /\ Len(a) + i \in 1 .. Len(a) + Len(b)
                               /\ ~(Len(a) + i <= Len(a)) /\ Len(a) + i - Len(a) = i
    BY <1>1
  <1>3. QED
    BY <1>1, <1>2

\* Positions in two stretches put together.
LEMMA LongerRange ==
  ASSUME NEW m \in Nat, NEW l \in Nat
  PROVE  /\ \A i \in 1 .. m : i \in 1 .. m + l
         /\ \A i \in 1 .. m + l : ~(i <= m) => i - m \in 1 .. l /\ m + (i - m) = i
  OBVIOUS

\* The first two stretches can be joined (a queued function is run).
LEMMA JoinFirst ==
  ASSUME NEW n \in Nat, NEW s \in [0 .. n + 1 -> Seq(Byte)],
         NEW t \in [0 .. n -> Seq(Byte)],
         t[0] = s[0] \o s[1], \A k \in 1 .. n : t[k] = s[k + 1], InOrder(s)
  PROVE  InOrder(t) /\ BytesOf(t) = BytesOf(s)
  <1> DEFINE K(k, i) == IF k = 0 THEN IF i <= Len(s[0]) THEN 0 ELSE 1 ELSE k + 1
             I(k, i) == IF k = 0 /\ ~(i <= Len(s[0])) THEN i - Len(s[0]) ELSE i
  <1>1. /\ s[0] \in Seq(Byte) /\ s[1] \in Seq(Byte) /\ Len(s[0]) \in Nat /\ Len(s[1]) \in Nat
        /\ Len(t[0]) = Len(s[0]) + Len(s[1])
        /\ \A i \in 1 .. Len(s[0]) : t[0][i] = s[0][i]
        /\ \A i \in 1 .. Len(s[1]) : t[0][Len(s[0]) + i] = s[1][i]
    <2>1. s[0] \in Seq(Byte) /\ s[1] \in Seq(Byte)
      BY 0 \in 0 .. n + 1, 1 \in 0 .. n + 1
    <2>2. /\ Len(s[0]) \in Nat /\ Len(s[1]) \in Nat /\ Len(s[0] \o s[1]) = Len(s[0]) + Len(s[1])
          /\ \A i \in 1 .. Len(s[0]) : (s[0] \o s[1])[i] = s[0][i]
          /\ \A i \in 1 .. Len(s[1]) : (s[0] \o s[1])[Len(s[0]) + i] = s[1][i]
      BY <2>1, ConcatIs, Zenon
    <2>3. QED
      BY <2>1, <2>2
  <1>2. /\ DOMAIN s = 0 .. n + 1 /\ DOMAIN t = 0 .. n
        /\ \A k \in 0 .. n + 1 : s[k] \in Seq(Byte) /\ DOMAIN s[k] = 1 .. Len(s[k]) /\ Len(s[k]) \in Nat
        /\ \A k \in 0 .. n : t[k] \in Seq(Byte) /\ DOMAIN t[k] = 1 .. Len(t[k]) /\ Len(t[k]) \in Nat
    OBVIOUS
  <1>3. ASSUME NEW k \in 0 .. n, NEW i \in 1 .. Len(t[k])
        PROVE  /\ K(k, i) \in 0 .. n + 1 /\ I(k, i) \in 1 .. Len(s[K(k, i)])
               /\ t[k][i] = s[K(k, i)][I(k, i)]
    <2>1. CASE k = 0 /\ i <= Len(s[0])
      BY <1>1, <2>1
    <2>2. CASE k = 0 /\ ~(i <= Len(s[0]))
      <3>0. i \in 1 .. Len(t[0])
        BY <2>2
      <3>1. i - Len(s[0]) \in 1 .. Len(s[1]) /\ Len(s[0]) + (i - Len(s[0])) = i
        <4> DEFINE m == Len(s[0])
                   l == Len(s[1])
        <4>1. m \in Nat /\ l \in Nat /\ Len(t[0]) = m + l
          BY <1>1, Zenon
        <4>2. i \in 1 .. m + l /\ ~(i <= m)
          BY <2>2, <3>0, <4>1, Zenon
        <4> HIDE DEF m, l
        <4>3. i - m \in 1 .. l /\ m + (i - m) = i
          BY <4>1, <4>2
        <4>4. QED
          BY <4>3, Zenon DEF m, l
      <3>2. t[0][i] = s[1][i - Len(s[0])]
        BY <1>1, <3>1
      <3>3. QED
        BY <2>2, <3>1, <3>2
    <2>3. CASE k # 0
      BY <2>3
    <2>4. QED
      BY <2>1, <2>2, <2>3
  <1>4. ASSUME NEW k \in 0 .. n, NEW l \in 0 .. n, NEW i \in 1 .. Len(t[k]),
               NEW j \in 1 .. Len(t[l]),
               k < l \/ (k = l /\ i < j)
        PROVE  K(k, i) < K(l, j) \/ (K(k, i) = K(l, j) /\ I(k, i) < I(l, j))
    <2> DEFINE m == Len(s[0])
    <2>1. m \in Nat /\ i \in Nat /\ j \in Nat /\ k \in Nat /\ l \in Nat
      BY <1>1, <1>2
    <2>2. /\ K(k, i) = IF k = 0 THEN IF i <= m THEN 0 ELSE 1 ELSE k + 1
          /\ K(l, j) = IF l = 0 THEN IF j <= m THEN 0 ELSE 1 ELSE l + 1
          /\ I(k, i) = IF k = 0 /\ ~(i <= m) THEN i - m ELSE i
          /\ I(l, j) = IF l = 0 /\ ~(j <= m) THEN j - m ELSE j
      OBVIOUS
    <2> HIDE DEF K, I, m
    <2>3. CASE k # 0
      <3>1. l # 0
        BY <1>4, <2>1, <2>3
      <3>2. /\ K(k, i) = k + 1 /\ I(k, i) = i
            /\ K(l, j) = l + 1 /\ I(l, j) = j
        BY <2>2, <2>3, <3>1, Zenon
      <3>3. QED
        BY <1>4, <2>1, <3>2
    <2>4. CASE k = 0 /\ l # 0
      BY <2>1, <2>2, <2>4
    <2>5. CASE k = 0 /\ l = 0
      BY <1>4, <2>1, <2>2, <2>5
    <2>6. QED
      BY <2>3, <2>4, <2>5
  <1> HIDE DEF K, I
  <1>5. InOrder(t)
    <2> SUFFICES ASSUME NEW k \in 0 .. n, NEW l \in 0 .. n,
                        NEW i \in 1 .. Len(t[k]), NEW j \in 1 .. Len(t[l]),
                        k < l \/ (k = l /\ i < j), t[k][i].from = t[l][j].from
                 PROVE  t[k][i].seq < t[l][j].seq
      BY <1>2 DEF InOrder
    <2>1. /\ K(k, i) \in DOMAIN s /\ I(k, i) \in DOMAIN s[K(k, i)] /\ t[k][i] = s[K(k, i)][I(k, i)]
          /\ K(l, j) \in DOMAIN s /\ I(l, j) \in DOMAIN s[K(l, j)] /\ t[l][j] = s[K(l, j)][I(l, j)]
      BY <1>2, <1>3
    <2>2. K(k, i) < K(l, j) \/ (K(k, i) = K(l, j) /\ I(k, i) < I(l, j))
      BY <1>4
    <2>3. QED
      BY <2>1, <2>2 DEF InOrder
  <1>6. ASSUME NEW b \in BytesOf(t) PROVE b \in BytesOf(s)
    <2>1. PICK k \in 0 .. n : \E i \in 1 .. Len(t[k]) : t[k][i] = b
      BY <1>2, InBytesOf
    <2>2. PICK i \in 1 .. Len(t[k]) : t[k][i] = b
      BY <2>1
    <2>3. K(k, i) \in DOMAIN s /\ I(k, i) \in DOMAIN s[K(k, i)] /\ s[K(k, i)][I(k, i)] = b
      BY <1>2, <1>3, <2>2
    <2>4. QED
      BY <2>3, InBytesOf
  <1>7. ASSUME NEW b \in BytesOf(s) PROVE b \in BytesOf(t)
    <2>1. PICK k \in 0 .. n + 1 : \E i \in 1 .. Len(s[k]) : s[k][i] = b
      BY <1>2, InBytesOf
    <2>2. PICK i \in 1 .. Len(s[k]) : s[k][i] = b
      BY <2>1
    <2>3. \E l \in 0 .. n : \E j \in 1 .. Len(t[l]) : t[l][j] = b
      <3>0. 0 \in 0 .. n
        OBVIOUS
      <3>1. CASE k = 0
        <4>1. i \in 1 .. Len(s[0]) /\ s[0][i] = b
          BY <2>2, <3>1
        <4>2. i \in 1 .. Len(t[0])
          <5>1. /\ Len(s[0]) \in Nat /\ Len(s[1]) \in Nat
                /\ Len(t[0]) = Len(s[0]) + Len(s[1])
            BY <1>1
          <5>2. i \in 1 .. Len(s[0]) + Len(s[1])
            BY <4>1, <5>1, LongerRange, Zenon
          <5>3. QED
            BY <5>1, <5>2, Zenon
        <4>3. t[0][i] = b
          BY <1>1, <4>1, Zenon
        <4>4. QED
          BY <3>0, <4>2, <4>3, Zenon
      <3>2. CASE k = 1
        <4>1. Len(s[0]) + i \in 1 .. Len(t[0]) /\ t[0][Len(s[0]) + i] = b
          BY <1>1, <2>2, <3>2
        <4>2. QED
          BY <3>0, <4>1, Zenon
      <3>3. CASE k \notin {0, 1}
        <4>1. k - 1 \in 1 .. n /\ (k - 1) + 1 = k
          BY <3>3
        <4>2. t[k - 1] = s[k]
          BY <4>1
        <4>3. QED
          BY <2>2, <4>1, <4>2
      <3>4. QED
        BY <3>1, <3>2, <3>3
    <2>4. QED
      BY <1>2, <2>3, InBytesOf
  <1>8. QED
    BY <1>5, <1>6, <1>7

\* New data that comes last in its stretch, or makes one of its own, is in
\* order when no byte of its thread is behind it and all of them are smaller.
After(b, d) == \A j \in DOMAIN d : b.from = d[j].from => b.seq < d[j].seq
Apart(c, d) == \A i \in DOMAIN c, j \in DOMAIN d : c[i].from # d[j].from
Rising(d) == \A i, j \in DOMAIN d : i < j => d[i].seq < d[j].seq

LEMMA NewStretch ==
  ASSUME NEW n \in Nat, NEW s \in [0 .. n -> Seq(Byte)],
         NEW t \in [0 .. n + 1 -> Seq(Byte)],
         \A k \in 0 .. n : t[k] = s[k], InOrder(s), Rising(t[n + 1]),
         \A b \in BytesOf(s) : After(b, t[n + 1])
  PROVE  InOrder(t) /\ BytesOf(t) = BytesOf(s) \cup Range(t[n + 1])
  <1> DEFINE d == t[n + 1]
  <1>1. DOMAIN s = 0 .. n /\ DOMAIN t = 0 .. n + 1
    OBVIOUS
  <1>2. \A k \in 0 .. n + 1 : k \in 0 .. n \/ k = n + 1
    OBVIOUS
  <1>3. InOrder(t)
    <2> SUFFICES ASSUME NEW k \in 0 .. n + 1, NEW l \in 0 .. n + 1,
                        NEW i \in DOMAIN t[k], NEW j \in DOMAIN t[l],
                        k < l \/ (k = l /\ i < j), t[k][i].from = t[l][j].from
                 PROVE  t[k][i].seq < t[l][j].seq
      BY <1>1 DEF InOrder
    <2>1. CASE l \in 0 .. n
      <3>1. k \in 0 .. n
        BY <2>1
      <3>2. QED
        BY <1>1, <2>1, <3>1 DEF InOrder
    <2>2. CASE l = n + 1 /\ k \in 0 .. n
      <3>1. t[k][i] \in BytesOf(s)
        BY <1>1, <2>2, InBytesOf
      <3>2. QED
        BY <2>2, <3>1 DEF After
    <2>3. CASE l = n + 1 /\ k = n + 1
      <3>1. i < j
        BY <2>3
      <3>2. QED
        BY <2>3, <3>1 DEF Rising
    <2>4. QED
      BY <1>2, <2>1, <2>2, <2>3
  <1>4. BytesOf(t) = BytesOf(s) \cup Range(d)
    <2>1. ASSUME NEW b PROVE b \in BytesOf(t) <=> b \in BytesOf(s) \cup Range(d)
      <3>1. b \in BytesOf(t) <=> \E k \in 0 .. n + 1 : b \in Range(t[k])
        BY <1>1 DEF BytesOf
      <3>2. b \in BytesOf(s) <=> \E k \in 0 .. n : b \in Range(s[k])
        BY <1>1 DEF BytesOf
      <3>3. n + 1 \in 0 .. n + 1 /\ \A k \in 0 .. n : k \in 0 .. n + 1
        OBVIOUS
      <3>4. QED
        BY <1>2, <3>1, <3>2, <3>3
    <2>2. QED
      BY <2>1
  <1>5. QED
    BY <1>3, <1>4

\* New data d that comes last in the first stretch.
Longer(n, s, t, d) ==
  /\ n \in Nat /\ s \in [0 .. n -> Seq(Byte)] /\ t \in [0 .. n -> Seq(Byte)]
  /\ d \in Seq(Byte) /\ t[0] = s[0] \o d
  /\ \A k \in 1 .. n : t[k] = s[k] /\ Apart(s[k], d)
  /\ InOrder(s) /\ Rising(d)
  /\ \A b \in BytesOf(s) : After(b, d)

\* New data behind the first stretch keeps the order and adds its bytes.
LEMMA LongerFirst ==
  ASSUME NEW n, NEW s, NEW t, NEW d, Longer(n, s, t, d)
  PROVE  InOrder(t) /\ BytesOf(t) = BytesOf(s) \cup Range(d)
  <1>0. /\ n \in Nat /\ s \in [0 .. n -> Seq(Byte)] /\ t \in [0 .. n -> Seq(Byte)]
        /\ d \in Seq(Byte) /\ t[0] = s[0] \o d
        /\ \A k \in 1 .. n : t[k] = s[k] /\ Apart(s[k], d)
        /\ InOrder(s) /\ Rising(d)
        /\ \A b \in BytesOf(s) : After(b, d)
    BY DEF Longer
  <1>1. /\ DOMAIN s = 0 .. n /\ DOMAIN t = 0 .. n
        /\ \A k \in 0 .. n : DOMAIN s[k] = 1 .. Len(s[k]) /\ DOMAIN t[k] = 1 .. Len(t[k])
        /\ DOMAIN d = 1 .. Len(d)
    BY <1>0
  <1>2. s[0] \in Seq(Byte) /\ Len(s[0]) \in Nat /\ Len(d) \in Nat
    BY <1>0, 0 \in 0 .. n
  <1>3. /\ Len(t[0]) = Len(s[0]) + Len(d)
        /\ \A i \in 1 .. Len(s[0]) : t[0][i] = s[0][i]
        /\ \A i \in 1 .. Len(d) : t[0][Len(s[0]) + i] = d[i]
    <2>1. /\ Len(s[0] \o d) = Len(s[0]) + Len(d)
          /\ \A i \in 1 .. Len(s[0]) : (s[0] \o d)[i] = s[0][i]
          /\ \A i \in 1 .. Len(d) : (s[0] \o d)[Len(s[0]) + i] = d[i]
      BY <1>0, <1>2, ConcatIs, Zenon
    <2>2. QED
      BY <1>0, <2>1
  <1> DEFINE New(k, i) == k = 0 /\ i > Len(s[0])
  <1>4. ASSUME NEW k \in 0 .. n, NEW i \in 1 .. Len(t[k]), ~New(k, i)
        PROVE  i \in 1 .. Len(s[k]) /\ t[k][i] = s[k][i]
    <2>1. CASE k = 0
      <3>1. i \in 1 .. Len(t[0]) /\ ~(i > Len(s[0]))
        BY <1>0, <1>4, <2>1
      <3>2. i \in 1 .. Len(s[0])
        BY <1>0, <1>2, <1>3, <3>1
      <3>3. QED
        BY <1>3, <2>1, <3>2
    <2>2. CASE k # 0
      BY <1>0, <2>2
    <2>3. QED
      BY <2>1, <2>2
  <1>5. ASSUME NEW k \in 0 .. n, NEW i \in 1 .. Len(t[k]), New(k, i)
        PROVE  i - Len(s[0]) \in 1 .. Len(d) /\ t[k][i] = d[i - Len(s[0])]
    <2>1. i - Len(s[0]) \in 1 .. Len(d) /\ Len(s[0]) + (i - Len(s[0])) = i /\ k = 0
      BY <1>0, <1>2, <1>3, <1>5
    <2>2. QED
      BY <1>3, <2>1
  <1>6. InOrder(t)
    <2> SUFFICES ASSUME NEW k \in 0 .. n, NEW l \in 0 .. n,
                        NEW i \in 1 .. Len(t[k]), NEW j \in 1 .. Len(t[l]),
                        k < l \/ (k = l /\ i < j), t[k][i].from = t[l][j].from
                 PROVE  t[k][i].seq < t[l][j].seq
      BY <1>0, <1>1 DEF InOrder
    <2>1. CASE ~New(k, i) /\ ~New(l, j)
      <3>1. /\ i \in DOMAIN s[k] /\ t[k][i] = s[k][i]
            /\ j \in DOMAIN s[l] /\ t[l][j] = s[l][j]
        BY <1>0, <1>1, <1>4, <2>1
      <3>2. QED
        BY <1>0, <1>1, <3>1 DEF InOrder
    <2>2. CASE ~New(k, i) /\ New(l, j)
      <3>1. t[k][i] \in BytesOf(s)
        <4>1. i \in DOMAIN s[k] /\ s[k][i] = t[k][i] /\ k \in DOMAIN s
          BY <1>0, <1>1, <1>4, <2>2
        <4>2. QED
          BY <4>1, InBytesOf
      <3>2. j - Len(s[0]) \in DOMAIN d /\ t[l][j] = d[j - Len(s[0])]
        BY <1>0, <1>1, <1>5, <2>2
      <3>3. QED
        BY <1>0, <3>1, <3>2 DEF After
    <2>3. CASE New(k, i) /\ ~New(l, j)
      <3>1. l \in 1 .. n
        BY <1>0, <1>2, <1>3, <2>3
      <3>2. j \in DOMAIN s[l] /\ t[l][j] = s[l][j]
        BY <1>0, <1>1, <1>4, <2>3
      <3>3. i - Len(s[0]) \in DOMAIN d /\ t[k][i] = d[i - Len(s[0])]
        BY <1>0, <1>1, <1>5, <2>3
      <3>4. QED
        BY <1>0, <3>1, <3>2, <3>3 DEF Apart
    <2>4. CASE New(k, i) /\ New(l, j)
      <3>1. /\ i - Len(s[0]) \in DOMAIN d /\ t[k][i] = d[i - Len(s[0])]
            /\ j - Len(s[0]) \in DOMAIN d /\ t[l][j] = d[j - Len(s[0])]
        BY <1>0, <1>1, <1>5, <2>4
      <3>2. i - Len(s[0]) < j - Len(s[0])
        BY <1>0, <1>2, <1>3, <2>4
      <3>3. QED
        BY <1>0, <3>1, <3>2 DEF Rising
    <2>5. QED
      BY <2>1, <2>2, <2>3, <2>4
  <1>7. ASSUME NEW b \in BytesOf(t) PROVE b \in BytesOf(s) \cup Range(d)
    <2>1. PICK k \in 0 .. n : \E i \in 1 .. Len(t[k]) : t[k][i] = b
      BY <1>0, <1>1, InBytesOf
    <2>2. PICK i \in 1 .. Len(t[k]) : t[k][i] = b
      BY <1>0, <2>1
    <2>3. CASE New(k, i)
      BY <1>0, <1>1, <1>5, <2>2, <2>3 DEF Range
    <2>4. CASE ~New(k, i)
      <3>1. i \in DOMAIN s[k] /\ s[k][i] = b /\ k \in DOMAIN s
        BY <1>0, <1>1, <1>4, <2>2, <2>4
      <3>2. b \in BytesOf(s)
        BY <3>1, InBytesOf
      <3>3. QED
        BY <3>2
    <2>5. QED
      BY <2>3, <2>4
  <1>8. ASSUME NEW b \in BytesOf(s) PROVE b \in BytesOf(t)
    <2>1. PICK k \in 0 .. n : \E i \in 1 .. Len(s[k]) : s[k][i] = b
      BY <1>0, <1>1, InBytesOf
    <2>2. PICK i \in 1 .. Len(s[k]) : s[k][i] = b
      BY <1>0, <2>1
    <2>3. i \in 1 .. Len(t[k]) /\ t[k][i] = b
      <3>1. CASE k = 0
        <4>1. i \in 1 .. Len(s[0]) /\ s[0][i] = b
          BY <2>2, <3>1
        <4>2. i \in 1 .. Len(t[0])
          BY <1>2, <1>3, <4>1, LongerRange, Zenon
        <4>3. QED
          BY <1>3, <3>1, <4>1, <4>2
      <3>2. CASE k # 0
        BY <1>0, <2>2, <3>2
      <3>3. QED
        BY <3>1, <3>2
    <2>4. QED
      BY <1>0, <1>1, <2>3, InBytesOf
  <1>9. ASSUME NEW b \in Range(d) PROVE b \in BytesOf(t)
    <2>1. PICK i \in 1 .. Len(d) : d[i] = b
      BY <1>0, <1>1 DEF Range
    <2>2. Len(s[0]) + i \in 1 .. Len(t[0]) /\ t[0][Len(s[0]) + i] = b
      BY <1>0, <1>2, <1>3, <2>1
    <2>3. 0 \in DOMAIN t /\ Len(s[0]) + i \in DOMAIN t[0]
      BY <1>0, <1>1, <2>2
    <2>4. QED
      BY <1>0, <2>2, <2>3, InBytesOf
  <1>10. QED
    BY <1>6, <1>7, <1>8, <1>9

\* What is on its way: what SendInLoop took, then the data of queued functions.
Way(taken, tasks) ==
  [k \in 0 .. Len(tasks) |-> IF k = 0 THEN taken ELSE tasks[k].data]

\* The stretches of what is on its way.
LEMMA WayIs ==
  ASSUME NEW taken \in Seq(Byte), NEW tasks \in Seq(Task)
  PROVE  /\ Len(tasks) \in Nat
         /\ Way(taken, tasks) \in [0 .. Len(tasks) -> Seq(Byte)]
         /\ Way(taken, tasks)[0] = taken
         /\ \A k \in 1 .. Len(tasks) : Way(taken, tasks)[k] = tasks[k].data
  <1>1. Len(tasks) \in Nat /\ 0 \in 0 .. Len(tasks)
    OBVIOUS
  <1>2. ASSUME NEW k \in 1 .. Len(tasks)
        PROVE  k \in 0 .. Len(tasks) /\ k # 0 /\ tasks[k].data \in Seq(Byte)
    <2>1. tasks[k] \in Task
      OBVIOUS
    <2>2. QED
      BY <2>1 DEF Task
  <1>3. \A k \in 0 .. Len(tasks) : k # 0 => k \in 1 .. Len(tasks)
    BY <1>1
  <1>4. QED
    BY <1>1, <1>2, <1>3 DEF Way

\* The queued functions, in the order in which the loop will run them.
Queued == batch \o pending

\* A Send adds exactly the bytes it was given, behind all earlier ones of the
\* same thread.
LEMMA IssuedGrows ==
  ASSUME TypeOK, NEW t \in Threads, NEW len \in Lengths, Issue(t, len)
  PROVE  /\ Issued' = Issued \cup Range(Payload(t, len))
         /\ Rising(Payload(t, len))
         /\ \A b \in Issued : After(b, Payload(t, len))
         /\ \A j \in DOMAIN Payload(t, len) : Payload(t, len)[j].from = t
  <1>1. /\ len \in Nat /\ MaxBytes \in Nat
        /\ issued \in [Threads -> 0 .. MaxBytes]
        /\ issued[t] \in Nat /\ issued[t] + len <= MaxBytes
        /\ issued' = [issued EXCEPT ![t] = issued[t] + len]
    BY LengthsAssumption, BoundsAssumption
    DEF LengthsAssumption, BoundsAssumption, TypeOK, Issue
  <1>2. /\ DOMAIN Payload(t, len) = 1 .. len
        /\ \A j \in 1 .. len : /\ Payload(t, len)[j].from = t
                               /\ Payload(t, len)[j].seq = issued[t] + j
                               /\ Payload(t, len)[j] = [from |-> t, seq |-> issued[t] + j]
    BY DEF Payload
  <1>3. Rising(Payload(t, len))
    BY <1>1, <1>2 DEF Rising
  <1>4. ASSUME NEW b \in Issued PROVE After(b, Payload(t, len))
    <2>1. b.seq \in Nat /\ b.seq <= issued[b.from]
      BY DEF Issued
    <2>2. QED
      BY <1>1, <1>2, <2>1 DEF After
  <1>5. ASSUME NEW f \in Threads, NEW q \in 1 .. MaxBytes
        PROVE  [from |-> f, seq |-> q] \in Issued'
                 <=> [from |-> f, seq |-> q] \in Issued \cup Range(Payload(t, len))
    <2>1. [from |-> f, seq |-> q] \in Issued' <=> q <= issued'[f]
      BY DEF Issued
    <2>2. [from |-> f, seq |-> q] \in Issued <=> q <= issued[f]
      BY DEF Issued
    <2>3. [from |-> f, seq |-> q] \in Range(Payload(t, len))
            <=> f = t /\ q - issued[t] \in 1 .. len
      <3>1. ASSUME NEW j \in 1 .. len, Payload(t, len)[j] = [from |-> f, seq |-> q]
            PROVE  f = t /\ q - issued[t] \in 1 .. len
        <4>1. Payload(t, len)[j].from = f /\ Payload(t, len)[j].seq = q
          BY <3>1
        <4>2. f = t /\ q = issued[t] + j
          BY <1>2, <4>1
        <4>3. QED
          BY <1>1, <4>2
      <3>2. ASSUME f = t, q - issued[t] \in 1 .. len
            PROVE  Payload(t, len)[q - issued[t]] = [from |-> f, seq |-> q]
        <4>1. issued[t] + (q - issued[t]) = q
          BY <1>1
        <4>2. QED
          BY <1>2, <3>2, <4>1
      <3>3. [from |-> f, seq |-> q] \in Range(Payload(t, len))
              <=> \E j \in 1 .. len : Payload(t, len)[j] = [from |-> f, seq |-> q]
        BY <1>2 DEF Range
      <3>4. QED
        BY <3>1, <3>2, <3>3
    <2>4. CASE f = t
      <3>1. issued'[f] = issued[t] + len
        BY <1>1, <2>4
      <3>2. q <= issued[t] + len <=> q <= issued[t] \/ q - issued[t] \in 1 .. len
        BY <1>1
      <3>3. QED
        BY <2>1, <2>2, <2>3, <2>4, <3>1, <3>2
    <2>5. CASE f # t
      <3>1. issued'[f] = issued[f]
        BY <1>1, <2>5
      <3>2. QED
        BY <2>1, <2>2, <2>3, <2>5, <3>1
    <2>6. QED
      BY <2>4, <2>5
  <1>6. /\ Issued \subseteq [from : Threads, seq : 1 .. MaxBytes]
        /\ Issued' \subseteq [from : Threads, seq : 1 .. MaxBytes]
        /\ Range(Payload(t, len)) \subseteq [from : Threads, seq : 1 .. MaxBytes]
    <2>1. \A j \in 1 .. len : Payload(t, len)[j] \in [from : Threads, seq : 1 .. MaxBytes]
      BY <1>1, <1>2
    <2>2. QED
      BY <1>2, <2>1 DEF Issued, Range
  <1>7. \A b \in [from : Threads, seq : 1 .. MaxBytes] :
          \E f \in Threads, q \in 1 .. MaxBytes : b = [from |-> f, seq |-> q]
    OBVIOUS
  <1>8. ASSUME NEW b PROVE b \in Issued' <=> b \in Issued \cup Range(Payload(t, len))
    BY <1>5, <1>6, <1>7
  <1>9. Issued' = Issued \cup Range(Payload(t, len))
    BY <1>8
  <1>10. QED
    BY <1>2, <1>3, <1>4, <1>9

\* How the queue and what was taken change together.
LEMMA QueueSteps ==
  ASSUME TypeOK, TaskInv, [Next]_vars
  PROVE  \/ \E t \in Producers, len \in Lengths :
              /\ SendFromThread(t, len) /\ UNCHANGED accepted
              /\ Queued' = Append(Queued, [op |-> "SendInLoop", data |-> Payload(t, len)])
         \/ \E len \in Lengths, complete \in BOOLEAN :
              /\ status = "CONNECTED" /\ Issue(LoopThread, len)
              /\ SendInLoop(Payload(LoopThread, len), complete)
              /\ Queued' = Queued /\ UNCHANGED alive
         \/ \E complete \in BOOLEAN :
              /\ Queued # <<>> /\ Queued' = Tail(Queued)
              /\ SendInLoop(Queued[1].data, complete)
              /\ UNCHANGED <<issued, alive>>
         \/ /\ Queued # <<>> /\ Queued' = Tail(Queued)
            /\ UNCHANGED <<accepted, issued, status, alive>>
            /\ ~alive
         \/ /\ RunEstablished /\ status = "CONNECTING" /\ Queued' = <<>>
            /\ UNCHANGED <<accepted, issued, alive>>
         \/ /\ UNCHANGED <<Queued, accepted, issued>>
            /\ status' = "CONNECTED" => status = "CONNECTED"
            /\ UNCHANGED alive \/ status' = "DISCONNECTED"
  <1>1. batch \in Seq(Task) /\ pending \in Seq(Task)
    BY DEF TypeOK
  <1>2. ASSUME batch # <<>>
        PROVE  /\ Queued # <<>> /\ Queued[1] = Head(batch)
               /\ Tail(batch) \o pending = Tail(Queued)
    BY <1>1, <1>2 DEF Queued
  <1>3. CASE RunSendInLoop
    <2>1. PICK complete \in BOOLEAN : SendInLoop(Head(batch).data, complete)
      BY <1>3 DEF RunSendInLoop
    <2>2. /\ batch # <<>> /\ batch' = Tail(batch) /\ pending' = pending
          /\ UNCHANGED <<issued, alive>>
      BY <1>3 DEF RunSendInLoop, ghostVars
    <2>3. Queued' = Tail(batch) \o pending
      BY <2>2 DEF Queued
    <2>4. QED
      BY <1>2, <2>1, <2>2, <2>3
  <1>4. CASE RunSendOnDestroyed
    <2>1. /\ batch # <<>> /\ batch' = Tail(batch) /\ pending' = pending
          /\ ~alive /\ UNCHANGED <<issued, accepted, status, alive>>
      BY <1>4 DEF RunSendOnDestroyed, connVars
    <2>2. Queued' = Tail(batch) \o pending
      BY <2>1 DEF Queued
    <2>3. QED
      BY <1>2, <2>1, <2>2
  <1>5. CASE RunEstablished
    <2>1. status = "CONNECTING"
      BY <1>5, EstablishedFirst
    <2>2. batch = <<EstablishedTask>> /\ pending = <<>>
      BY <1>5, <2>1 DEF TaskInv, RunEstablished
    <2>3. batch' = <<>> /\ pending' = <<>>
      BY <1>5, <2>2 DEF RunEstablished, EstablishedTask
    <2>4. QED
      BY <1>5, <2>1, <2>3 DEF RunEstablished, Queued, ghostVars
  <1>6. CASE SwapPending
    <2>1. batch = <<>> /\ batch' = pending /\ pending' = <<>>
      BY <1>6 DEF SwapPending, TaskInv
    <2>2. Queued' = Queued
      BY <1>1, <2>1 DEF Queued
    <2>3. QED
      BY <1>6, <2>2 DEF SwapPending, connVars, ghostVars
  <1>7. ASSUME NEW t \in Producers, NEW len \in Lengths, SendFromThread(t, len)
        PROVE  /\ UNCHANGED accepted
               /\ Queued' = Append(Queued, [op |-> "SendInLoop", data |-> Payload(t, len)])
    <2>1. Payload(t, len) \in Seq(Byte)
      BY PayloadType, LengthsAssumption DEF Threads, LengthsAssumption
    <2>2. [op |-> "SendInLoop", data |-> Payload(t, len)] \in Task
      BY <2>1 DEF Task
    <2>3. /\ pending' = Append(pending, [op |-> "SendInLoop", data |-> Payload(t, len)])
          /\ batch' = batch /\ accepted' = accepted
      BY <1>7 DEF SendFromThread, connVars
    <2> HIDE DEF Payload
    <2>4. QED
      BY <1>1, <2>2, <2>3 DEF Queued
  <1>8. ASSUME NEW len \in Lengths, SendFromCallback(len)
        PROVE  \E complete \in BOOLEAN :
                 /\ status = "CONNECTED" /\ Issue(LoopThread, len)
                 /\ SendInLoop(Payload(LoopThread, len), complete)
                 /\ Queued' = Queued /\ UNCHANGED alive
    BY <1>8 DEF SendFromCallback, loopVars, Queued
  <1>9. CASE \/ LoopOnce \/ OnReadableData \/ OnReadableEnd \/ OnReadableError
             \/ OnWritable \/ OnWritableError \/ AppReturn \/ DropGuard \/ EndBatch
    <2>1. UNCHANGED <<batch, pending, accepted, issued>>
      BY <1>9 DEF LoopOnce, OnReadableData, OnReadableEnd, OnReadableError, OnWritable,
                  OnWritableError, AppReturn, DropGuard, EndBatch, connVars, ghostVars
    <2>2. status' = "CONNECTED" => status = "CONNECTED"
      BY <1>9 DEF LoopOnce, OnReadableData, OnReadableEnd, OnReadableError, OnWritable,
                  OnWritableError, AppReturn, DropGuard, EndBatch, connVars, OnClose, Shutdown
    <2>3. UNCHANGED alive \/ status' = "DISCONNECTED"
      BY <1>9 DEF LoopOnce, OnReadableData, OnReadableEnd, OnReadableError, OnWritable,
                  OnWritableError, AppReturn, DropGuard, EndBatch, connVars
    <2>4. QED
      BY <2>1, <2>2, <2>3 DEF Queued
  <1>10. CASE \/ ShutdownFromCallback \/ ConnectDestroyed \/ PeerSends \/ PeerEnds
              \/ Crashed \/ UNCHANGED vars
    <2>1. UNCHANGED <<batch, pending, accepted, issued, alive>>
      BY <1>10 DEF ShutdownFromCallback, ConnectDestroyed, PeerSends, PeerEnds, Crashed,
                   vars, connVars, loopVars, ghostVars
    <2>2. status' = "CONNECTED" => status = "CONNECTED"
      BY <1>10 DEF ShutdownFromCallback, ConnectDestroyed, PeerSends, PeerEnds, Crashed,
                   vars, connVars, Shutdown
    <2>3. QED
      BY <2>1, <2>2 DEF Queued
  <1>11. QED
    BY <1>3, <1>4, <1>5, <1>6, <1>7, <1>8, <1>9, <1>10 DEF Next, LoopStep

\* Before Established has run nobody has sent; a destroyed connection is
\* closed; only threads other than the loop's have data in the queue.
SentInv ==
  /\ status = "CONNECTING" => issued = [t \in Threads |-> 0]
  /\ ~alive => status = "DISCONNECTED"
  /\ \A k \in 1 .. Len(Queued) : \A i \in DOMAIN Queued[k].data :
       Queued[k].data[i].from \in Producers

\* The same for the whole way of the bytes, while the connection is up.
WayInv ==
  status = "CONNECTED" =>
    InOrder(Way(accepted, Queued)) /\ BytesOf(Way(accepted, Queued)) = Issued

\* On a connection that stays up, SendInLoop takes all of the data.
LEMMA SendConnected ==
  ASSUME NEW data, NEW complete, SendInLoop(data, complete), status' = "CONNECTED"
  PROVE  accepted' = accepted \o data
  <1>1. CASE GivenUp /\ UNCHANGED <<connVars, channelVars>>
    BY <1>1 DEF GivenUp, connVars
  <1>2. CASE ~GivenUp /\ \E n \in 0 .. Len(data) : SendDirectly(data, n)
    BY <1>2 DEF SendDirectly
  <1>3. CASE ~GivenUp /\ SendFatal
    BY <1>3 DEF SendFatal, Shutdown
  <1>4. CASE ~GivenUp /\ AppendToSendBuffer(data)
    BY <1>4 DEF AppendToSendBuffer
  <1>5. QED
    BY <1>1, <1>2, <1>3, <1>4 DEF SendInLoop

\* The queue and what was taken keep their types.
LEMMA QueuedType ==
  ASSUME TypeOK
  PROVE  Queued \in Seq(Task) /\ Len(Queued) \in Nat /\ accepted \in Seq(Byte)
  BY DEF TypeOK, Queued

\* No step puts data of the loop's own thread into the queue.
LEMMA SentStep ==
  ASSUME TypeOK, TypeOK', TaskInv, SentInv, [Next]_vars
  PROVE  SentInv'
  <1>1. Queued \in Seq(Task) /\ Len(Queued) \in Nat
    BY QueuedType
  <1>2. status = "DISCONNECTED" => status' = "DISCONNECTED"
    BY StatusSteps
  <1>3. status' = "CONNECTING" => status = "CONNECTING"
    BY StatusSteps
  <1> DEFINE Theirs(data) == \A i \in DOMAIN data : data[i].from \in Producers
  <1>4. \A k \in 1 .. Len(Queued) : Theirs(Queued[k].data)
    BY DEF SentInv
  <1> HIDE DEF Theirs
  <1>5. SUFFICES ASSUME \A k \in 1 .. Len(Queued') : Theirs(Queued'[k].data),
                        status' = "CONNECTING" => UNCHANGED issued,
                        UNCHANGED alive \/ status' = "DISCONNECTED"
                 PROVE  SentInv'
    <2>1. CASE \E t \in Producers, len \in Lengths :
                 /\ SendFromThread(t, len) /\ UNCHANGED accepted
                 /\ Queued' = Append(Queued, [op |-> "SendInLoop", data |-> Payload(t, len)])
      <3>1. PICK t \in Producers, len \in Lengths :
                 /\ SendFromThread(t, len)
                 /\ Queued' = Append(Queued, [op |-> "SendInLoop", data |-> Payload(t, len)])
        BY <2>1
      <3>2. Theirs(Payload(t, len))
        BY DEF Theirs, Payload
      <3> HIDE DEF Payload
      <3>3. ASSUME NEW k \in 1 .. Len(Queued') PROVE Theirs(Queued'[k].data)
        <4>1. Len(Queued') = Len(Queued) + 1
          BY <1>1, <3>1
        <4>2. CASE k = Len(Queued) + 1
          <5>1. Queued'[k] = [op |-> "SendInLoop", data |-> Payload(t, len)]
            BY <1>1, <3>1, <4>2
          <5>2. QED
            BY <3>2, <5>1
        <4>3. CASE k \in 1 .. Len(Queued)
          <5>1. Queued'[k] = Queued[k]
            BY <1>1, <3>1, <4>3
          <5>2. QED
            BY <1>4, <4>3, <5>1
        <4>4. QED
          BY <1>1, <4>1, <4>2, <4>3
      <3>4. status' # "CONNECTING" /\ alive' = alive
        BY <3>1 DEF SendFromThread, connVars
      <3>5. QED
        BY <1>5, <3>3, <3>4
    <2>2. CASE \E len \in Lengths, complete \in BOOLEAN :
                 /\ status = "CONNECTED" /\ Issue(LoopThread, len)
                 /\ SendInLoop(Payload(LoopThread, len), complete)
                 /\ Queued' = Queued /\ UNCHANGED alive
      BY <1>3, <1>4, <1>5, <2>2
    <2>3. CASE Queued # <<>> /\ Queued' = Tail(Queued) /\ UNCHANGED <<issued, alive>>
      <3>1. ASSUME NEW k \in 1 .. Len(Queued') PROVE Theirs(Queued'[k].data)
        <4>1. k + 1 \in 1 .. Len(Queued) /\ Queued'[k] = Queued[k + 1]
          BY <1>1, <2>3
        <4>2. QED
          BY <1>4, <4>1
      <3>2. QED
        BY <1>5, <2>3, <3>1
    <2>4. CASE Queued' = <<>> /\ UNCHANGED <<issued, alive>>
      <3>1. 1 .. Len(Queued') = {}
        BY <2>4
      <3>2. QED
        BY <1>5, <2>4, <3>1
    <2>5. CASE UNCHANGED <<Queued, issued>> /\ (UNCHANGED alive \/ status' = "DISCONNECTED")
      BY <1>4, <1>5, <2>5
    <2>6. QED
      BY <2>1, <2>2, <2>3, <2>4, <2>5, QueueSteps
  <1>6. QED
    BY <1>2, <1>3, <1>5 DEF SentInv, Theirs

\* While the connection is up, no step loses, repeats or reorders a byte on its
\* way.
LEMMA WayStep ==
  ASSUME TypeOK, TypeOK', TaskInv, SentInv, WayInv, [Next]_vars
  PROVE  WayInv'
  <1> SUFFICES ASSUME status' = "CONNECTED"
               PROVE  /\ InOrder(Way(accepted, Queued))'
                      /\ (BytesOf(Way(accepted, Queued)) = Issued)'
    BY DEF WayInv
  <1> DEFINE n == Len(Queued)
             s == Way(accepted, Queued)
             t == Way(accepted', Queued')
  <1>1. /\ Queued \in Seq(Task) /\ n \in Nat /\ accepted \in Seq(Byte)
        /\ s \in [0 .. n -> Seq(Byte)] /\ s[0] = accepted
        /\ \A k \in 1 .. n : s[k] = Queued[k].data
    BY QueuedType, WayIs
  <1>2. /\ Queued' \in Seq(Task) /\ Len(Queued') \in Nat /\ accepted' \in Seq(Byte)
        /\ t \in [0 .. Len(Queued') -> Seq(Byte)] /\ t[0] = accepted'
        /\ \A k \in 1 .. Len(Queued') : t[k] = Queued'[k].data
    <2>1. Queued' \in Seq(Task) /\ Len(Queued') \in Nat /\ accepted' \in Seq(Byte)
      BY DEF TypeOK, Queued
    <2>2. QED
      BY <2>1, WayIs
  <1>3. status = "CONNECTED" => InOrder(s) /\ BytesOf(s) = Issued
    BY DEF WayInv
  <1> HIDE DEF n, s, t
  <1>4. SUFFICES InOrder(t) /\ BytesOf(t) = Issued'
    BY DEF t, InOrder, BytesOf, Way
  <1>5. ASSUME NEW p \in Producers, NEW len \in Lengths, SendFromThread(p, len),
               UNCHANGED accepted,
               Queued' = Append(Queued, [op |-> "SendInLoop", data |-> Payload(p, len)])
        PROVE  InOrder(t) /\ BytesOf(t) = Issued'
    <2> DEFINE d == Payload(p, len)
    <2>1. status = "CONNECTED" /\ Issue(p, len) /\ p \in Threads
      BY <1>5 DEF SendFromThread, Threads
    <2>2. /\ Issued' = Issued \cup Range(d) /\ Rising(d)
          /\ \A b \in Issued : After(b, d)
      BY <2>1, IssuedGrows
    <2> HIDE DEF d
    <2>3. /\ Len(Queued') = n + 1
          /\ Queued'[n + 1] = [op |-> "SendInLoop", data |-> d]
          /\ \A k \in 1 .. n : Queued'[k] = Queued[k]
      BY <1>1, <1>5 DEF d, n
    <2>4. /\ t \in [0 .. n + 1 -> Seq(Byte)] /\ t[n + 1] = d
          /\ \A k \in 0 .. n : t[k] = s[k]
      <3>1. t \in [0 .. n + 1 -> Seq(Byte)]
        BY <1>2, <2>3, Zenon
      <3>2. t[n + 1] = d
        BY <1>1, <1>2, <2>3
      <3>3. ASSUME NEW k \in 1 .. n PROVE t[k] = s[k]
        <4>1. k \in 1 .. n + 1
          BY <1>1
        <4>2. t[k] = Queued'[k].data
          BY <1>2, <2>3, <4>1, Zenon
        <4>3. s[k] = Queued[k].data
          BY <1>1, Zenon
        <4>4. QED
          BY <2>3, <4>2, <4>3, Zenon
      <3>4. t[0] = s[0]
        BY <1>1, <1>2, <1>5
      <3>5. QED
        BY <1>1, <3>1, <3>2, <3>3, <3>4
    <2>5. InOrder(s) /\ BytesOf(s) = Issued
      BY <1>3, <2>1
    <2>6. InOrder(t) /\ BytesOf(t) = BytesOf(s) \cup Range(t[n + 1])
      <3>1. n \in Nat /\ s \in [0 .. n -> Seq(Byte)] /\ t \in [0 .. n + 1 -> Seq(Byte)]
        BY <1>1, <2>4
      <3>2. Rising(t[n + 1]) /\ \A b \in BytesOf(s) : After(b, t[n + 1])
        BY <2>2, <2>4, <2>5, Zenon
      <3>3. QED
        BY <2>4, <2>5, <3>1, <3>2, NewStretch, Zenon
    <2>7. QED
      BY <2>2, <2>4, <2>5, <2>6, Zenon
  <1>6. ASSUME NEW len \in Lengths, NEW complete \in BOOLEAN,
               status = "CONNECTED", Issue(LoopThread, len),
               SendInLoop(Payload(LoopThread, len), complete), Queued' = Queued
        PROVE  InOrder(t) /\ BytesOf(t) = Issued'
    <2> DEFINE d == Payload(LoopThread, len)
    <2>1. LoopThread \in Threads /\ len \in Nat
      BY LengthsAssumption DEF Threads, LengthsAssumption
    <2>2. /\ Issued' = Issued \cup Range(d) /\ Rising(d)
          /\ \A b \in Issued : After(b, d)
          /\ \A j \in DOMAIN d : d[j].from = LoopThread
      BY <1>6, <2>1, IssuedGrows
    <2>3. d \in Seq(Byte) /\ accepted' = accepted \o d
      BY <1>6, <2>1, PayloadType, SendConnected
    <2> HIDE DEF d
    <2>4. /\ t \in [0 .. n -> Seq(Byte)] /\ t[0] = s[0] \o d
          /\ \A k \in 1 .. n : t[k] = s[k]
      BY <1>1, <1>2, <1>6, <2>3 DEF n
    <2>5. InOrder(s) /\ BytesOf(s) = Issued
      BY <1>3, <1>6
    <2>6. \A k \in 1 .. n : Apart(s[k], d)
      <3> SUFFICES ASSUME NEW k \in 1 .. n PROVE Apart(s[k], d)
        OBVIOUS
      <3>1. k \in 1 .. Len(Queued) /\ s[k] = Queued[k].data
        BY <1>1 DEF n
      <3>2. \A i \in DOMAIN s[k] : s[k][i].from \in Producers
        BY <3>1 DEF SentInv
      <3>3. LoopThread \notin Producers
        BY ProducersAssumption DEF ProducersAssumption
      <3>4. QED
        BY <2>2, <3>2, <3>3 DEF Apart
    <2>7. InOrder(t) /\ BytesOf(t) = BytesOf(s) \cup Range(d)
      <3>1. n \in Nat /\ s \in [0 .. n -> Seq(Byte)]
        BY <1>1
      <3>2. \A b \in BytesOf(s) : After(b, d)
        BY <2>2, <2>5, Zenon
      <3>3. Rising(d) /\ InOrder(s) /\ d \in Seq(Byte)
        BY <2>2, <2>3, <2>5, Zenon
      <3>4. t \in [0 .. n -> Seq(Byte)] /\ t[0] = s[0] \o d
        BY <2>4, Zenon
      <3>5. \A k \in 1 .. n : t[k] = s[k]
        BY <2>4, Zenon
      <3>6. Longer(n, s, t, d)
        BY <2>6, <3>1, <3>2, <3>3, <3>4, <3>5, Zenon DEF Longer
      <3>7. QED
        BY <3>6, LongerFirst
    <2>8. QED
      BY <2>2, <2>5, <2>7, Zenon
  <1>7. ASSUME NEW complete \in BOOLEAN, Queued # <<>>, Queued' = Tail(Queued),
               SendInLoop(Queued[1].data, complete), UNCHANGED issued
        PROVE  InOrder(t) /\ BytesOf(t) = Issued'
    <2>1. accepted' = accepted \o Queued[1].data /\ status = "CONNECTED"
      <3>1. accepted' = accepted \o Queued[1].data
        BY <1>7, SendConnected
      <3>2. status = "CONNECTED"
        BY <1>7 DEF SendInLoop, SendDirectly, SendFatal, AppendToSendBuffer, Shutdown, connVars
      <3>3. QED
        BY <3>1, <3>2
    <2> DEFINE m == Len(Queued')
    <2>2. /\ m \in Nat /\ n = m + 1 /\ 1 \in 1 .. n
          /\ \A k \in 1 .. m : k + 1 \in 1 .. n /\ Queued'[k] = Queued[k + 1]
      BY <1>1, <1>7 DEF n
    <2>3. t \in [0 .. m -> Seq(Byte)]
      BY <1>2
    <2> HIDE DEF m
    <2>4. s \in [0 .. m + 1 -> Seq(Byte)]
      BY <1>1, <2>2, Zenon
    <2>5. t[0] = s[0] \o s[1]
      BY <1>1, <1>2, <2>1, <2>2
    <2>6. \A k \in 1 .. m : t[k] = s[k + 1]
      BY <1>1, <1>2, <2>2 DEF m
    <2>7. InOrder(s) /\ BytesOf(s) = Issued
      BY <1>3, <2>1
    <2>8. InOrder(t) /\ BytesOf(t) = BytesOf(s)
      <3>1. m \in Nat
        BY <2>2
      <3>2. QED
        BY <3>1, <2>3, <2>4, <2>5, <2>6, <2>7, JoinFirst, Zenon
    <2>9. Issued' = Issued
      BY <1>7 DEF Issued
    <2>10. QED
      BY <2>7, <2>8, <2>9, Zenon
  <1>8. ASSUME RunEstablished, status = "CONNECTING", Queued' = <<>>,
               UNCHANGED <<accepted, issued>>
        PROVE  InOrder(t) /\ BytesOf(t) = Issued'
    <2>1. accepted' = <<>>
      BY <1>8 DEF TaskInv
    <2>2. DOMAIN t = {0} /\ t[0] = <<>>
      BY <1>2, <1>8, <2>1
    <2>3. issued' = [f \in Threads |-> 0]
      BY <1>8 DEF SentInv
    <2>4. Issued' = {}
      BY <2>3 DEF Issued
    <2>5. DOMAIN t[0] = {}
      BY <2>2
    <2>6. QED
      BY <2>2, <2>4, <2>5 DEF InOrder, BytesOf, Range
  <1>9. ASSUME UNCHANGED <<Queued, accepted, issued>>, status = "CONNECTED"
        PROVE  InOrder(t) /\ BytesOf(t) = Issued'
    <2>1. t = s
      BY <1>9 DEF s, t
    <2>2. Issued' = Issued
      BY <1>9 DEF Issued
    <2>3. QED
      BY <1>3, <1>9, <2>1, <2>2
  <1>10. alive \/ status' = "DISCONNECTED"
    BY StatusSteps DEF SentInv
  <1>11. QED
    BY <1>5, <1>6, <1>7, <1>8, <1>9, <1>10, QueueSteps

\* At the start nothing is on its way.
LEMMA WayStart ==
  ASSUME Init
  PROVE  SentInv /\ WayInv
  <1>1. Queued = << [op |-> "Established", data |-> <<>>] >>
    BY DEF Init, Queued
  <1>2. Len(Queued) = 1 /\ Queued[1].data = <<>>
    BY <1>1
  <1>3. QED
    BY <1>2 DEF Init, SentInv, WayInv

\* What is known of the bytes on their way holds in every reachable state.
THEOREM WayCorrect == Spec => [](SentInv /\ WayInv)
  <1>1. Init => SentInv /\ WayInv
    BY WayStart
  <1>2. IInv /\ IInv' /\ SentInv /\ WayInv /\ [Next]_vars => (SentInv /\ WayInv)'
    BY SentStep, WayStep DEF IInv
  <1>3. QED
    BY <1>1, <1>2, Invariant, PTL DEF Spec

\* As long as the connection is up, every byte given to Send is with the kernel,
\* buffered or queued, once and in the order of its thread.
THEOREM NothingLostCorrect == Spec => []NothingLostWhileConnected
  <1>1. StreamIntegrity /\ WayInv => NothingLostWhileConnected
    <2> SUFFICES ASSUME StreamIntegrity, WayInv PROVE NothingLostWhileConnected
      OBVIOUS
    <2>1. Stretches = Way(accepted, Queued)
      BY DEF StreamIntegrity, Stretches, Way, Queued
    <2>2. QED
      BY <2>1 DEF WayInv, NothingLostWhileConnected
  <1>2. QED
    BY <1>1, Integrity, WayCorrect, PTL

\* The bytes of a thread that were taken are in order and without a gap.
TakenInOrder(taken) ==
  /\ InOrder(<<taken>>)
  /\ \A b \in BytesOf(<<taken>>) :
       {[from |-> b.from, seq |-> k] : k \in 1 .. b.seq} \subseteq BytesOf(<<taken>>)

\* This much of it follows while the connection is up.
ConnectedInOrder == status = "CONNECTED" => TakenInOrder(accepted)

\* One stretch of bytes, read out.
LEMMA TakenIs ==
  ASSUME NEW taken
  PROVE  /\ InOrder(<<taken>>) <=> \A i, j \in DOMAIN taken :
              i < j /\ taken[i].from = taken[j].from => taken[i].seq < taken[j].seq
         /\ BytesOf(<<taken>>) = Range(taken)
  <1>1. DOMAIN <<taken>> = {1} /\ <<taken>>[1] = taken
    OBVIOUS
  <1>2. QED
    BY <1>1 DEF InOrder, BytesOf

\* What is on its way being in order and complete, what was taken of it is.
LEMMA TakenOfWay ==
  ASSUME TypeOK, WayInv, status = "CONNECTED"
  PROVE  TakenInOrder(accepted)
  <1> DEFINE s == Way(accepted, Queued)
  <1>1. /\ Len(Queued) \in Nat /\ s \in [0 .. Len(Queued) -> Seq(Byte)]
        /\ s[0] = accepted
    BY QueuedType, WayIs
  <1>2. InOrder(s) /\ BytesOf(s) = Issued
    BY DEF WayInv
  <1> HIDE DEF s
  <1>3. 0 \in DOMAIN s /\ \A k \in DOMAIN s : k # 0 => 0 < k
    BY <1>1
  <1>4. InOrder(<<accepted>>)
    <2>1. \A i, j \in DOMAIN accepted :
            i < j /\ accepted[i].from = accepted[j].from => accepted[i].seq < accepted[j].seq
      BY <1>1, <1>2, <1>3 DEF InOrder
    <2>2. QED
      BY <2>1, TakenIs
  <1>5. ASSUME NEW b \in Range(accepted), NEW q \in 1 .. b.seq
        PROVE  [from |-> b.from, seq |-> q] \in Range(accepted)
    <2>1. PICK j \in DOMAIN accepted : accepted[j] = b
      BY DEF Range
    <2>2. b \in Issued
      BY <1>1, <1>2, <1>3, <2>1, InBytesOf
    <2>3. [from |-> b.from, seq |-> q] \in Issued
      <3>1. /\ b \in [from : Threads, seq : 1 .. MaxBytes] /\ b.seq <= issued[b.from]
            /\ issued \in [Threads -> 0 .. MaxBytes] /\ MaxBytes \in Nat
        BY <2>2, BoundsAssumption DEF Issued, TypeOK, BoundsAssumption
      <3>2. b.from \in Threads /\ b.seq \in 1 .. MaxBytes /\ issued[b.from] \in Nat
        BY <3>1
      <3>3. q \in 1 .. MaxBytes /\ q <= issued[b.from]
        BY <3>1, <3>2
      <3>4. QED
        BY <3>2, <3>3 DEF Issued
    <2>4. PICK k \in DOMAIN s :
              \E i \in DOMAIN s[k] : s[k][i] = [from |-> b.from, seq |-> q]
      BY <1>2, <2>3, InBytesOf
    <2>5. PICK i \in DOMAIN s[k] : s[k][i] = [from |-> b.from, seq |-> q]
      BY <2>4
    <2>6. CASE k = 0
      BY <1>1, <2>5, <2>6 DEF Range
    <2>7. CASE k # 0
      <3>1. s[0][j].from = s[k][i].from /\ j \in DOMAIN s[0] /\ 0 < k
        BY <1>1, <1>3, <2>1, <2>5, <2>7
      <3>2. s[0][j].seq < s[k][i].seq
        BY <1>2, <1>3, <3>1 DEF InOrder
      <3>3. b.seq < q
        BY <1>1, <2>1, <2>5, <3>2
      <3>4. b.seq \in Nat
        BY <2>2 DEF Issued
      <3>5. QED
        BY <3>3, <3>4
    <2>8. QED
      BY <2>6, <2>7
  <1>6. QED
    BY <1>4, <1>5, TakenIs DEF TakenInOrder

\* The socket sees a thread's bytes in the order of its calls, without a gap,
\* also after a shutdown or an error.
THEOREM SenderOrderCorrect == Spec => []SenderOrder
  <1>1. Init => TakenInOrder(accepted)
    <2> SUFFICES ASSUME Init PROVE TakenInOrder(accepted)
      OBVIOUS
    <2>1. accepted = <<>> /\ DOMAIN accepted = {} /\ Range(accepted) = {}
      BY DEF Init, Range
    <2>2. QED
      BY <2>1, TakenIs DEF TakenInOrder
  <1>2. IInv /\ ConnectedInOrder' /\ TakenInOrder(accepted) /\ [Next]_vars
          => TakenInOrder(accepted)'
    <2> SUFFICES ASSUME IInv, ConnectedInOrder', TakenInOrder(accepted), [Next]_vars
                 PROVE  TakenInOrder(accepted)'
      OBVIOUS
    <2>1. CASE accepted' = accepted
      BY <2>1 DEF TakenInOrder, InOrder, BytesOf
    <2>2. CASE accepted' # accepted
      <3>1. status' = "CONNECTED"
        BY <2>2, TakenWhileConnected DEF IInv
      <3>2. QED
        BY <3>1 DEF ConnectedInOrder
    <2>3. QED
      BY <2>1, <2>2
  <1>3. StreamIntegrity /\ TakenInOrder(accepted) => SenderOrder
    BY DEF StreamIntegrity, TakenInOrder, SenderOrder
  <1>4. IInv /\ WayInv => ConnectedInOrder
    BY TakenOfWay DEF IInv, ConnectedInOrder
  <1>5. QED
    BY <1>1, <1>2, <1>3, <1>4, Invariant, WayCorrect, Integrity, PTL DEF Spec
=============================================================================
