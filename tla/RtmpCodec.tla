----------------------------- MODULE RtmpCodec -----------------------------
(***************************************************************************)
(* The decoder of a push connection once its shake hand is done:           *)
(* RtmpManager::ParseData, RtmpCodec and RtmpPack (utils/codec).           *)
(*                                                                         *)
(* A broadcaster sends messages cut into chunks; TCP hands them over in    *)
(* pieces cut anywhere.  Each readable event runs ParseData once over what *)
(* is in the buffer; between two events the decoder remembers how far it   *)
(* got.  A byte of a header carries what the header says, a byte of a body *)
(* its message and its place.                                              *)
(***************************************************************************)
EXTENDS Integers, SequencesExt

CONSTANTS
  Kinds,        \* what is sent: records of a type and a size
  HeaderLen,    \* length of a chunk header by its fmt
  ChunkSize,    \* rtmp_chunk_size_
  StartLength,  \* RTMP_START_PARSE_LENGTH
  RecvCap,      \* capacity of the receive buffer
  HasAudio,     \* whether an audio header is waited for (not in MONITOR_MODE)
  MaxMessages   \* bound: messages sent

Types == {"script", "video", "audio"}
Fmts == 0 .. 3

ASSUME KindsAssumption == Kinds \subseteq [type : Types, size : Nat \ {0}]
ASSUME HeaderLenAssumption == HeaderLen \in [Fmts -> 1 .. RecvCap - 1]
ASSUME SizesAssumption ==
  /\ ChunkSize \in Nat \ {0} /\ RecvCap \in Nat
  /\ StartLength \in 1 .. RecvCap - 1
  /\ HasAudio \in BOOLEAN /\ MaxMessages \in Nat

VARIABLES
  wire,        \* sent and not read yet
  buffer,      \* recv_buffer_
  dataStatus,  \* decode_data_status
  packStatus,  \* decode_pack_status
  readChunk,   \* read_chunk_size_
  current,     \* current_rtmp_pack_
  last,        \* last_rtmp_pack_
  first,       \* first_script_pack_, first_video_pack_, first_audio_pack_
  packFinish,  \* pack_finish of DecodeData
  pc,          \* where the handler is
  delivered,   \* the packs given to the new-pack callback
  sent,        \* the messages of the broadcaster, the last one not all sent yet
  passed,      \* bytes of the last one that are sent; 0 when all are
  finished     \* ghost: every value last_rtmp_pack_ was given

decoderVars == <<packStatus, readChunk, current, last, buffer, finished>>
senderVars == <<sent, passed>>
vars == <<decoderVars, wire, dataStatus, first, packFinish, pc, delivered,
          senderVars>>

NoPack == [type |-> "other", size |-> 0, body |-> <<>>]

-----------------------------------------------------------------------------
(* The broadcaster *)

\* A byte of a header says of which message it is, how many bytes of the body
\* come before it and its place in the header; the decoder reads fmt and kind.
HeaderBytes(n, kind, fmt, from) ==
  [i \in 1 .. HeaderLen[fmt] |->
     [part |-> "header", fmt |-> fmt, kind |-> kind,
      msg |-> n, from |-> from, at |-> i]]

\* The bytes from place a + 1 to place b of the body of message n.
BodyBytes(n, a, b) ==
  [i \in 1 .. b - a |-> [part |-> "body", msg |-> n, at |-> a + i]]

Smaller(a, b) == IF a < b THEN a ELSE b

Chunk(n, kind, fmt, from) ==
  HeaderBytes(n, kind, fmt, from)
    \o BodyBytes(n, from, Smaller(from + ChunkSize, kind.size))

\* FMT2 and FMT3 leave out the size and the type, so they must be the same.
Allowed(kind, fmt) ==
  \/ fmt = 0
  \/ fmt = 1 /\ sent # <<>>
  \/ fmt \in {2, 3} /\ sent # <<>> /\ kind = Last(sent)

\* The chunk of message n from place from on goes out.
SendChunk(n, kind, fmt, from) ==
  /\ wire' = wire \o Chunk(n, kind, fmt, from)
  /\ passed' = IF from + ChunkSize < kind.size THEN from + ChunkSize ELSE 0
  /\ UNCHANGED <<decoderVars, dataStatus, first, packFinish, pc, delivered>>

\* The first chunk of a message has a header of the given fmt.
SendFirstChunk(kind, fmt) ==
  /\ passed = 0 /\ Len(sent) < MaxMessages
  /\ Allowed(kind, fmt)
  /\ sent' = Append(sent, kind)
  /\ SendChunk(Len(sent) + 1, kind, fmt, 0)

\* The others have the one of FMT3.
SendNextChunk ==
  /\ passed > 0
  /\ SendChunk(Len(sent), Last(sent), 3, passed)
  /\ UNCHANGED sent

Init ==
  /\ wire = <<>> /\ buffer = <<>>
  /\ dataStatus = "first" /\ packStatus = "header"
  /\ readChunk = 0
  /\ current = NoPack /\ last = NoPack
  /\ first = [t \in Types |-> NoPack]
  /\ packFinish = FALSE
  /\ pc = "idle"
  /\ delivered = <<>> /\ finished = <<>>
  /\ sent = <<>> /\ passed = 0

-----------------------------------------------------------------------------
(* RtmpPack and RtmpCodec::DecodePack *)

\* A byte of a body in the place of a header is taken for some header.
FmtOf(b) == IF b.part = "header" THEN b.fmt ELSE 3

HeaderReady == buffer # <<>> /\ HeaderLen[FmtOf(Head(buffer))] <= Len(buffer)

\* DecodePack finds something to do.
CanDecode == buffer # <<>> /\ (packStatus = "header" => HeaderReady)

\* RtmpPack::DecodeHeader: FMT0 and FMT1 carry a type and a size, the others
\* leave those of the pack before.
DecodeHeader ==
  IF packStatus = "header" /\ FmtOf(Head(buffer)) \in {0, 1}
    THEN [current EXCEPT !.type = Head(buffer).kind.type,
                         !.size = Head(buffer).kind.size]
    ELSE current

AfterHeader ==
  IF packStatus = "header"
    THEN SubSeq(buffer, HeaderLen[FmtOf(Head(buffer))] + 1, Len(buffer))
    ELSE buffer

Grown(pack, n) == [pack EXCEPT !.body = @ \o SubSeq(AfterHeader, 1, n)]

Remain(pack) == pack.size - Len(pack.body)

\* Mutant: a chunk that is read in part is taken for the last one as soon as
\* the rest of the pack would fit into one.
ChunkOverByRemain(pack) == Remain(pack) \in 0 .. ChunkSize

\* chunk_over_: this chunk is the last of its pack.  A pack that holds more
\* than its size would never be over, as the remainder is unsigned.
ChunkOver(pack) == Remain(pack) \in 0 .. ChunkSize /\ readChunk = 0

\* RtmpCodec::DecodeBody and the end of DecodePack.  A chunk that is not the
\* last of its pack ends after ChunkSize bytes, wherever the buffer was cut.
DecodeBody(pack) ==
  LET want == IF ChunkOver(pack) THEN Remain(pack) ELSE ChunkSize - readChunk
      n == Smaller(want, Len(AfterHeader))
      bodyFinish == n = want
  IN  /\ buffer' = SubSeq(AfterHeader, n + 1, Len(AfterHeader))
      /\ readChunk' = CASE ChunkOver(pack) -> readChunk
                        [] ~ChunkOver(pack) /\ bodyFinish -> 0
                        [] ~ChunkOver(pack) /\ ~bodyFinish -> readChunk + n
      /\ packStatus' = IF bodyFinish THEN "header" ELSE "body"
      /\ IF ChunkOver(pack) /\ bodyFinish
           THEN /\ last' = Grown(pack, n)
                /\ finished' = Append(finished, last')
                /\ current' = [pack EXCEPT !.body = <<>>]
           ELSE current' = Grown(pack, n) /\ UNCHANGED <<last, finished>>

DecodePack == CanDecode /\ DecodeBody(DecodeHeader)

-----------------------------------------------------------------------------
(* RtmpCodec::DecodeData, ParseFirstHeader and RtmpManager::ParseData *)

FirstComplete ==
  \A t \in Types : first[t] # NoPack \/ (t = "audio" /\ ~HasAudio)

\* Mutant: pack_finish is not reset.
ReadFinishKept ==
  /\ pc = "idle"
  /\ \E n \in 1 .. Smaller(Len(wire), RecvCap - Len(buffer)) :
       /\ buffer' = buffer \o SubSeq(wire, 1, n)
       /\ wire' = SubSeq(wire, n + 1, Len(wire))
  /\ pc' = "decode"
  /\ UNCHANGED <<packStatus, readChunk, current, last, finished, dataStatus,
                 first, packFinish, delivered, senderVars>>

\* The handler reads what there is, as far as there is room.
ReadFromSockfd ==
  /\ pc = "idle"
  /\ \E n \in 1 .. Smaller(Len(wire), RecvCap - Len(buffer)) :
       /\ buffer' = buffer \o SubSeq(wire, 1, n)
       /\ wire' = SubSeq(wire, n + 1, Len(wire))
  /\ packFinish' = FALSE
  /\ pc' = "decode"
  /\ UNCHANGED <<packStatus, readChunk, current, last, finished, dataStatus,
                 first, delivered, senderVars>>

BeginFirstHeader ==
  /\ pc = "decode" /\ dataStatus = "first"
  /\ Len(buffer) >= StartLength
  /\ pc' = "first"
  /\ UNCHANGED <<decoderVars, wire, dataStatus, first, packFinish, delivered,
                 senderVars>>

\* Mutant: it goes on after the first packs are complete.
ParseFirstHeaderGreedy ==
  /\ pc = "first"
  /\ DecodePack
  /\ first' = IF finished' = finished THEN first
              ELSE [first EXCEPT ![last'.type] = last']
  /\ UNCHANGED <<wire, dataStatus, packFinish, pc, delivered, senderVars>>

\* A pack of a type that was there before takes the place of the older one.
ParseFirstHeader ==
  /\ pc = "first"
  /\ ~FirstComplete
  /\ DecodePack
  /\ first' = IF finished' = finished THEN first
              ELSE [first EXCEPT ![last'.type] = last']
  /\ UNCHANGED <<wire, dataStatus, packFinish, pc, delivered, senderVars>>

\* Mutant: it leaves the loop between any two chunks.
EndFirstHeaderAtChunk ==
  /\ pc = "first"
  /\ FirstComplete \/ ~CanDecode \/ packStatus = "header"
  /\ packFinish' = FirstComplete
  /\ dataStatus' = IF FirstComplete THEN "data" ELSE "first"
  /\ pc' = IF FirstComplete THEN "decode" ELSE "callback"
  /\ UNCHANGED <<decoderVars, wire, first, delivered, senderVars>>

EndFirstHeader ==
  /\ pc = "first"
  /\ FirstComplete \/ ~CanDecode
  /\ packFinish' = FirstComplete
  /\ dataStatus' = IF FirstComplete THEN "data" ELSE "first"
  /\ pc' = IF FirstComplete THEN "decode" ELSE "callback"
  /\ UNCHANGED <<decoderVars, wire, first, delivered, senderVars>>

\* Mutant: a call that completes nothing forgets that an earlier one did.
DecodeDataPackForgets ==
  /\ pc = "decode" /\ dataStatus = "data"
  /\ DecodePack
  /\ packFinish' = (finished' # finished)
  /\ UNCHANGED <<wire, dataStatus, first, pc, delivered, senderVars>>

DecodeDataPack ==
  /\ pc = "decode" /\ dataStatus = "data"
  /\ DecodePack
  /\ packFinish' = (packFinish \/ finished' # finished)
  /\ UNCHANGED <<wire, dataStatus, first, pc, delivered, senderVars>>

EndDecodeData ==
  /\ pc = "decode"
  /\ IF dataStatus = "first" THEN Len(buffer) < StartLength ELSE ~CanDecode
  /\ pc' = "callback"
  /\ UNCHANGED <<decoderVars, wire, dataStatus, first, packFinish, delivered,
                 senderVars>>

\* The callback is given the pack that was completed last, if any was.
NewRtmpPack ==
  /\ pc = "callback"
  /\ delivered' = IF packFinish THEN Append(delivered, last) ELSE delivered
  /\ pc' = "idle"
  /\ UNCHANGED <<decoderVars, wire, dataStatus, first, packFinish, senderVars>>

Handler ==
  \/ ReadFromSockfd
  \/ BeginFirstHeader \/ ParseFirstHeader \/ EndFirstHeader
  \/ DecodeDataPack \/ EndDecodeData \/ NewRtmpPack

\* The broadcaster has sent all it sends in this run, and all of it was read.
Done ==
  /\ pc = "idle" /\ wire = <<>> /\ Len(sent) = MaxMessages /\ passed = 0
  /\ UNCHANGED vars

Sender ==
  \/ \E kind \in Kinds, fmt \in Fmts : SendFirstChunk(kind, fmt)
  \/ SendNextChunk

Next == Handler \/ Sender \/ Done

Spec == Init /\ [][Next]_vars /\ WF_vars(Handler)

-----------------------------------------------------------------------------
(* Properties that hold *)

HeaderByte == [part : {"header"}, fmt : Fmts, kind : Kinds,
               msg : Nat \ {0}, from : Nat, at : Nat \ {0}]
BodyByte == [part : {"body"}, msg : Nat \ {0}, at : Nat \ {0}]
WireByte == HeaderByte \cup BodyByte
\* A byte of a header may be in a body, by its type: Reassembled says it is not.
PackType == [type : Types \cup {"other"}, size : Nat, body : Seq(WireByte)]

TypeOK ==
  /\ wire \in Seq(WireByte) /\ buffer \in Seq(WireByte)
  /\ Len(buffer) <= RecvCap
  /\ dataStatus \in {"first", "data"} /\ packStatus \in {"header", "body"}
  /\ readChunk \in 0 .. ChunkSize - 1
  /\ current \in PackType /\ last \in PackType
  /\ first \in [Types -> PackType]
  /\ packFinish \in BOOLEAN
  /\ pc \in {"idle", "decode", "first", "callback"}
  /\ delivered \in Seq(PackType) /\ finished \in Seq(PackType)
  /\ sent \in Seq(Kinds) /\ passed \in Nat

\* Message n, whole.
Pack(n) == [type |-> sent[n].type, size |-> sent[n].size,
            body |-> BodyBytes(n, 0, sent[n].size)]

\* However TCP cuts the stream, also inside a header, at the end of a chunk or
\* between two chunks, the packs that are completed are the messages that were
\* sent: all their bytes, no byte of a header, in order (DecodePack, DecodeBody,
\* DecodeHeader).
Reassembled ==
  /\ Len(finished) <= Len(sent)
  /\ \A n \in DOMAIN finished : finished[n] = Pack(n)

\* There is always room for the next read: a full buffer would make read()
\* return 0, which is taken for the end of the stream (DecodeData,
\* Buffer::ReadFromSockfd).
RoomToRead == pc = "idle" => Len(buffer) < RecvCap

\* No pack is given to the callback twice or after a later one (ParseData).
DeliveredOnceInOrder ==
  \A i, j \in DOMAIN delivered :
    i < j => delivered[i].body[1].msg < delivered[j].body[1].msg

\* When an event is over, the callback has been given the newest complete pack:
\* none waits for the next event (DecodeData, ParseData).
NewestDelivered ==
  pc = "idle" /\ dataStatus = "data" =>
    delivered # <<>> /\ Last(delivered) = Last(finished)

\* The packs kept for viewers that join later never change once there is one
\* of each, and are messages of their type (ParseFirstHeader).
FirstPacksKept == [][FirstComplete => UNCHANGED first]_vars

-----------------------------------------------------------------------------
(* What the README of the program says, and the code does not do *)

\* README.md, the RTMP section: the server "has to assemble Messages from
\* Message Chunks and then get audio and video data out of the Messages": every
\* complete message that is not one of the first packs reaches the callback.
MessagesDelivered ==
  pc = "idle" =>
    \A n \in DOMAIN finished :
      \/ \E t \in Types : finished[n] = first[t]
      \/ finished[n] \in ToSet(delivered)

=============================================================================
