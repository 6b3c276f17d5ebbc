------------------------------ MODULE FlvTags ------------------------------
(***************************************************************************)
(* The sizes and times a player reads: from the header of an RTMP message  *)
(* (utils/codec/RtmpPack.cpp) over Rtmp2FlvCodec::Transform to the tags    *)
(* that a viewer is sent (live/connection/HttpPullConnection.cpp).         *)
(*                                                                         *)
(* RtmpCodec tells how a message is put together, here it is there at      *)
(* once; LiveBroadcast how threads interleave.  Bytes have Base values,    *)
(* 256 in the program: a size is three bytes, base_timestamp_ four.        *)
(***************************************************************************)
EXTENDS Integers, Sequences

CONSTANTS
  Base,       \* how many values a byte has
  Viewers,
  Types,      \* the types of the messages of the broadcaster, in order
  Deltas,     \* the times between two messages, as three bytes
  Sizes       \* the sizes of messages, as three bytes

ASSUME BaseAssumption == Base \in Nat /\ Base > 1
ASSUME TypesAssumption == Types \in Seq({"script", "video", "audio"})

Byte == 0 .. Base - 1
Three == [1 .. 3 -> Byte]
ASSUME DeltasAssumption == Deltas \subseteq Three
ASSUME SizesAssumption == Sizes \subseteq Three

VARIABLES
  sent,       \* the broadcaster: how many messages it has sent
  clock,      \* the broadcaster: the time of the last one
  pack,       \* current_rtmp_pack_ and, when one is complete, last_rtmp_pack_
  firsts,     \* first_script_pack_, first_video_pack_, first_audio_pack_
  finish,     \* pack_finish
  base,       \* base_timestamp_
  header,     \* the tags of header_buffer_
  viewer,     \* where a viewer is in AddClientConnection
  last,       \* last_tag_size_ of a viewer
  out         \* the tags a viewer is sent after the header

pushVars == <<sent, clock, pack, firsts, finish, base>>
vars == <<pushVars, header, viewer, last, out>>

FLV_TAG_HEADER_LENGTH == 11
Stamps == Base * Base * Base           \* a time of three bytes comes round after this

BigEndian(n) == <<(n \div (Base * Base)) % Base, (n \div Base) % Base, n % Base>>
Number(bytes) == bytes[1] * Base * Base + bytes[2] * Base + bytes[3]

Init ==
  /\ sent = 0 /\ clock = 0
  /\ pack = [timestamp |-> <<0, 0, 0>>, dataSize |-> <<0, 0, 0>>, body |-> 0]
  /\ firsts = <<>>
  /\ finish = FALSE /\ base = 0
  /\ header = <<>>
  /\ viewer = [v \in Viewers |-> "new"]
  /\ last = [v \in Viewers |-> 0]
  /\ out = [v \in Viewers |-> <<>>]

-----------------------------------------------------------------------------
(* The broadcaster, as librtmp does it: the full header, which has the time  *)
(* itself, for the first message and while the time is 0; then differences.  *)

Absolute == sent = 0 \/ clock = 0

Allowed(fmt, d, size) ==
  /\ fmt = 0 => Absolute /\ (sent > 0 => Number(d) = 0)
  /\ sent = 0 => fmt = 0
  /\ fmt \in {2, 3} => size = pack.dataSize
  /\ fmt = 3 => d = pack.timestamp

-----------------------------------------------------------------------------
(* RtmpPack and ParseFirstHeader *)

\* Mutant: a header without a size has size 0.
DecodeHeaderSizeless(fmt, d, size) ==
  [timestamp |-> IF fmt = 3 THEN pack.timestamp ELSE d,
   dataSize  |-> IF fmt \in {0, 1} THEN size ELSE <<0, 0, 0>>,
   body      |-> Number(size)]

\* Mutant: a header without a time has time 0.
DecodeHeaderTimeless(fmt, d, size) ==
  [timestamp |-> IF fmt = 3 THEN <<0, 0, 0>> ELSE d,
   dataSize  |-> IF fmt \in {0, 1} THEN size ELSE pack.dataSize,
   body      |-> Number(size)]

\* What a header does not have keeps the value it had.
DecodeHeader(fmt, d, size) ==
  [timestamp |-> IF fmt = 3 THEN pack.timestamp ELSE d,
   dataSize  |-> IF fmt \in {0, 1} THEN size ELSE pack.dataSize,
   body      |-> Number(size)]

HasFirsts == {"script", "video", "audio"} \subseteq DOMAIN firsts

\* A message is complete.  Those before the first packs are all there are kept,
\* the newest of each type; the one that completes them is delivered as well.
DecodePack(fmt, d, size) ==
  /\ sent < Len(Types) /\ Allowed(fmt, d, size)
  /\ sent' = sent + 1
  /\ clock' = clock + Number(d)
  /\ pack' = DecodeHeader(fmt, d, size)
  /\ firsts' = IF HasFirsts THEN firsts
               ELSE [type \in DOMAIN firsts \cup {Types[sent']} |->
                       IF type = Types[sent'] THEN pack' ELSE firsts[type]]
  /\ finish' = HasFirsts'
  /\ UNCHANGED <<base, header, viewer, last, out>>

-----------------------------------------------------------------------------
(* Rtmp2FlvCodec and FlvTag *)

\* base_timestamp_ after Transform of p.  The top byte of the number that is
\* added is never set: it may be anything.
Transform(p, from, top) == (from + Number(p.timestamp) + top * Stamps) % (Stamps * Base)

\* The lower three bytes of the four.
SetTimeStamp(timestamp) == BigEndian(timestamp)

Tag(p, stamp) == [size |-> p.dataSize, stamp |-> SetTimeStamp(stamp), body |-> p.body]
GetCurrentTagSize(tag) == FLV_TAG_HEADER_LENGTH + Number(tag.size)

-----------------------------------------------------------------------------
(* Viewers *)

\* What viewer v has been sent, and the size it remembers, with one tag more.
AddFlvTag(v, tag) ==
  [sent |-> Append(out[v], [tag |-> tag, prev |-> last[v],
                            n |-> sent, time |-> clock, late |-> header # <<>>]),
   size |-> GetCurrentTagSize(tag)]

\* The last of the packs that one event completed becomes a tag.
OnNewRtmpPack ==
  /\ finish
  /\ finish' = FALSE
  /\ \E top \in Byte : base' = Transform(pack, base, top)
  /\ LET tag == Tag(pack, base')
         Members == {v \in Viewers : viewer[v] # "new"}
     IN  /\ out' = [v \in Viewers |-> IF v \in Members THEN AddFlvTag(v, tag).sent ELSE out[v]]
         /\ last' = [v \in Viewers |-> IF v \in Members THEN AddFlvTag(v, tag).size ELSE last[v]]
  /\ UNCHANGED <<sent, clock, pack, firsts, header, viewer>>

\* From here on the viewer is in the map.
AddClientConnection(v) ==
  /\ viewer[v] = "new" /\ {"script", "video"} \subseteq DOMAIN firsts
  /\ viewer' = [viewer EXCEPT ![v] = "insert"]
  /\ UNCHANGED <<pushVars, header, last, out>>

\* The tags of a header: the audio may not have arrived.  Each has the size of
\* the one before.
HeaderTags(stamps) ==
  LET script == Tag(firsts["script"], stamps[1])
      video == Tag(firsts["video"], stamps[2])
  IN  <<[tag |-> script, prev |-> 0],
        [tag |-> video, prev |-> GetCurrentTagSize(script)]>>
      \o IF HasFirsts THEN <<[tag |-> Tag(firsts["audio"], stamps[3]),
                             prev |-> GetCurrentTagSize(video)]>>
                      ELSE <<>>

\* The first viewer has the header made, and every Transform advances
\* base_timestamp_.
GetHeaderDataBuffer(v) ==
  /\ viewer[v] = "insert" /\ header = <<>>
  /\ \E top \in Byte :
       LET script == Transform(firsts["script"], base, top)
           video == Transform(firsts["video"], script, top)
           audio == IF HasFirsts THEN Transform(firsts["audio"], video, top) ELSE video
       IN  /\ header' = HeaderTags(<<script, video, audio>>)
           /\ base' = audio
  /\ UNCHANGED <<sent, clock, pack, firsts, finish, viewer, last, out>>

SendHeaderOnConnection(v) ==
  /\ viewer[v] = "insert" /\ header # <<>>
  /\ viewer' = [viewer EXCEPT ![v] = "watching"]
  /\ UNCHANGED <<pushVars, header, last, out>>

-----------------------------------------------------------------------------

Done ==
  /\ sent = Len(Types) /\ ~finish /\ \A v \in Viewers : viewer[v] # "insert"
  /\ UNCHANGED vars

Next ==
  \/ \E fmt \in 0 .. 3, d \in Deltas, size \in Sizes : DecodePack(fmt, d, size)
  \/ OnNewRtmpPack
  \/ \E v \in Viewers : \/ AddClientConnection(v) \/ GetHeaderDataBuffer(v)
                        \/ SendHeaderOnConnection(v)
  \/ Done

Spec == Init /\ [][Next]_vars

-----------------------------------------------------------------------------
(* Properties *)

Pack == [timestamp : Three, dataSize : Three, body : Nat]
FlvTag == [size : Three, stamp : Three, body : Nat]
SentTag == [tag : FlvTag, prev : Nat, n : Nat, time : Nat, late : BOOLEAN]

TypeOK ==
  /\ sent \in 0 .. Len(Types) /\ clock \in Nat
  /\ pack \in Pack
  /\ DOMAIN firsts \subseteq {"script", "video", "audio"}
  /\ \A type \in DOMAIN firsts : firsts[type] \in Pack
  /\ finish \in BOOLEAN /\ base \in 0 .. Stamps * Base - 1
  /\ header \in Seq([tag : FlvTag, prev : Nat])
  /\ viewer \in [Viewers -> {"new", "insert", "watching"}]
  /\ last \in [Viewers -> Nat] /\ out \in [Viewers -> Seq(SentTag)]

\* A player that skips from tag to tag by the sizes finds the tags, forwards and
\* backwards: each has as many bytes as it says, and after the first each says
\* how long the one before it is (DecodeHeader, Transform, AddFlvTag,
\* GetHeaderDataBuffer).
Chained(tags) ==
  \A i \in DOMAIN tags :
    /\ tags[i].tag.body = Number(tags[i].tag.size)
    /\ i > 1 => tags[i].prev = FLV_TAG_HEADER_LENGTH + tags[i - 1].tag.body

SizesAgree == Chained(header) /\ \A v \in Viewers : Chained(out[v])

\* Time in the tags of a viewer passes as it does at the broadcaster, whatever
\* header formats the messages have and whatever is in the byte that is not set,
\* from a message to the next one, until the time comes round after three bytes
\* (DecodeHeader, Transform, SetTimeStamp).  Messages that one event lost and
\* a header made between the two tags shift it.
TimePasses ==
  \A v \in Viewers : \A i \in 1 .. Len(out[v]) - 1 :
    LET a == out[v][i]
        b == out[v][i + 1]
    IN  b.n = a.n + 1 /\ a.late = b.late
          => (Number(b.tag.stamp) - Number(a.tag.stamp)) % Stamps = (b.time - a.time) % Stamps

=============================================================================
