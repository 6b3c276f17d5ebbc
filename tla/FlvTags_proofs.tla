--------------------------- MODULE FlvTags_proofs ---------------------------
(***************************************************************************)
(* Proofs about FlvTags, for bytes of any number of values, any messages   *)
(* and any viewers; and, at the end, about RtmpShakeHand, through which a  *)
(* broadcaster goes before its first message, for any number of pieces of  *)
(* data after it.                                                          *)
(***************************************************************************)
EXTENDS FlvTags, RtmpShakeHand, SequenceTheorems, TLAPS

\* Numbers of bytes, and bytes of numbers.
LEMMA BaseFacts ==
  /\ Base \in Nat /\ Base > 1 /\ Base * Base \in Nat /\ Base * Base > 1
  /\ Stamps \in Nat /\ Stamps > 1 /\ Stamps * Base \in Nat /\ Stamps * Base > 1
  <1>1. \A x, y \in Nat : x > 1 /\ y > 1 => x * y \in Nat /\ x * y > 1
    OBVIOUS
  <1>2. Base \in Nat /\ Base > 1
    BY BaseAssumption
  <1>3. Base * Base \in Nat /\ Base * Base > 1
    BY <1>1, <1>2, Zenon
  <1>4. Stamps \in Nat /\ Stamps > 1
    BY <1>1, <1>2, <1>3, Zenon DEF Stamps
  <1>5. Stamps * Base \in Nat /\ Stamps * Base > 1
    BY <1>1, <1>2, <1>4, Zenon
  <1>6. QED
    BY <1>2, <1>3, <1>4, <1>5

LEMMA Remainder ==
  ASSUME NEW n \in Nat, NEW b \in Nat, b > 1
  PROVE  n % b \in 0 .. b - 1 /\ n \div b \in Nat
  OBVIOUS

LEMMA NumberIsNat == ASSUME NEW bytes \in Three PROVE Number(bytes) \in Nat
  <1>1. \A x, y \in Nat : x * y \in Nat /\ x + y \in Nat
    OBVIOUS
  <1>2. bytes[1] \in Nat /\ bytes[2] \in Nat /\ bytes[3] \in Nat
    BY BaseAssumption DEF Three, Byte
  <1>3. bytes[1] * Base * Base \in Nat /\ bytes[2] * Base \in Nat
    BY <1>1, <1>2, BaseAssumption
  <1>4. QED
    BY <1>2, <1>3 DEF Number

LEMMA BigEndianIsThree == ASSUME NEW n \in Nat PROVE BigEndian(n) \in Three
  <1>1. n \div (Base * Base) \in Nat /\ n \div Base \in Nat
    BY BaseFacts, Remainder
  <1>2. /\ (n \div (Base * Base)) % Base \in Byte /\ (n \div Base) % Base \in Byte
        /\ n % Base \in Byte
    BY <1>1, BaseFacts, Remainder DEF Byte
  <1>3. QED
    BY <1>2 DEF BigEndian, Three

LEMMA TransformInRange ==
  ASSUME NEW p \in Pack, NEW from \in Nat, NEW top \in Byte
  PROVE  Transform(p, from, top) \in 0 .. Stamps * Base - 1
  <1>1. Number(p.timestamp) \in Nat
    BY NumberIsNat DEF Pack
  <1>2. top \in Nat
    BY BaseAssumption DEF Byte
  <1>3. top * Stamps \in Nat
    BY <1>2, BaseFacts
  <1>4. from + Number(p.timestamp) + top * Stamps \in Nat
    BY <1>1, <1>3
  <1>5. QED
    BY <1>4, BaseFacts, Remainder DEF Transform

\* A message with as many bytes as its header says.
Whole(p) == p \in Pack /\ p.body = Number(p.dataSize)

LEMMA TagOfWhole ==
  ASSUME NEW p, Whole(p), NEW stamp \in Nat
  PROVE  /\ Tag(p, stamp) \in FlvTag /\ Tag(p, stamp).body = Number(Tag(p, stamp).size)
         /\ GetCurrentTagSize(Tag(p, stamp)) = FLV_TAG_HEADER_LENGTH + Tag(p, stamp).body
         /\ GetCurrentTagSize(Tag(p, stamp)) \in Nat
  <1>1. p.dataSize \in Three /\ p.body \in Nat /\ p.body = Number(p.dataSize)
    BY DEF Whole, Pack
  <1>2. SetTimeStamp(stamp) \in Three
    BY BigEndianIsThree DEF SetTimeStamp
  <1>3. QED
    BY <1>1, <1>2 DEF Tag, FlvTag, GetCurrentTagSize, FLV_TAG_HEADER_LENGTH

LEMMA DecodedIsWhole ==
  ASSUME Whole(pack), NEW fmt \in 0 .. 3, NEW d \in Deltas, NEW size \in Sizes,
         Allowed(fmt, d, size)
  PROVE  Whole(DecodeHeader(fmt, d, size))
  <1>1. d \in Three /\ size \in Three /\ Number(size) \in Nat
    BY DeltasAssumption, SizesAssumption, NumberIsNat
  <1>2. pack.timestamp \in Three /\ pack.dataSize \in Three
    BY DEF Whole, Pack
  <1>3. fmt \in {2, 3} => size = pack.dataSize
    BY DEF Allowed
  <1>4. fmt \in {0, 1} \/ fmt \in {2, 3}
    OBVIOUS
  <1>5. QED
    BY <1>1, <1>2, <1>3, <1>4 DEF DecodeHeader, Whole, Pack

\* A tag behind the others.
LEMMA ChainedAppend ==
  ASSUME NEW T, NEW tags \in Seq(T), NEW t \in T, Chained(tags),
         t.tag.body = Number(t.tag.size),
         tags # <<>> => t.prev = FLV_TAG_HEADER_LENGTH + tags[Len(tags)].tag.body
  PROVE  Chained(Append(tags, t))
  <1> DEFINE all == Append(tags, t)
  <1>1. /\ all \in Seq(T) /\ Len(all) = Len(tags) + 1 /\ Len(tags) \in Nat
        /\ \A i \in 1 .. Len(tags) : all[i] = tags[i]
        /\ all[Len(tags) + 1] = t
    BY AppendProperties, LenProperties
  <1> HIDE DEF all
  <1>2. DOMAIN all = 1 .. Len(tags) + 1 /\ DOMAIN tags = 1 .. Len(tags)
    BY <1>1, LenProperties
  <1>3. ASSUME NEW i \in DOMAIN all
        PROVE  /\ all[i].tag.body = Number(all[i].tag.size)
               /\ i > 1 => all[i].prev = FLV_TAG_HEADER_LENGTH + all[i - 1].tag.body
    <2>1. CASE i \in 1 .. Len(tags)
      <3>1. all[i] = tags[i] /\ (i > 1 => i - 1 \in 1 .. Len(tags))
        BY <1>1, <2>1
      <3>2. i > 1 => all[i - 1] = tags[i - 1]
        BY <1>1, <3>1
      <3>3. QED
        BY <1>2, <2>1, <3>1, <3>2 DEF Chained
    <2>2. CASE i = Len(tags) + 1
      <3>1. all[i] = t
        BY <1>1, <2>2
      <3>2. i > 1 => /\ i - 1 = Len(tags) /\ Len(tags) \in 1 .. Len(tags) /\ tags # <<>>
        BY <1>1, <2>2
      <3>3. i > 1 => all[i - 1] = tags[Len(tags)]
        BY <1>1, <3>2
      <3>4. QED
        BY <3>1, <3>2, <3>3
    <2>3. QED
      BY <1>1, <1>2, <2>1, <2>2
  <1>4. QED
    BY <1>3 DEF Chained, all

-----------------------------------------------------------------------------

\* The inductive invariant: messages are whole, and the size a viewer remembers
\* is the one of the tag it was sent last.
Remembers(v) == out[v] # <<>> => last[v] = FLV_TAG_HEADER_LENGTH + out[v][Len(out[v])].tag.body

TagsInv ==
  /\ TypeOK /\ SizesAgree
  /\ Whole(pack) /\ \A type \in DOMAIN firsts : Whole(firsts[type])
  /\ \A v \in Viewers : Remembers(v)

LEMMA InitStep == Init => TagsInv
  <1> SUFFICES ASSUME Init PROVE TagsInv
    OBVIOUS
  <1>1. <<0, 0, 0>> \in Three
    BY BaseAssumption DEF Three, Byte
  <1>2. Number(<<0, 0, 0>>) = 0
    BY BaseFacts DEF Number
  <1>3. Whole(pack)
    BY <1>1, <1>2 DEF Init, Whole, Pack
  <1>4. DOMAIN firsts = {} /\ Len(Types) \in Nat
    BY TypesAssumption DEF Init
  <1>5. 0 \in 0 .. Stamps * Base - 1
    BY BaseFacts
  <1>6. TypeOK
    <2>1. sent \in 0 .. Len(Types) /\ clock \in Nat /\ pack \in Pack
      BY <1>3, <1>4 DEF Init, Whole
    <2>2. finish \in BOOLEAN /\ base \in 0 .. Stamps * Base - 1
      BY <1>5 DEF Init
    <2>3. <<>> \in Seq([tag : FlvTag, prev : Nat]) /\ <<>> \in Seq(SentTag)
      OBVIOUS
    <2>4. /\ header \in Seq([tag : FlvTag, prev : Nat])
          /\ viewer \in [Viewers -> {"new", "insert", "watching"}]
          /\ last \in [Viewers -> Nat] /\ out \in [Viewers -> Seq(SentTag)]
      BY <2>3 DEF Init
    <2>5. QED
      BY <1>4, <2>1, <2>2, <2>4 DEF TypeOK
  <1>7. SizesAgree /\ \A v \in Viewers : Remembers(v)
    BY DEF Init, SizesAgree, Chained, Remembers
  <1>8. QED
    BY <1>3, <1>4, <1>6, <1>7 DEF TagsInv

LEMMA DecodePackStep ==
  ASSUME TagsInv, NEW fmt \in 0 .. 3, NEW d \in Deltas, NEW size \in Sizes,
         DecodePack(fmt, d, size)
  PROVE  TagsInv'
  <1>1. TypeOK /\ Whole(pack) /\ \A type \in DOMAIN firsts : Whole(firsts[type])
    BY DEF TagsInv
  <1>2. Whole(pack')
    BY <1>1, DecodedIsWhole DEF DecodePack
  <1>3. /\ sent' \in 0 .. Len(Types) /\ sent' \in 1 .. Len(Types)
    BY <1>1, TypesAssumption DEF TypeOK, DecodePack
  <1>4. Types[sent'] \in {"script", "video", "audio"}
    BY <1>3, TypesAssumption, ElementOfSeq
  <1>5. clock' \in Nat
    BY <1>1, DeltasAssumption, NumberIsNat DEF TypeOK, DecodePack
  <1>6. /\ DOMAIN firsts' \subseteq {"script", "video", "audio"}
        /\ \A type \in DOMAIN firsts' : Whole(firsts'[type])
    <2>1. CASE HasFirsts
      BY <1>1, <2>1 DEF DecodePack, TypeOK
    <2>2. CASE ~HasFirsts
      <3>1. firsts' = [type \in DOMAIN firsts \cup {Types[sent']} |->
                         IF type = Types[sent'] THEN pack' ELSE firsts[type]]
        BY <2>2 DEF DecodePack
      <3>2. QED
        BY <1>1, <1>2, <1>4, <3>1 DEF TypeOK
    <2>3. QED
      BY <2>1, <2>2
  <1>7. finish' \in BOOLEAN
    BY DEF DecodePack, HasFirsts
  <1>8. UNCHANGED <<base, header, viewer, last, out>>
    BY DEF DecodePack
  <1>9. TypeOK'
    BY <1>1, <1>2, <1>3, <1>5, <1>6, <1>7, <1>8 DEF TypeOK, Whole
  <1>10. SizesAgree' /\ \A v \in Viewers : Remembers(v)'
    BY <1>8 DEF TagsInv, SizesAgree, Remembers
  <1>11. QED
    BY <1>2, <1>6, <1>9, <1>10 DEF TagsInv

\* A viewer is sent one tag more.
LEMMA SentOneMore ==
  ASSUME TagsInv, NEW v \in Viewers, NEW tag \in FlvTag, tag.body = Number(tag.size),
         GetCurrentTagSize(tag) = FLV_TAG_HEADER_LENGTH + tag.body,
         GetCurrentTagSize(tag) \in Nat
  PROVE  /\ AddFlvTag(v, tag).sent \in Seq(SentTag) /\ AddFlvTag(v, tag).size \in Nat
         /\ Chained(AddFlvTag(v, tag).sent)
         /\ AddFlvTag(v, tag).sent # <<>> =>
              AddFlvTag(v, tag).size =
                FLV_TAG_HEADER_LENGTH + AddFlvTag(v, tag).sent[Len(AddFlvTag(v, tag).sent)].tag.body
  <1> DEFINE t == [tag |-> tag, prev |-> last[v], n |-> sent, time |-> clock,
                   late |-> header # <<>>]
  <1>1. t \in SentTag /\ out[v] \in Seq(SentTag)
    <2>1. sent \in Nat /\ clock \in Nat /\ last[v] \in Nat /\ out[v] \in Seq(SentTag)
      BY TypesAssumption, LenProperties DEF TagsInv, TypeOK
    <2>2. QED
      BY <2>1 DEF SentTag
  <1>2. t.tag = tag /\ t.prev = last[v]
    OBVIOUS
  <1>3. AddFlvTag(v, tag).sent = Append(out[v], t) /\ AddFlvTag(v, tag).size = GetCurrentTagSize(tag)
    BY DEF AddFlvTag
  <1> HIDE DEF t
  <1>4. Chained(out[v]) /\ Remembers(v)
    BY DEF TagsInv, SizesAgree
  <1>5. out[v] # <<>> => t.prev = FLV_TAG_HEADER_LENGTH + out[v][Len(out[v])].tag.body
    BY <1>2, <1>4 DEF Remembers
  <1>6. t.tag.body = Number(t.tag.size)
    BY <1>2
  <1>7. Chained(Append(out[v], t))
    BY <1>1, <1>4, <1>5, <1>6, ChainedAppend
  <1>8. /\ Append(out[v], t) \in Seq(SentTag)
        /\ Append(out[v], t)[Len(Append(out[v], t))] = t
    BY <1>1, AppendProperties, LenProperties
  <1>9. QED
    BY <1>2, <1>3, <1>7, <1>8

LEMMA OnNewRtmpPackStep ==
  ASSUME TagsInv, OnNewRtmpPack
  PROVE  TagsInv'
  <1> DEFINE tag == Tag(pack, base')
             Members == {v \in Viewers : viewer[v] # "new"}
  <1>1. TypeOK /\ Whole(pack) /\ pack \in Pack /\ base \in Nat
    BY BaseFacts DEF TagsInv, TypeOK
  <1>2. base' \in 0 .. Stamps * Base - 1
    BY <1>1, TransformInRange DEF OnNewRtmpPack
  <1>3. base' \in Nat
    BY <1>2, BaseFacts
  <1>4. /\ tag \in FlvTag /\ tag.body = Number(tag.size)
        /\ GetCurrentTagSize(tag) = FLV_TAG_HEADER_LENGTH + tag.body
        /\ GetCurrentTagSize(tag) \in Nat
    BY <1>1, <1>3, TagOfWhole
  <1>5. /\ out' = [v \in Viewers |-> IF v \in Members THEN AddFlvTag(v, tag).sent ELSE out[v]]
        /\ last' = [v \in Viewers |-> IF v \in Members THEN AddFlvTag(v, tag).size ELSE last[v]]
        /\ finish' = FALSE /\ UNCHANGED <<sent, clock, pack, firsts, header, viewer>>
    BY DEF OnNewRtmpPack
  <1> HIDE DEF tag, Members
  <1>6. ASSUME NEW v \in Viewers
        PROVE  out'[v] \in Seq(SentTag) /\ last'[v] \in Nat /\ Chained(out'[v]) /\ Remembers(v)'
    <2>1. CASE v \in Members
      <3>1. out'[v] = AddFlvTag(v, tag).sent /\ last'[v] = AddFlvTag(v, tag).size
        BY <1>5, <2>1
      <3>2. QED
        BY <1>4, <3>1, SentOneMore DEF Remembers
    <2>2. CASE v \notin Members
      <3>1. out'[v] = out[v] /\ last'[v] = last[v]
        BY <1>5, <2>2
      <3>2. QED
        BY <1>1, <3>1 DEF TagsInv, TypeOK, SizesAgree, Remembers
    <2>3. QED
      BY <2>1, <2>2
  <1>7. out' \in [Viewers -> Seq(SentTag)] /\ last' \in [Viewers -> Nat]
    BY <1>5, <1>6
  <1>8. TypeOK'
    BY <1>1, <1>2, <1>5, <1>7 DEF TypeOK
  <1>9. SizesAgree'
    BY <1>5, <1>6 DEF TagsInv, SizesAgree
  <1>10. QED
    BY <1>1, <1>5, <1>6, <1>8, <1>9 DEF TagsInv

\* The tags of a header, made when the script and the video are there.
LEMMA HeaderIsChained ==
  ASSUME TagsInv, "script" \in DOMAIN firsts, "video" \in DOMAIN firsts,
         NEW s \in Nat, NEW v \in Nat, NEW a \in Nat
  PROVE  /\ HeaderTags(<<s, v, a>>) \in Seq([tag : FlvTag, prev : Nat])
         /\ Chained(HeaderTags(<<s, v, a>>))
  <1> DEFINE HeaderTag == [tag : FlvTag, prev : Nat]
             script == Tag(firsts["script"], s)
             video == Tag(firsts["video"], v)
             audio == Tag(firsts["audio"], a)
             t1 == [tag |-> script, prev |-> 0]
             t2 == [tag |-> video, prev |-> GetCurrentTagSize(script)]
             t3 == [tag |-> audio, prev |-> GetCurrentTagSize(video)]
  <1>1. /\ script \in FlvTag /\ script.body = Number(script.size)
        /\ GetCurrentTagSize(script) = FLV_TAG_HEADER_LENGTH + script.body
        /\ GetCurrentTagSize(script) \in Nat
    BY TagOfWhole DEF TagsInv
  <1>2. /\ video \in FlvTag /\ video.body = Number(video.size)
        /\ GetCurrentTagSize(video) = FLV_TAG_HEADER_LENGTH + video.body
        /\ GetCurrentTagSize(video) \in Nat
    BY TagOfWhole DEF TagsInv
  <1>3. HasFirsts => audio \in FlvTag /\ audio.body = Number(audio.size)
    BY TagOfWhole DEF TagsInv, HasFirsts
  <1>4. HeaderTags(<<s, v, a>>) = <<t1, t2>> \o IF HasFirsts THEN <<t3>> ELSE <<>>
    BY DEF HeaderTags
  <1> HIDE DEF script, video, audio
  <1>5. t1 \in HeaderTag /\ t1.tag = script
    BY <1>1
  <1>6. t2 \in HeaderTag /\ t2.tag = video /\ t2.prev = FLV_TAG_HEADER_LENGTH + script.body
    BY <1>1, <1>2
  <1>7. HasFirsts => /\ t3 \in HeaderTag /\ t3.tag = audio
                     /\ t3.prev = FLV_TAG_HEADER_LENGTH + video.body
    BY <1>2, <1>3
  <1> HIDE DEF t1, t2, t3, HeaderTag
  <1>8. <<t1, t2>> \in Seq(HeaderTag) /\ Chained(<<t1, t2>>)
    <2>1. <<t1, t2>> \in Seq(HeaderTag) /\ DOMAIN <<t1, t2>> = {1, 2}
          /\ <<t1, t2>>[1] = t1 /\ <<t1, t2>>[2] = t2
      BY <1>5, <1>6
    <2>2. QED
      BY <1>1, <1>2, <1>5, <1>6, <2>1 DEF Chained
  <1>9. CASE ~HasFirsts
    <2>1. HeaderTags(<<s, v, a>>) = <<t1, t2>>
      BY <1>4, <1>8, <1>9, ConcatEmptySeq
    <2>2. QED
      BY <1>8, <2>1 DEF HeaderTag
  <1>10. CASE HasFirsts
    <2>1. HeaderTags(<<s, v, a>>) = Append(<<t1, t2>>, t3)
      BY <1>4, <1>10
    <2>2. <<t1, t2>>[Len(<<t1, t2>>)] = t2
      OBVIOUS
    <2>3. Chained(Append(<<t1, t2>>, t3))
      BY <1>3, <1>6, <1>7, <1>8, <1>10, <2>2, ChainedAppend
    <2>4. Append(<<t1, t2>>, t3) \in Seq(HeaderTag)
      BY <1>7, <1>8, <1>10, AppendProperties
    <2>5. QED
      BY <2>1, <2>3, <2>4 DEF HeaderTag
  <1>11. QED
    BY <1>9, <1>10

LEMMA GetHeaderDataBufferStep ==
  ASSUME TagsInv, NEW v \in Viewers, GetHeaderDataBuffer(v),
         {"script", "video"} \subseteq DOMAIN firsts
  PROVE  TagsInv'
  <1>1. PICK top \in Byte :
          LET script == Transform(firsts["script"], base, top)
              video == Transform(firsts["video"], script, top)
              audio == IF HasFirsts THEN Transform(firsts["audio"], video, top) ELSE video
          IN  header' = HeaderTags(<<script, video, audio>>) /\ base' = audio
    BY DEF GetHeaderDataBuffer
  <1> DEFINE script == Transform(firsts["script"], base, top)
             video == Transform(firsts["video"], script, top)
             audio == IF HasFirsts THEN Transform(firsts["audio"], video, top) ELSE video
  <1>2. /\ TypeOK /\ base \in Nat /\ firsts["script"] \in Pack /\ firsts["video"] \in Pack
        /\ HasFirsts => firsts["audio"] \in Pack
    BY BaseFacts DEF TagsInv, TypeOK, HasFirsts
  <1>3. script \in 0 .. Stamps * Base - 1 /\ script \in Nat
    BY <1>2, BaseFacts, TransformInRange
  <1> HIDE DEF script
  <1>4. video \in 0 .. Stamps * Base - 1 /\ video \in Nat
    BY <1>2, <1>3, BaseFacts, TransformInRange
  <1> HIDE DEF video
  <1>5. audio \in 0 .. Stamps * Base - 1 /\ audio \in Nat
    BY <1>2, <1>4, BaseFacts, TransformInRange
  <1>6. header' = HeaderTags(<<script, video, audio>>) /\ base' = audio
    BY <1>1 DEF script, video
  <1> HIDE DEF audio
  <1>7. header' \in Seq([tag : FlvTag, prev : Nat]) /\ Chained(header')
    BY <1>3, <1>4, <1>5, <1>6, HeaderIsChained
  <1>8. UNCHANGED <<sent, clock, pack, firsts, finish, viewer, last, out>>
    BY DEF GetHeaderDataBuffer
  <1>9. TypeOK'
    BY <1>2, <1>5, <1>6, <1>7, <1>8 DEF TypeOK
  <1>10. SizesAgree' /\ \A u \in Viewers : Remembers(u)'
    BY <1>7, <1>8 DEF TagsInv, SizesAgree, Remembers
  <1>11. QED
    BY <1>8, <1>9, <1>10 DEF TagsInv

\* A viewer joins, or has been sent the header: only where it is changes.
LEMMA ViewerStep ==
  ASSUME TagsInv, viewer' \in [Viewers -> {"new", "insert", "watching"}],
         UNCHANGED <<pushVars, header, last, out>>
  PROVE  TagsInv'
  BY DEF TagsInv, TypeOK, SizesAgree, Remembers, pushVars

\* A viewer that has joined found the script and the video, which stay.
JoinedWithFirsts ==
  \A v \in Viewers : viewer[v] # "new" => {"script", "video"} \subseteq DOMAIN firsts

LEMMA JoinedStep ==
  ASSUME TypeOK, JoinedWithFirsts, [Next]_vars
  PROVE  JoinedWithFirsts'
  <1>1. DOMAIN firsts \subseteq DOMAIN firsts'
    <2>1. ASSUME NEW fmt, NEW d, NEW size, DecodePack(fmt, d, size)
          PROVE  DOMAIN firsts \subseteq DOMAIN firsts'
      BY <2>1 DEF DecodePack
    <2>2. QED
      BY <2>1 DEF Next, vars, pushVars, OnNewRtmpPack, AddClientConnection,
                  GetHeaderDataBuffer, SendHeaderOnConnection, Done
  <1>2. ASSUME NEW v \in Viewers, viewer'[v] # "new"
        PROVE  viewer[v] # "new" \/ {"script", "video"} \subseteq DOMAIN firsts
    <2>1. ASSUME NEW u \in Viewers, AddClientConnection(u)
          PROVE  viewer[v] # "new" \/ {"script", "video"} \subseteq DOMAIN firsts
      BY <2>1 DEF AddClientConnection
    <2>2. ASSUME NEW u \in Viewers, SendHeaderOnConnection(u)
          PROVE  viewer[v] # "new" \/ {"script", "video"} \subseteq DOMAIN firsts
      <3>1. CASE u = v
        BY <2>2, <3>1 DEF SendHeaderOnConnection
      <3>2. CASE u # v
        BY <1>2, <2>2, <3>2 DEF SendHeaderOnConnection, TypeOK
      <3>3. QED
        BY <3>1, <3>2
    <2>3. CASE UNCHANGED viewer
      BY <1>2, <2>3
    <2>4. QED
      BY <2>1, <2>2, <2>3 DEF Next, vars, pushVars, DecodePack, OnNewRtmpPack,
                              GetHeaderDataBuffer, Done
  <1>3. QED
    BY <1>1, <1>2 DEF JoinedWithFirsts

LEMMA NextStep == TagsInv /\ JoinedWithFirsts /\ [Next]_vars => (TagsInv /\ JoinedWithFirsts)'
  <1> SUFFICES ASSUME TagsInv, JoinedWithFirsts, [Next]_vars
               PROVE  (TagsInv /\ JoinedWithFirsts)'
    OBVIOUS
  <1>1. JoinedWithFirsts'
    BY JoinedStep DEF TagsInv
  <1>2. UNCHANGED vars => TagsInv'
    BY ViewerStep DEF vars, TagsInv, TypeOK
  <1>3. ASSUME NEW fmt \in 0 .. 3, NEW d \in Deltas, NEW size \in Sizes,
               DecodePack(fmt, d, size)
        PROVE  TagsInv'
    BY <1>3, DecodePackStep
  <1>4. OnNewRtmpPack => TagsInv'
    BY OnNewRtmpPackStep
  <1>5. ASSUME NEW v \in Viewers, AddClientConnection(v) \/ SendHeaderOnConnection(v)
        PROVE  TagsInv'
    <2>1. viewer' \in [Viewers -> {"new", "insert", "watching"}]
      BY <1>5 DEF AddClientConnection, SendHeaderOnConnection, TagsInv, TypeOK
    <2>2. UNCHANGED <<pushVars, header, last, out>>
      BY <1>5 DEF AddClientConnection, SendHeaderOnConnection
    <2>3. QED
      BY <2>1, <2>2, ViewerStep
  <1>6. ASSUME NEW v \in Viewers, GetHeaderDataBuffer(v) PROVE TagsInv'
    <2>1. {"script", "video"} \subseteq DOMAIN firsts
      BY <1>6 DEF GetHeaderDataBuffer, JoinedWithFirsts
    <2>2. QED
      BY <1>6, <2>1, GetHeaderDataBufferStep
  <1>7. TagsInv'
    BY <1>2, <1>3, <1>4, <1>5, <1>6 DEF Next, Done
  <1>8. QED
    BY <1>1, <1>7

LEMMA Inductive == Spec => [](TagsInv /\ JoinedWithFirsts)
  <1>1. Init => JoinedWithFirsts
    BY DEF Init, JoinedWithFirsts
  <1>2. QED
    BY <1>1, InitStep, NextStep, PTL DEF Spec

\* Times and sizes in tags have three bytes, base_timestamp_ four (FlvTag,
\* Rtmp2FlvCodec).
THEOREM TypeCorrect == Spec => []TypeOK
  <1>1. TagsInv => TypeOK
    BY DEF TagsInv
  <1>2. QED
    BY <1>1, Inductive, PTL

\* A player finds tag after tag by their sizes, for messages of every type,
\* size and header format (DecodeHeader, Transform, AddFlvTag,
\* GetHeaderDataBuffer).
THEOREM SizesCorrect == Spec => []SizesAgree
  <1>1. TagsInv => SizesAgree
    BY DEF TagsInv
  <1>2. QED
    BY <1>1, Inductive, PTL

-----------------------------------------------------------------------------
(* The times in the tags: arithmetic of numbers that come round *)

\* A product with a positive number is at least the other one.
LEMMA AtLeast ==
  ASSUME NEW s \in Nat, NEW k \in Int, k >= 1
  PROVE  s * k \in Int /\ s * k >= s
  OBVIOUS

\* A number is so many times s and a remainder (used for every % below).
LEMMA DivMod ==
  ASSUME NEW n \in Int, NEW s \in Nat, s > 1
  PROVE  n % s \in 0 .. s - 1 /\ n \div s \in Int /\ n = s * (n \div s) + (n % s)
  <1>1. n % s \in 0 .. s - 1
    OBVIOUS
  <1>2. n \div s \in Int
    OBVIOUS
  <1>3. n = s * (n \div s) + (n % s)
    OBVIOUS
  <1>4. QED
    BY <1>1, <1>2, <1>3

\* It is so in one way only.
LEMMA OneQuotient ==
  ASSUME NEW s \in Nat, s > 1, NEW p \in Int, NEW q \in Int,
         NEW r \in 0 .. s - 1, NEW t \in 0 .. s - 1, s * p + r = s * q + t
  PROVE  r = t /\ p = q
  <1>1. \A k \in Int : s * k \in Int
    OBVIOUS
  <1>2. s * (p - q) = s * p - s * q /\ s * (q - p) = s * q - s * p
    OBVIOUS
  <1>3. ~(p - q >= 1)
    <2>1. p - q >= 1 => s * (p - q) >= s
      BY AtLeast
    <2>2. QED
      BY <1>1, <1>2, <2>1
  <1>4. ~(q - p >= 1)
    <2>1. q - p >= 1 => s * (q - p) >= s
      BY AtLeast
    <2>2. QED
      BY <1>1, <1>2, <2>1
  <1>5. p = q
    BY <1>3, <1>4
  <1>6. QED
    BY <1>1, <1>5

\* So whoever writes a number that way has its remainder and quotient.
LEMMA ModIs ==
  ASSUME NEW n \in Int, NEW s \in Nat, s > 1, NEW q \in Int, NEW r \in 0 .. s - 1,
         n = s * q + r
  PROVE  n % s = r /\ n \div s = q
  BY DivMod, OneQuotient

\* Products of integers.
LEMMA Times ==
  ASSUME NEW x \in Int, NEW y \in Int
  PROVE  x * y \in Int /\ x * y = y * x
  OBVIOUS

LEMMA Distribute ==
  ASSUME NEW x \in Int, NEW y \in Int, NEW z \in Int
  PROVE  /\ x * (y + z) = x * y + x * z
         /\ x * (y - z) = x * y - x * z
         /\ (x * y) * z = x * (y * z)
  OBVIOUS

\* Every number is so many rounds and a remainder.
LEMMA Quotient ==
  ASSUME NEW n \in Int, NEW s \in Nat, s > 1
  PROVE  \E q \in Int : \E r \in 0 .. s - 1 : n = s * q + r /\ n % s = r /\ n \div s = q
  BY DivMod

\* A whole number of rounds makes no difference.
LEMMA Rounds ==
  ASSUME NEW n \in Int, NEW s \in Nat, s > 1, NEW k \in Int
  PROVE  (n + s * k) % s = n % s
  <1>1. PICK q \in Int : \E r \in 0 .. s - 1 : n = s * q + r /\ n % s = r
    BY Quotient
  <1>2. PICK r \in 0 .. s - 1 : n = s * q + r /\ n % s = r
    BY <1>1
  <1>3. s * (q + k) = s * q + s * k
    BY Distribute
  <1>4. s * q \in Int /\ s * k \in Int
    BY Times
  <1>5. n + s * k \in Int /\ q + k \in Int /\ n + s * k = s * (q + k) + r
    BY <1>2, <1>3, <1>4
  <1>6. QED
    BY <1>2, <1>5, ModIs

\* The remainder of a remainder by more rounds.
LEMMA ModOfMod ==
  ASSUME NEW n \in Int, NEW s \in Nat, s > 1, NEW b \in Nat, b > 1
  PROVE  (n % (s * b)) % s = n % s
  <1>1. s * b \in Nat /\ s * b > 1
    OBVIOUS
  <1>2. PICK q \in Int : \E r \in 0 .. (s * b) - 1 : n = (s * b) * q + r /\ n % (s * b) = r
    BY <1>1, Quotient
  <1>3. PICK r \in 0 .. (s * b) - 1 : n = (s * b) * q + r /\ n % (s * b) = r
    BY <1>2
  <1>4. (s * b) * q = s * (b * q) /\ b * q \in Int /\ r \in Int
    BY Distribute, Times
  <1>5. s * (b * q) \in Int
    BY <1>4, Times
  <1>6. n = r + s * (b * q)
    BY <1>3, <1>4, <1>5
  <1>7. n % s = r % s
    BY <1>4, <1>6, Rounds
  <1>8. QED
    BY <1>3, <1>7

\* The difference of two remainders.
LEMMA ModDifference ==
  ASSUME NEW n \in Int, NEW m \in Int, NEW s \in Nat, s > 1
  PROVE  ((n % s) - (m % s)) % s = (n - m) % s
  <1>1. PICK q \in Int : \E r \in 0 .. s - 1 : n = s * q + r /\ n % s = r
    BY Quotient
  <1>2. PICK r \in 0 .. s - 1 : n = s * q + r /\ n % s = r
    BY <1>1
  <1>3. PICK p \in Int : \E t \in 0 .. s - 1 : m = s * p + t /\ m % s = t
    BY Quotient
  <1>4. PICK t \in 0 .. s - 1 : m = s * p + t /\ m % s = t
    BY <1>3
  <1>5. s * (q - p) = s * q - s * p /\ s * q \in Int /\ s * p \in Int
    BY Distribute, Times
  <1>6. q - p \in Int /\ r - t \in Int /\ n - m = (r - t) + s * (q - p)
    BY <1>2, <1>4, <1>5
  <1>7. ((r - t) + s * (q - p)) % s = (r - t) % s
    BY <1>6, Rounds, Zenon
  <1>8. QED
    BY <1>2, <1>4, <1>6, <1>7, Zenon

\* A digit more.
LEMMA TwoDigits ==
  ASSUME NEW b \in Nat, b > 1, NEW c \in Nat, c > 1,
         NEW x \in 0 .. b - 1, NEW y \in 0 .. c - 1
  PROVE  c * x + y \in 0 .. (b * c) - 1
  <1>1. c * x \in Nat /\ b * c = c * b /\ c * b \in Nat
    OBVIOUS
  <1>2. c * (b - x) >= c
    <2>1. b - x \in Int /\ b - x >= 1
      OBVIOUS
    <2>2. QED
      BY <2>1, AtLeast
  <1>3. c * (b - x) = c * b - c * x
    BY Distribute
  <1>4. QED
    BY <1>1, <1>2, <1>3

\* The number of the lower three bytes of n.
LEMMA NumberOfBigEndian ==
  ASSUME NEW n \in Nat
  PROVE  Number(BigEndian(n)) = n % Stamps
  <1> DEFINE b == Base
             c == Base * Base
  <1>1. b \in Nat /\ b > 1 /\ c \in Nat /\ c > 1 /\ c = b * b
    BY BaseFacts
  <1> HIDE DEF b
  <1>2. PICK q \in Int : \E r \in 0 .. b - 1 : n = b * q + r /\ n % b = r /\ n \div b = q
    BY <1>1, Quotient
  <1>3. PICK r \in 0 .. b - 1 : n = b * q + r /\ n % b = r /\ n \div b = q
    BY <1>2
  <1>4. PICK q2 \in Int : \E r2 \in 0 .. b - 1 : q = b * q2 + r2 /\ q % b = r2 /\ q \div b = q2
    BY <1>1, Quotient
  <1>5. PICK r2 \in 0 .. b - 1 : q = b * q2 + r2 /\ q % b = r2 /\ q \div b = q2
    BY <1>4
  <1>6. PICK q3 \in Int : \E r3 \in 0 .. b - 1 : q2 = b * q3 + r3 /\ q2 % b = r3 /\ q2 \div b = q3
    BY <1>1, Quotient
  <1>7. PICK r3 \in 0 .. b - 1 : q2 = b * q3 + r3 /\ q2 % b = r3 /\ q2 \div b = q3
    BY <1>6
  <1> DEFINE y == b * r2 + r
  <1>8. y \in 0 .. (b * b) - 1
    BY <1>1, TwoDigits
  <1>9. n = (b * b) * q2 + y
    <2>1. b * (b * q2 + r2) = b * (b * q2) + b * r2 /\ b * (b * q2) = (b * b) * q2
      BY <1>1
    <2>2. b * (b * q2) \in Int /\ b * r2 \in Int
      BY <1>1
    <2>3. QED
      BY <1>3, <1>5, <2>1, <2>2
  <1> HIDE DEF y
  <1>10. n \div c = q2
    BY <1>1, <1>8, <1>9, ModIs
  <1>11. c * r3 + y \in 0 .. (b * c) - 1
    BY <1>1, <1>8, TwoDigits
  <1>12. b * c \in Nat /\ b * c > 1 /\ Stamps = b * c
    BY <1>1, BaseFacts DEF Stamps, b
  <1>13. n = (b * c) * q3 + (c * r3 + y)
    <2> HIDE DEF c
    <2>1. c * (b * q3 + r3) = (b * c) * q3 + c * r3
      BY <1>1
    <2>2. (b * c) * q3 \in Int /\ c * r3 \in Int /\ y \in Int
      BY <1>1, <1>8
    <2>3. n = c * q2 + y
      BY <1>9 DEF c, b
    <2>4. QED
      BY <1>7, <2>1, <2>2, <2>3
  <1>14. n % Stamps = c * r3 + y
    BY <1>11, <1>12, <1>13, ModIs
  <1>15. Number(BigEndian(n)) = r3 * b * b + r2 * b + r
    BY <1>3, <1>5, <1>7, <1>10 DEF Number, BigEndian, b
  <1>16. r3 * b * b = c * r3 /\ r2 * b = b * r2
    BY <1>1
  <1>17. c * r3 \in Int /\ b * r2 \in Int
    BY <1>1
  <1>18. QED
    BY <1>14, <1>15, <1>16, <1>17 DEF y

\* The lower three bytes of base_timestamp_ advance by the time of the message,
\* whatever is in its top byte (Transform, SetTimeStamp).
LEMMA TransformAdvances ==
  ASSUME NEW p \in Pack, NEW from \in Nat, NEW top \in Byte
  PROVE  Transform(p, from, top) % Stamps = (from + Number(p.timestamp)) % Stamps
  <1>1. Number(p.timestamp) \in Nat /\ top \in Nat
    BY NumberIsNat, BaseAssumption DEF Pack, Byte
  <1> DEFINE n == from + Number(p.timestamp)
  <1>2. n \in Int /\ top \in Int
    BY <1>1
  <1> HIDE DEF n
  <1>3. Stamps * top = top * Stamps /\ Stamps * top \in Int /\ n + Stamps * top \in Int
    BY <1>2, BaseFacts, Times
  <1>4. ((n + Stamps * top) % (Stamps * Base)) % Stamps = (n + Stamps * top) % Stamps
    BY <1>3, BaseFacts, ModOfMod, Zenon
  <1>5. (n + Stamps * top) % Stamps = n % Stamps
    BY <1>2, BaseFacts, Rounds, Zenon
  <1>6. Transform(p, from, top) = (n + Stamps * top) % (Stamps * Base)
    BY <1>3 DEF Transform, n
  <1>7. QED
    BY <1>4, <1>5, <1>6 DEF n

\* What is known of the last tag that a viewer was sent: if nothing was lost
\* and no header was made since, it has the time base_timestamp_ has reached.
LastTag(v) == out[v][Len(out[v])]
Latest(v) == /\ LastTag(v).late = (header # <<>>)
             /\ LastTag(v).n = IF finish THEN sent - 1 ELSE sent
TimeOf(v) ==
  out[v] # <<>> =>
    /\ viewer[v] # "new"
    /\ LastTag(v).n <= sent /\ (finish => LastTag(v).n < sent)
    /\ LastTag(v).late => header # <<>>
    /\ Latest(v) => /\ Number(LastTag(v).tag.stamp) = base % Stamps
                    /\ LastTag(v).time = IF finish THEN clock - Number(pack.timestamp) ELSE clock

TimeInv == TimePasses /\ \A v \in Viewers : TimeOf(v)

\* The last tag has the type of one.
LEMMA LastTagType ==
  ASSUME TypeOK, NEW v \in Viewers, out[v] # <<>>
  PROVE  /\ LastTag(v) \in SentTag /\ LastTag(v).n \in Nat /\ LastTag(v).time \in Nat
         /\ LastTag(v).late \in BOOLEAN /\ sent \in Nat /\ clock \in Nat
  <1>1. out[v] \in Seq(SentTag)
    BY DEF TypeOK
  <1>2. Len(out[v]) \in 1 .. Len(out[v])
    BY <1>1
  <1>3. LastTag(v) \in SentTag
    BY <1>1, <1>2 DEF LastTag
  <1>4. sent \in Nat /\ clock \in Nat
    BY TypesAssumption DEF TypeOK
  <1>5. QED
    BY <1>3, <1>4 DEF SentTag

\* The next message is complete.
LEMMA DecodePackTime ==
  ASSUME TagsInv, TimeInv, NEW fmt \in 0 .. 3, NEW d \in Deltas, NEW size \in Sizes,
         DecodePack(fmt, d, size)
  PROVE  TimeInv'
  <1>1. TypeOK /\ sent' = sent + 1 /\ UNCHANGED <<base, header, viewer, last, out>>
    BY DEF DecodePack, TagsInv
  <1>2. clock' = clock + Number(pack'.timestamp) /\ Number(pack'.timestamp) \in Nat
    <2>1. pack'.timestamp = d /\ clock' = clock + Number(d)
      BY DEF DecodePack, DecodeHeader, Allowed
    <2>2. QED
      BY <2>1, NumberIsNat, DeltasAssumption
  <1>3. TimePasses'
    BY <1>1 DEF TimeInv, TimePasses
  <1>4. ASSUME NEW v \in Viewers PROVE TimeOf(v)'
    <2> SUFFICES ASSUME out[v] # <<>>
                 PROVE  /\ viewer[v] # "new"
                        /\ LastTag(v).n <= sent' /\ (finish' => LastTag(v).n < sent')
                        /\ LastTag(v).late => header # <<>>
                        /\ Latest(v)' => 
                             /\ Number(LastTag(v).tag.stamp) = base % Stamps
                             /\ LastTag(v).time =
                                  IF finish' THEN clock' - Number(pack'.timestamp) ELSE clock'
      BY <1>1 DEF TimeOf, LastTag
    <2>1. /\ LastTag(v).n \in Nat /\ sent \in Nat /\ clock \in Nat
      BY <1>1, LastTagType
    <2>2. /\ viewer[v] # "new" /\ LastTag(v).n <= sent /\ (finish => LastTag(v).n < sent)
          /\ LastTag(v).late => header # <<>>
          /\ Latest(v) => /\ Number(LastTag(v).tag.stamp) = base % Stamps
                          /\ LastTag(v).time = IF finish THEN clock - Number(pack.timestamp) ELSE clock
      BY DEF TimeInv, TimeOf
    <2>3. ASSUME Latest(v)'
          PROVE  finish' /\ Latest(v) /\ ~finish
      <3>1. LastTag(v).late = (header # <<>>) /\ LastTag(v).n = IF finish' THEN sent' - 1 ELSE sent'
        BY <1>1, <2>3 DEF Latest, LastTag
      <3>2. finish' /\ LastTag(v).n = sent
        BY <1>1, <2>1, <2>2, <3>1
      <3>3. ~finish
        BY <2>1, <2>2, <3>2
      <3>4. QED
        BY <3>1, <3>2, <3>3 DEF Latest
    <2>4. clock' - Number(pack'.timestamp) = clock
      BY <1>2, <2>1
    <2>5. QED
      BY <1>1, <2>1, <2>2, <2>3, <2>4
  <1>5. QED
    BY <1>3, <1>4 DEF TimeInv

\* One tag more: its time has advanced since the last one as the clock has.
LEMMA OnNewRtmpPackTime ==
  ASSUME TagsInv, TimeInv, OnNewRtmpPack
  PROVE  TimeInv'
  <1> DEFINE e(v) == [tag |-> Tag(pack, base'), prev |-> last[v], n |-> sent,
                      time |-> clock, late |-> header # <<>>]
             Members == {v \in Viewers : viewer[v] # "new"}
  <1>1. /\ TypeOK /\ finish /\ ~finish'
        /\ UNCHANGED <<sent, clock, pack, firsts, header, viewer>>
        /\ out' = [v \in Viewers |-> IF v \in Members THEN Append(out[v], e(v)) ELSE out[v]]
    BY DEF OnNewRtmpPack, TagsInv, AddFlvTag
  <1>2. /\ base \in Nat /\ pack \in Pack /\ Number(pack.timestamp) \in Nat
        /\ base' \in Nat /\ sent \in Nat /\ clock \in Nat
        /\ base' % Stamps = (base + Number(pack.timestamp)) % Stamps
    <2>1. base \in Nat /\ pack \in Pack /\ sent \in Nat /\ clock \in Nat
      BY <1>1, BaseFacts, TypesAssumption DEF TypeOK
    <2>2. PICK top \in Byte : base' = Transform(pack, base, top)
      BY DEF OnNewRtmpPack
    <2>3. base' \in 0 .. Stamps * Base - 1
      BY <2>1, <2>2, TransformInRange
    <2>4. base' % Stamps = (base + Number(pack.timestamp)) % Stamps
      BY <2>1, <2>2, TransformAdvances, Zenon
    <2>5. Number(pack.timestamp) \in Nat
      BY <2>1, NumberIsNat DEF Pack
    <2>6. base' \in Nat
      BY <2>3, BaseFacts
    <2>7. QED
      BY <2>1, <2>4, <2>5, <2>6
  <1>3. ASSUME NEW v \in Viewers
        PROVE  /\ e(v).n = sent /\ e(v).time = clock /\ e(v).late = (header # <<>>)
               /\ Number(e(v).tag.stamp) = base' % Stamps
    <2>1. e(v).tag.stamp = BigEndian(base')
      BY DEF Tag, SetTimeStamp
    <2>2. QED
      BY <1>2, <2>1, NumberOfBigEndian
  <1> HIDE DEF e
  <1>4. ASSUME NEW v \in Viewers PROVE out[v] \in Seq(SentTag) /\ Len(out[v]) \in Nat
    BY <1>1 DEF TypeOK
  <1>5. ASSUME NEW v \in Viewers, v \notin Members PROVE out[v] = <<>> /\ out'[v] = <<>>
    BY <1>1, <1>5 DEF TimeInv, TimeOf
  <1>6. ASSUME NEW v \in Viewers, v \in Members
        PROVE  /\ Len(out'[v]) = Len(out[v]) + 1
               /\ out'[v][Len(out[v]) + 1] = e(v)
               /\ \A i \in 1 .. Len(out[v]) : out'[v][i] = out[v][i]
    BY <1>1, <1>4, <1>6
  <1>7. ASSUME NEW v \in Viewers PROVE TimeOf(v)'
    <2>1. CASE v \notin Members
      BY <1>5, <2>1 DEF TimeOf
    <2>2. CASE v \in Members
      <3>1. LastTag(v)' = e(v)
        BY <1>6, <2>2 DEF LastTag
      <3>2. viewer'[v] # "new"
        BY <1>1, <2>2
      <3>3. /\ LastTag(v)'.n = sent' /\ LastTag(v)'.time = clock'
            /\ LastTag(v)'.late = (header' # <<>>)
            /\ Number(LastTag(v)'.tag.stamp) = base' % Stamps
        BY <1>1, <1>3, <3>1
      <3>4. LastTag(v)'.n <= sent'
        <4>1. sent' \in Nat
          BY <1>1, <1>2
        <4>2. QED
          BY <3>3, <4>1
      <3>5. LastTag(v)'.late => header' # <<>>
        BY <3>3, Zenon
      <3>6. QED
        BY <1>1, <3>2, <3>3, <3>4, <3>5, Zenon DEF TimeOf
    <2>3. QED
      BY <2>1, <2>2
  <1>8. ASSUME NEW v \in Viewers, v \in Members, out[v] # <<>>,
               sent = LastTag(v).n + 1, LastTag(v).late = e(v).late
        PROVE  (Number(e(v).tag.stamp) - Number(LastTag(v).tag.stamp)) % Stamps
                 = (clock - LastTag(v).time) % Stamps
    <2>1. LastTag(v).n \in Nat
      BY <1>1, <1>8, LastTagType
    <2>2. Latest(v)
      BY <1>1, <1>2, <1>3, <1>8, <2>1 DEF Latest
    <2>3. /\ Number(LastTag(v).tag.stamp) = base % Stamps
          /\ LastTag(v).time = clock - Number(pack.timestamp)
      BY <1>1, <1>8, <2>2 DEF TimeInv, TimeOf
    <2> DEFINE t == Number(pack.timestamp)
    <2>4. base + t \in Int /\ base \in Int
      BY <1>2
    <2>5. (((base + t) % Stamps) - (base % Stamps)) % Stamps = ((base + t) - base) % Stamps
      BY <2>4, BaseFacts, ModDifference, Zenon
    <2>6. (base + t) - base = t /\ clock - (clock - t) = t
      BY <1>2
    <2>7. QED
      BY <1>2, <1>3, <2>3, <2>5, <2>6
  <1>9. TimePasses'
    <2> SUFFICES ASSUME NEW v \in Viewers, NEW i \in 1 .. Len(out'[v]) - 1,
                        out'[v][i + 1].n = out'[v][i].n + 1,
                        out'[v][i].late = out'[v][i + 1].late
                 PROVE  (Number(out'[v][i + 1].tag.stamp) - Number(out'[v][i].tag.stamp)) % Stamps
                          = (out'[v][i + 1].time - out'[v][i].time) % Stamps
      BY DEF TimePasses
    <2>1. v \in Members
      <3>1. Len(<<>>) = 0
        OBVIOUS
      <3>2. QED
        BY <1>5, <3>1
    <2>2. i \in 1 .. Len(out[v]) /\ out'[v][i] = out[v][i]
      BY <1>4, <1>6, <2>1
    <2>3. CASE i < Len(out[v])
      <3>1. i \in 1 .. Len(out[v]) - 1 /\ i + 1 \in 1 .. Len(out[v])
        BY <1>4, <2>2, <2>3
      <3>2. out'[v][i + 1] = out[v][i + 1]
        BY <1>6, <2>1, <3>1
      <3>3. QED
        BY <2>2, <3>1, <3>2 DEF TimeInv, TimePasses
    <2>4. CASE i = Len(out[v])
      <3>1. out'[v][i + 1] = e(v) /\ out'[v][i] = LastTag(v)
        BY <1>6, <2>1, <2>2, <2>4 DEF LastTag
      <3>2. out[v] # <<>>
        BY <2>2
      <3>3. sent = LastTag(v).n + 1 /\ LastTag(v).late = e(v).late
        BY <1>3, <3>1
      <3>4. e(v).time = clock
        BY <1>3
      <3>5. QED
        BY <1>8, <2>1, <3>1, <3>2, <3>3, <3>4
    <2>5. QED
      BY <1>4, <2>2, <2>3, <2>4
  <1>10. QED
    BY <1>7, <1>9 DEF TimeInv

\* The header is made: from here on tags are late.
LEMMA GetHeaderDataBufferTime ==
  ASSUME TagsInv, TimeInv, NEW u \in Viewers, GetHeaderDataBuffer(u)
  PROVE  TimeInv'
  <1>1. header = <<>> /\ UNCHANGED <<sent, clock, pack, firsts, finish, viewer, last, out>>
    BY DEF GetHeaderDataBuffer
  <1>2. header' # <<>>
    <2>1. PICK stamps : header' = HeaderTags(stamps)
      BY DEF GetHeaderDataBuffer
    <2>2. QED
      BY <2>1 DEF HeaderTags
  <1>3. TimePasses'
    BY <1>1 DEF TimeInv, TimePasses
  <1>4. ASSUME NEW v \in Viewers PROVE TimeOf(v)'
    <2>1. CASE out[v] = <<>>
      BY <1>1, <2>1 DEF TimeOf
    <2>2. CASE out[v] # <<>>
      <3>1. LastTag(v)' = LastTag(v) /\ TimeOf(v) /\ LastTag(v).late \in BOOLEAN
        BY <1>1, <2>2, LastTagType DEF LastTag, TimeInv, TagsInv
      <3>2. ~LastTag(v).late
        BY <1>1, <2>2, <3>1 DEF TimeOf
      <3>3. ~Latest(v)'
        BY <1>2, <3>1, <3>2 DEF Latest
      <3>4. QED
        BY <1>1, <1>2, <2>2, <3>1, <3>3 DEF TimeOf
    <2>3. QED
      BY <2>1, <2>2
  <1>5. QED
    BY <1>3, <1>4 DEF TimeInv

\* No step makes two tags in a row differ from the clock.
LEMMA TimeStep ==
  ASSUME TagsInv, TimeInv, [Next]_vars
  PROVE  TimeInv'
  <1>1. ASSUME UNCHANGED <<pushVars, header, out>>,
               \A v \in Viewers : viewer[v] # "new" => viewer'[v] # "new"
        PROVE  TimeInv'
    BY <1>1 DEF TimeInv, TimePasses, TimeOf, LastTag, Latest, pushVars
  <1>2. UNCHANGED vars => TimeInv'
    BY <1>1 DEF vars
  <1>3. ASSUME NEW u \in Viewers, AddClientConnection(u) \/ SendHeaderOnConnection(u)
        PROVE  TimeInv'
    <2>1. UNCHANGED <<pushVars, header, out>>
      BY <1>3 DEF AddClientConnection, SendHeaderOnConnection
    <2>2. \A v \in Viewers : viewer[v] # "new" => viewer'[v] # "new"
      BY <1>3 DEF AddClientConnection, SendHeaderOnConnection, TagsInv, TypeOK
    <2>3. QED
      BY <1>1, <2>1, <2>2
  <1>4. QED
    BY <1>2, <1>3, DecodePackTime, OnNewRtmpPackTime, GetHeaderDataBufferTime
    DEF Next, Done

\* The times in a viewer's tags pass as they do at the broadcaster, for bytes of
\* any number of values and times that come round any number of times
\* (DecodeHeader, Transform, SetTimeStamp).
THEOREM TimesCorrect == Spec => []TimePasses
  <1>1. Init => TimeInv
    <2>1. ASSUME Init, NEW v \in Viewers PROVE out[v] = <<>> /\ Len(out[v]) = 0
      BY <2>1 DEF Init
    <2>2. QED
      BY <2>1 DEF TimeInv, TimePasses, TimeOf
  <1>2. TagsInv /\ TimeInv /\ [Next]_vars => TimeInv'
    BY TimeStep
  <1>3. TimeInv => TimePasses
    BY DEF TimeInv
  <1>4. QED
    BY <1>1, <1>2, <1>3, Inductive, PTL DEF Spec

-----------------------------------------------------------------------------
(***************************************************************************)
(* Proofs about RtmpShakeHand: the shake hand that comes before the first  *)
(* message on the same connection.                                         *)
(***************************************************************************)

\* The p-th half of the stream of a broadcaster, and how much g groups are.
StreamAt(p) ==
  [msg |-> IF p <= 16 THEN Messages[(p + 1) \div 2] ELSE "Data",
   half |-> 2 - (p % 2)]
HalvesOf(g) == IF g < 3 THEN 2 * g ELSE IF g < 5 THEN 6 * g - 10 ELSE 2 * g + 6

\* What the server has taken out of its buffer so far.
Taken == HalvesOf(groups) - Len(buffer) - Len(toServer)

Waiting == {"C01", "C2", "SetChunkSize", "Connect", "Release", "FCPublish",
            "CreateStream", "Publish"}
Half == [msg : Waiting \cup {"Data"}, half : {1, 2}]
Given == {"S01", "S2", "ConnectResult", "Result", "Start"}

ShakeTypes ==
  /\ groups \in Nat /\ got \in Nat /\ parsed \in Nat
  /\ buffer \in Seq(Half) /\ toServer \in Seq(Half) /\ answers \in Seq(Given)
  /\ status \in Waiting \cup {"Success"}
  /\ callback \in {"shake", "body"}
  /\ pc \in {"idle", "shake", "authenticate", "body"}
  /\ left \in BOOLEAN /\ partial \in BOOLEAN /\ connected \in BOOLEAN
  /\ closed \in BOOLEAN /\ bound \in BOOLEAN /\ garbled \in BOOLEAN

\* What is in the buffer and on the way is the stream from there on.
Follows(halves, from) == \A i \in 1 .. Len(halves) : halves[i] = StreamAt(from + i)
StreamInv == Follows(buffer, Taken) /\ Follows(toServer, Taken + Len(buffer))

PlaceOf(s) ==
  CASE s = "C01" -> 1 [] s = "C2" -> 2 [] s = "SetChunkSize" -> 3 [] s = "Connect" -> 4
    [] s = "Release" -> 5 [] s = "FCPublish" -> 6 [] s = "CreateStream" -> 7
    [] s = "Publish" -> 8 [] s = "Success" -> 9
\* How many answers were given when the server waits for s.
GivenAt(s) ==
  CASE s = "C01" -> 0 [] s = "C2" -> 1 [] s \in {"SetChunkSize", "Connect"} -> 2
    [] s \in {"Release", "FCPublish", "CreateStream"} -> 3
    [] s = "Publish" -> 4 [] s = "Success" -> 5

\* Up to createStream the server has taken the messages before the one it waits
\* for, and the half of that one that the decoder holds.  The chunk with 0xc3
\* may leave it a half behind, and then whatever comes is garbage.
Part == IF partial THEN 1 ELSE 0
DecoderInv ==
  /\ status \notin {"Publish", "Success"} =>
       Taken = 2 * (PlaceOf(status) - 1) + Part /\ ~garbled
  /\ status \in {"C01", "C2", "Success"} => ~partial
  /\ status = "Publish" =>
       IF form = "c3"
       THEN Taken \in 13 .. 16 /\ (partial => Taken = 15) /\ (Taken = 16 => garbled)
       ELSE Taken = 14 + Part /\ ~garbled
  /\ status = "Success" => Taken = 16 + parsed /\ (form # "c3" => ~garbled)
  /\ status # "Success" => parsed = 0

AnswersInv ==
  /\ Len(answers) <= GivenAt(status)
  /\ connected => Len(answers) = GivenAt(status)
  /\ \A i \in 1 .. Len(answers) : answers[i] = Answers[i]

\* A broadcaster waits for the answer to its last group, or has read it.
ClientInv ==
  /\ got <= Len(answers)
  /\ IF groups \in 1 .. 5 THEN \/ awaits = Answers[groups] /\ got = groups - 1
                               \/ awaits = "none" /\ got = groups
     ELSE awaits = "none" /\ got = IF groups = 0 THEN 0 ELSE 5

PlaceInv ==
  /\ pc = "body" => callback = "body"
  /\ callback = "body" => status = "Success"
  /\ bound => status = "Success"
  /\ pc = "authenticate" => status = "FCPublish"

\* A refused broadcaster is not connected any more once the server is past the
\* authentication, and is never given the fourth answer.
RefusedInv ==
  ~accepted =>
    /\ PlaceOf(status) >= 6 /\ connected => pc = "authenticate"
    /\ Len(answers) <= 3

ShakeInv == /\ ShakeTypes /\ StreamInv /\ DecoderInv /\ AnswersInv /\ ClientInv
            /\ PlaceInv /\ RefusedInv

-----------------------------------------------------------------------------
\* The states in their order.
LEMMA NextStatusIs ==
  /\ NextStatus("C01") = "C2" /\ NextStatus("C2") = "SetChunkSize"
  /\ NextStatus("SetChunkSize") = "Connect" /\ NextStatus("Connect") = "Release"
  /\ NextStatus("Release") = "FCPublish" /\ NextStatus("FCPublish") = "CreateStream"
  /\ NextStatus("CreateStream") = "Publish" /\ NextStatus("Publish") = "Success"
  <1>1. \A i, j \in 1 .. 8 : Messages[i] = Messages[j] => i = j
    BY DEF Messages
  <1>2. DOMAIN Messages = 1 .. 8
    BY DEF Messages
  <1>3. \A i \in 1 .. 8 : (CHOOSE j \in DOMAIN Messages : Messages[j] = Messages[i]) = i
    BY <1>1, <1>2
  <1>4. \A i \in 1 .. 7 : Messages[i] # "Publish"
    BY DEF Messages
  <1>5. \A i \in 1 .. 7 : NextStatus(Messages[i]) = Messages[1 + i]
    <2> SUFFICES ASSUME NEW i \in 1 .. 7
                 PROVE  NextStatus(Messages[i]) = Messages[1 + i]
      OBVIOUS
    <2>1. i \in 1 .. 8
      OBVIOUS
    <2>2. Messages[i] # "Publish"
      BY <1>4
    <2>3. (CHOOSE j \in DOMAIN Messages : Messages[j] = Messages[i]) = i
      BY <1>3, <2>1
    <2>4. QED
      BY <2>2, <2>3, Zenon DEF NextStatus
  <1>6. NextStatus("Publish") = "Success"
    BY DEF NextStatus
  <1>7. /\ Messages[1] = "C01" /\ Messages[2] = "C2" /\ Messages[3] = "SetChunkSize"
        /\ Messages[4] = "Connect" /\ Messages[5] = "Release"
        /\ Messages[6] = "FCPublish" /\ Messages[7] = "CreateStream"
        /\ Messages[8] = "Publish"
    BY DEF Messages
  <1>8. QED
    BY <1>5, <1>6, <1>7

LEMMA PlacesAre ==
  /\ PlaceOf("C01") = 1 /\ GivenAt("C01") = 0
  /\ PlaceOf("C2") = 2 /\ GivenAt("C2") = 1
  /\ PlaceOf("SetChunkSize") = 3 /\ GivenAt("SetChunkSize") = 2
  /\ PlaceOf("Connect") = 4 /\ GivenAt("Connect") = 2
  /\ PlaceOf("Release") = 5 /\ GivenAt("Release") = 3
  /\ PlaceOf("FCPublish") = 6 /\ GivenAt("FCPublish") = 3
  /\ PlaceOf("CreateStream") = 7 /\ GivenAt("CreateStream") = 3
  /\ PlaceOf("Publish") = 8 /\ GivenAt("Publish") = 4
  /\ PlaceOf("Success") = 9 /\ GivenAt("Success") = 5
  BY DEF PlaceOf, GivenAt

LEMMA MessagesAre ==
  ASSUME NEW s \in Waiting
  PROVE  /\ PlaceOf(s) \in 1 .. 8 /\ Messages[PlaceOf(s)] = s
         /\ NextStatus(s) \in Waiting \cup {"Success"}
         /\ PlaceOf(NextStatus(s)) = PlaceOf(s) + 1
         /\ s # "Publish" => NextStatus(s) # "Success" /\ NextStatus(s) # "C01"
         /\ GivenAt(s) \in 0 .. 4
         /\ GivenAt(NextStatus(s)) = IF AnswerTo(s) = "none" THEN GivenAt(s)
                                        ELSE GivenAt(s) + 1
  BY NextStatusIs DEF Waiting, PlaceOf, GivenAt, Messages, AnswerTo, None

LEMMA AnswersAre ==
  /\ Answers[1] = "S01" /\ Answers[2] = "S2" /\ Answers[3] = "ConnectResult"
  /\ Answers[4] = "Result" /\ Answers[5] = "Start"
  BY DEF Answers, Script

LEMMA AnswerToIs ==
  ASSUME NEW s \in Waiting, AnswerTo(s) # "none"
  PROVE  AnswerTo(s) = Answers[GivenAt(s) + 1] /\ AnswerTo(s) \in Given
  <1>1. s \in {"C01", "C2", "Connect", "CreateStream", "Publish"}
    BY DEF Waiting, AnswerTo, None
  <1>2. /\ AnswerTo("C01") = "S01" /\ AnswerTo("C2") = "S2"
        /\ AnswerTo("Connect") = "ConnectResult" /\ AnswerTo("CreateStream") = "Result"
        /\ AnswerTo("Publish") = "Start"
    BY DEF AnswerTo
  <1>3. /\ GivenAt("C01") = 0 /\ GivenAt("C2") = 1 /\ GivenAt("Connect") = 2
        /\ GivenAt("CreateStream") = 3 /\ GivenAt("Publish") = 4
    BY DEF GivenAt
  <1>4. CASE s = "C01"
    BY <1>2, <1>3, <1>4, AnswersAre DEF Given
  <1>5. CASE s = "C2"
    BY <1>2, <1>3, <1>5, AnswersAre DEF Given
  <1>6. CASE s = "Connect"
    BY <1>2, <1>3, <1>6, AnswersAre DEF Given
  <1>7. CASE s = "CreateStream"
    BY <1>2, <1>3, <1>7, AnswersAre DEF Given
  <1>8. CASE s = "Publish"
    BY <1>2, <1>3, <1>8, AnswersAre DEF Given
  <1>9. QED
    BY <1>1, <1>4, <1>5, <1>6, <1>7, <1>8

LEMMA StreamAtIs ==
  ASSUME NEW p \in 1 .. 16
  PROVE  /\ StreamAt(p).msg = Messages[(p + 1) \div 2]
         /\ StreamAt(p).half = 2 - (p % 2)
  BY DEF StreamAt

\* The halves of the messages from the k-th on, in their place in the stream.
LEMMA HalvesFollow ==
  ASSUME NEW msgs \in Seq(Waiting \cup {"Data"}), NEW k \in Nat,
         \A j \in 1 .. Len(msgs) : msgs[j] = IF k + j <= 8 THEN Messages[k + j] ELSE "Data"
  PROVE  /\ Halves(msgs) \in Seq(Half) /\ Len(Halves(msgs)) = 2 * Len(msgs)
         /\ Follows(Halves(msgs), 2 * k)
  <1> DEFINE n == Len(msgs)
  <1>1. n \in Nat /\ \A j \in 1 .. n : msgs[j] \in (Waiting \cup {"Data"})
    OBVIOUS
  <1>2. \A i \in 1 .. 2 * n :
          /\ (i + 1) \div 2 \in 1 .. n /\ 2 - (i % 2) \in {1, 2}
          /\ (2 * k + i + 1) \div 2 = k + ((i + 1) \div 2) /\ (2 * k + i) % 2 = i % 2
          /\ 2 * k + i <= 16 <=> k + ((i + 1) \div 2) <= 8
    BY <1>1
  <1>3. Halves(msgs) = [i \in 1 .. 2 * n |->
                           [msg |-> msgs[(i + 1) \div 2], half |-> 2 - (i % 2)]]
    BY DEF Halves
  <1>4. \A i \in 1 .. 2 * n : [msg |-> msgs[(i + 1) \div 2], half |-> 2 - (i % 2)] \in Half
    BY <1>1, <1>2 DEF Half
  <1>5. Halves(msgs) \in [1 .. 2 * n -> Half]
    BY <1>3, <1>4
  <1>6. Halves(msgs) \in Seq(Half) /\ Len(Halves(msgs)) = 2 * n
    BY <1>1, <1>5
  <1>7. ASSUME NEW i \in 1 .. 2 * n PROVE Halves(msgs)[i] = StreamAt(2 * k + i)
    <2>1. msgs[(i + 1) \div 2] = IF 2 * k + i <= 16 THEN Messages[(2 * k + i + 1) \div 2]
                                  ELSE "Data"
      BY <1>2
    <2>2. 2 - ((2 * k + i) % 2) = 2 - (i % 2)
      BY <1>2
    <2>3. QED
      BY <1>3, <2>1, <2>2 DEF StreamAt
  <1>8. QED
    BY <1>6, <1>7 DEF Follows

LEMMA GroupIs ==
  ASSUME NEW g \in Nat
  PROVE  /\ Group(g + 1).msgs \in Seq(Waiting \cup {"Data"})
         /\ HalvesOf(g + 1) = HalvesOf(g) + 2 * Len(Group(g + 1).msgs)
         /\ \E k \in Nat :
              /\ HalvesOf(g) = 2 * k
              /\ \A j \in 1 .. Len(Group(g + 1).msgs) :
                   Group(g + 1).msgs[j] = IF k + j <= 8 THEN Messages[k + j] ELSE "Data"
         /\ Group(g + 1).answer = IF g < 5 THEN Answers[g + 1] ELSE "none"
  <1> DEFINE Is(k, msgs, answer) ==
        /\ k \in Nat /\ Group(g + 1) = [msgs |-> msgs, answer |-> answer]
        /\ msgs \in Seq(Waiting \cup {"Data"})
        /\ HalvesOf(g) = 2 * k /\ HalvesOf(g + 1) = 2 * k + 2 * Len(msgs)
        /\ \A j \in 1 .. Len(msgs) : msgs[j] = IF k + j <= 8 THEN Messages[k + j] ELSE "Data"
        /\ answer = IF g < 5 THEN Answers[g + 1] ELSE "none"
  <1> HIDE DEF Is
  <1>1. ASSUME g >= 5 PROVE \E k, msgs, answer : Is(k, msgs, answer)
    <2>1. Group(g + 1) = [msgs |-> <<"Data">>, answer |-> "none"]
      BY <1>1 DEF Group, Script, None
    <2>2. HalvesOf(g) = 2 * (g + 3) /\ HalvesOf(g + 1) = 2 * (g + 3) + 2 * Len(<<"Data">>)
      BY <1>1 DEF HalvesOf
    <2>3. \A j \in 1 .. Len(<<"Data">>) :
            <<"Data">>[j] = IF g + 3 + j <= 8 THEN Messages[g + 3 + j] ELSE "Data"
      BY <1>1 DEF Messages
    <2>4. "none" = IF g < 5 THEN Answers[g + 1] ELSE "none"
      BY <1>1, AnswersAre
    <2>5. g + 3 \in Nat
      BY <1>1
    <2>6. Is(g + 3, <<"Data">>, "none")
      BY <2>1, <2>2, <2>3, <2>4, <2>5 DEF Waiting, Is
    <2>7. QED
      BY <2>6, Zenon
  <1>2. ASSUME g = 0 PROVE \E k, msgs, answer : Is(k, msgs, answer)
    <2>1. Group(g + 1) = [msgs |-> <<"C01">>, answer |-> "S01"]
      BY <1>2 DEF Group, Script, None
    <2>2. HalvesOf(g) = 2 * 0 /\ HalvesOf(g + 1) = 2 * 0 + 2 * Len(<<"C01">>)
      BY <1>2 DEF HalvesOf
    <2>3. \A j \in 1 .. Len(<<"C01">>) :
            <<"C01">>[j] = IF 0 + j <= 8 THEN Messages[0 + j] ELSE "Data"
      BY <1>2 DEF Messages
    <2>4. "S01" = IF g < 5 THEN Answers[g + 1] ELSE "none"
      BY <1>2, AnswersAre
    <2>5. 0 \in Nat
      BY <1>2
    <2>6. Is(0, <<"C01">>, "S01")
      BY <2>1, <2>2, <2>3, <2>4, <2>5 DEF Waiting, Is
    <2>7. QED
      BY <2>6, Zenon
  <1>3. ASSUME g = 1 PROVE \E k, msgs, answer : Is(k, msgs, answer)
    <2>1. Group(g + 1) = [msgs |-> <<"C2">>, answer |-> "S2"]
      BY <1>3 DEF Group, Script, None
    <2>2. HalvesOf(g) = 2 * 1 /\ HalvesOf(g + 1) = 2 * 1 + 2 * Len(<<"C2">>)
      BY <1>3 DEF HalvesOf
    <2>3. \A j \in 1 .. Len(<<"C2">>) :
            <<"C2">>[j] = IF 1 + j <= 8 THEN Messages[1 + j] ELSE "Data"
      BY <1>3 DEF Messages
    <2>4. "S2" = IF g < 5 THEN Answers[g + 1] ELSE "none"
      BY <1>3, AnswersAre
    <2>5. 1 \in Nat
      BY <1>3
    <2>6. Is(1, <<"C2">>, "S2")
      BY <2>1, <2>2, <2>3, <2>4, <2>5 DEF Waiting, Is
    <2>7. QED
      BY <2>6, Zenon
  <1>4. ASSUME g = 2 PROVE \E k, msgs, answer : Is(k, msgs, answer)
    <2>1. Group(g + 1) = [msgs |-> <<"SetChunkSize", "Connect">>, answer |-> "ConnectResult"]
      BY <1>4 DEF Group, Script, None
    <2>2. HalvesOf(g) = 2 * 2 /\ HalvesOf(g + 1) = 2 * 2
                               + 2 * Len(<<"SetChunkSize", "Connect">>)
      BY <1>4 DEF HalvesOf
    <2>3. \A j \in 1 .. Len(<<"SetChunkSize", "Connect">>) :
            <<"SetChunkSize", "Connect">>[j] = IF 2 + j <= 8 THEN Messages[2 + j] ELSE "Data"
      BY <1>4 DEF Messages
    <2>4. "ConnectResult" = IF g < 5 THEN Answers[g + 1] ELSE "none"
      BY <1>4, AnswersAre
    <2>5. 2 \in Nat
      BY <1>4
    <2>6. Is(2, <<"SetChunkSize", "Connect">>, "ConnectResult")
      BY <2>1, <2>2, <2>3, <2>4, <2>5 DEF Waiting, Is
    <2>7. QED
      BY <2>6, Zenon
  <1>5. ASSUME g = 3 PROVE \E k, msgs, answer : Is(k, msgs, answer)
    <2>1. Group(g + 1) = [msgs |-> <<"Release", "FCPublish", "CreateStream">>,
                             answer |-> "Result"]
      BY <1>5 DEF Group, Script, None
    <2>2. HalvesOf(g) = 2 * 4 /\ HalvesOf(g + 1) = 2 * 4
                               + 2 * Len(<<"Release", "FCPublish", "CreateStream">>)
      BY <1>5 DEF HalvesOf
    <2>3. \A j \in 1 .. Len(<<"Release", "FCPublish", "CreateStream">>) :
            <<"Release", "FCPublish", "CreateStream">>[j]
              = IF 4 + j <= 8 THEN Messages[4 + j] ELSE "Data"
      BY <1>5 DEF Messages
    <2>4. "Result" = IF g < 5 THEN Answers[g + 1] ELSE "none"
      BY <1>5, AnswersAre
    <2>5. 4 \in Nat
      BY <1>5
    <2>6. Is(4, <<"Release", "FCPublish", "CreateStream">>, "Result")
      <3>1. <<"Release", "FCPublish", "CreateStream">> \in Seq(Waiting \cup {"Data"})
        BY DEF Waiting
      <3>2. QED
        BY <2>1, <2>2, <2>3, <2>4, <2>5, <3>1, Zenon DEF Is
    <2>7. QED
      BY <2>6, Zenon
  <1>6. ASSUME g = 4 PROVE \E k, msgs, answer : Is(k, msgs, answer)
    <2>1. Group(g + 1) = [msgs |-> <<"Publish">>, answer |-> "Start"]
      BY <1>6 DEF Group, Script, None
    <2>2. HalvesOf(g) = 2 * 7 /\ HalvesOf(g + 1) = 2 * 7 + 2 * Len(<<"Publish">>)
      BY <1>6 DEF HalvesOf
    <2>3. \A j \in 1 .. Len(<<"Publish">>) :
            <<"Publish">>[j] = IF 7 + j <= 8 THEN Messages[7 + j] ELSE "Data"
      BY <1>6 DEF Messages
    <2>4. "Start" = IF g < 5 THEN Answers[g + 1] ELSE "none"
      BY <1>6, AnswersAre
    <2>5. 7 \in Nat
      BY <1>6
    <2>6. Is(7, <<"Publish">>, "Start")
      BY <2>1, <2>2, <2>3, <2>4, <2>5 DEF Waiting, Is
    <2>7. QED
      BY <2>6, Zenon
  <1>7. g >= 5 \/ g = 0 \/ g = 1 \/ g = 2 \/ g = 3 \/ g = 4
    OBVIOUS
  <1>8. PICK k, msgs, answer : Is(k, msgs, answer)
    BY <1>1, <1>2, <1>3, <1>4, <1>5, <1>6, <1>7
  <1>9. Len(msgs) \in Nat /\ Group(g + 1).msgs = msgs /\ Group(g + 1).answer = answer
    BY <1>8 DEF Is
  <1>10. QED
    BY <1>8, <1>9 DEF Is

LEMMA GroupFollows ==
  ASSUME NEW g \in Nat
  PROVE  LET halves == Halves(Group(g + 1).msgs) IN
         /\ halves \in Seq(Half) /\ Len(halves) = HalvesOf(g + 1) - HalvesOf(g)
         /\ Follows(halves, HalvesOf(g))
  <1> DEFINE msgs == Group(g + 1).msgs
  <1>1. PICK k \in Nat :
          /\ HalvesOf(g) = 2 * k
          /\ \A j \in 1 .. Len(msgs) :
               msgs[j] = IF k + j <= 8 THEN Messages[k + j] ELSE "Data"
    BY GroupIs
  <1>2. msgs \in Seq(Waiting \cup {"Data"}) /\ HalvesOf(g + 1) = HalvesOf(g) + 2 * Len(msgs)
    BY GroupIs
  <1>3. /\ Halves(msgs) \in Seq(Half) /\ Len(Halves(msgs)) = 2 * Len(msgs)
        /\ Follows(Halves(msgs), 2 * k)
    <2> HIDE DEF msgs
    <2> QED
      BY <1>1, <1>2, HalvesFollow
  <1>4. Len(msgs) \in Nat /\ HalvesOf(g) \in Nat
    BY <1>1, <1>2
  <1>5. Len(Halves(msgs)) = HalvesOf(g + 1) - HalvesOf(g)
    BY <1>2, <1>3, <1>4
  <1>6. QED
    BY <1>1, <1>3, <1>5

LEMMA FollowsTake ==
  ASSUME NEW s \in Seq(Half), NEW n \in 0 .. Len(s), NEW t \in Int, Follows(s, t)
  PROVE  /\ SubSeq(s, n + 1, Len(s)) \in Seq(Half) /\ SubSeq(s, 1, n) \in Seq(Half)
         /\ Len(SubSeq(s, n + 1, Len(s))) = Len(s) - n /\ Len(SubSeq(s, 1, n)) = n
         /\ Follows(SubSeq(s, n + 1, Len(s)), t + n) /\ Follows(SubSeq(s, 1, n), t)
  <1>1. Len(s) \in Nat
    OBVIOUS
  <1>2. /\ SubSeq(s, n + 1, Len(s)) \in Seq(Half) /\ SubSeq(s, 1, n) \in Seq(Half)
        /\ Len(SubSeq(s, n + 1, Len(s))) = Len(s) - n /\ Len(SubSeq(s, 1, n)) = n
    BY <1>1
  <1>3. /\ \A i \in 1 .. Len(s) - n : SubSeq(s, n + 1, Len(s))[i] = s[n + i]
        /\ \A i \in 1 .. n : SubSeq(s, 1, n)[i] = s[i]
    BY <1>1
  <1>4. \A i \in 1 .. Len(s) - n : n + i \in 1 .. Len(s) /\ t + (n + i) = t + n + i
    BY <1>1
  <1>5. QED
    BY <1>1, <1>2, <1>3, <1>4 DEF Follows

LEMMA FollowsConcat ==
  ASSUME NEW r \in Seq(Half), NEW s \in Seq(Half), NEW t \in Int,
         Follows(r, t), Follows(s, t + Len(r))
  PROVE  /\ r \o s \in Seq(Half) /\ Len(r \o s) = Len(r) + Len(s) /\ Follows(r \o s, t)
  BY DEF Follows

LEMMA HalvesOfIs ==
  ASSUME NEW g \in Nat
  PROVE  /\ HalvesOf(g) \in Nat
         /\ HalvesOf(g) >= 2 => g >= 1
         /\ HalvesOf(g) >= 4 => g >= 2
         /\ HalvesOf(g) >= 8 => g >= 3
         /\ HalvesOf(g) >= 13 => g >= 4
         /\ HalvesOf(g) >= 16 => g >= 5
         /\ g <= 4 => HalvesOf(g) <= 14
         /\ g <= 5 => HalvesOf(g) <= 16
  BY DEF HalvesOf

\* How far the decoder is when it waits for a message before publish.
LEMMA GivenBelow ==
  ASSUME NEW s \in Waiting \ {"Publish"}
  PROVE  /\ PlaceOf(s) \in 1 .. 7 /\ GivenAt(s) \in 0 .. 3
         /\ GivenAt(s) >= 1 => PlaceOf(s) >= 2
         /\ GivenAt(s) >= 2 => PlaceOf(s) >= 3
         /\ GivenAt(s) >= 3 => PlaceOf(s) >= 5
  <1>1. CASE s \in {"C01", "C2"}
    BY <1>1, PlacesAre
  <1>2. CASE s \in {"SetChunkSize", "Connect"}
    BY <1>2, PlacesAre
  <1>3. CASE s \in {"Release", "FCPublish", "CreateStream"}
    BY <1>3, PlacesAre
  <1>4. QED
    BY <1>1, <1>2, <1>3 DEF Waiting

\* Halves that arrive move from the way into the buffer; halves that are sent
\* are on the way: nothing of it was taken.
LEMMA HalvesArrive ==
  ASSUME NEW h \in Int, NEW d \in Int, NEW b \in Int, NEW t \in Int
  PROVE  h - (b + d) - (t - d) = h - b - t
  OBVIOUS

LEMMA HalvesLeave ==
  ASSUME NEW h \in Int, NEW d \in Int, NEW b \in Int, NEW t \in Int
  PROVE  (h + d) - b - (t + d) = h - b - t
  OBVIOUS

\* No answer is given before its group was sent.
LEMMA Bounds ==
  ASSUME ShakeInv
  PROVE  /\ Len(buffer) \in Nat /\ Len(toServer) \in Nat /\ Len(answers) \in Nat
         /\ Taken \in Nat /\ Taken + Len(buffer) + Len(toServer) = HalvesOf(groups)
         /\ GivenAt(status) \in 0 .. 5 /\ GivenAt(status) <= groups
         /\ status # "Success" => Taken + Len(buffer) <= 16
  <1>1. /\ Len(buffer) \in Nat /\ Len(toServer) \in Nat /\ Len(answers) \in Nat
        /\ groups \in Nat /\ parsed \in Nat /\ status \in Waiting \cup {"Success"}
    BY DEF ShakeInv, ShakeTypes
  <1>2. HalvesOf(groups) \in Nat
    BY <1>1, HalvesOfIs
  <1>3. Taken \in Int /\ Taken + Len(buffer) + Len(toServer) = HalvesOf(groups)
    BY <1>1, <1>2 DEF Taken
  <1>4. /\ Taken \in Nat /\ GivenAt(status) \in 0 .. 5
        /\ GivenAt(status) >= 1 => Taken >= 2
        /\ GivenAt(status) >= 2 => Taken >= 4
        /\ GivenAt(status) >= 3 => Taken >= 8
        /\ GivenAt(status) >= 4 => Taken >= 13
        /\ GivenAt(status) >= 5 => Taken >= 16
    <2>1. Part \in {0, 1}
      BY DEF Part
    <2>2. CASE status = "Success"
      <3>1. Taken = 16 + parsed /\ GivenAt(status) = 5
        BY <2>2, PlacesAre DEF ShakeInv, DecoderInv
      <3>2. QED
        BY <1>1, <3>1
    <2>3. CASE status = "Publish"
      <3>1. GivenAt(status) = 4
        BY <2>3, PlacesAre
      <3>2. Taken \in 13 .. 16 \/ Taken = 14 + Part
        BY <2>3 DEF ShakeInv, DecoderInv
      <3>3. QED
        BY <2>1, <3>1, <3>2
    <2>4. CASE status \in Waiting \ {"Publish"}
      <3>1. Taken = 2 * (PlaceOf(status) - 1) + Part
        BY <2>4 DEF ShakeInv, DecoderInv, Waiting
      <3>2. QED
        BY <2>1, <2>4, <3>1, GivenBelow
    <2>5. QED
      BY <1>1, <2>2, <2>3, <2>4
  <1>5. GivenAt(status) <= groups
    <2>1. /\ HalvesOf(groups) >= 2 => groups >= 1
          /\ HalvesOf(groups) >= 4 => groups >= 2
          /\ HalvesOf(groups) >= 8 => groups >= 3
          /\ HalvesOf(groups) >= 13 => groups >= 4
          /\ HalvesOf(groups) >= 16 => groups >= 5
      BY <1>1, HalvesOfIs, Zenon
    <2>2. Taken <= HalvesOf(groups)
      BY <1>1, <1>2, <1>3, <1>4
    <2>3. QED
      BY <1>1, <1>2, <1>4, <2>1, <2>2
  <1>6. ASSUME status # "Success" PROVE Taken + Len(buffer) <= 16
    <2>1. Len(answers) <= 4
      BY <1>1, <1>6 DEF ShakeInv, AnswersInv, GivenAt, Waiting
    <2>2. groups <= 5
      BY <1>1, <2>1 DEF ShakeInv, ClientInv
    <2>3. QED
      BY <1>1, <1>2, <1>3, <2>2, HalvesOfIs
  <1>7. QED
    BY <1>1, <1>3, <1>4, <1>5, <1>6

-----------------------------------------------------------------------------
\* The steps.
LEMMA ShakeStarts == ShakeInit => ShakeInv
  <1> SUFFICES ASSUME ShakeInit PROVE ShakeInv
    OBVIOUS
  <1>1. Taken = 0
    <2>1. groups = 0 /\ Len(buffer) = 0 /\ Len(toServer) = 0
      BY DEF ShakeInit
    <2>2. HalvesOf(groups) = 0
      BY <2>1 DEF HalvesOf
    <2>3. QED
      BY <2>1, <2>2 DEF Taken
  <1>2. ShakeTypes
    <2>1. /\ groups \in Nat /\ got \in Nat /\ parsed \in Nat
          /\ buffer \in Seq(Half) /\ toServer \in Seq(Half) /\ answers \in Seq(Given)
      BY DEF ShakeInit
    <2>2. /\ status \in Waiting \cup {"Success"} /\ callback \in {"shake", "body"}
          /\ pc \in {"idle", "shake", "authenticate", "body"}
      BY DEF ShakeInit, Waiting
    <2>3. /\ left \in BOOLEAN /\ partial \in BOOLEAN /\ connected \in BOOLEAN
          /\ closed \in BOOLEAN /\ bound \in BOOLEAN /\ garbled \in BOOLEAN
      BY Zenon DEF ShakeInit
    <2>4. QED
      BY <2>1, <2>2, <2>3, Zenon DEF ShakeTypes
  <1>3. StreamInv
    BY DEF ShakeInit, StreamInv, Follows
  <1>4. DecoderInv
    BY <1>1 DEF ShakeInit, DecoderInv, PlaceOf, Part
  <1>5. AnswersInv /\ ClientInv
    BY DEF ShakeInit, None, AnswersInv, ClientInv, GivenAt
  <1>6. PlaceInv /\ RefusedInv
    BY DEF ShakeInit, PlaceInv, RefusedInv, PlaceOf
  <1>7. QED
    BY <1>2, <1>3, <1>4, <1>5, <1>6 DEF ShakeInv

LEMMA SendGroupStep == ShakeInv /\ SendGroup => ShakeInv'
  <1> SUFFICES ASSUME ShakeInv, SendGroup PROVE ShakeInv'
    OBVIOUS
  <1> DEFINE halves == Halves(Group(groups + 1).msgs)
  <1>1. /\ groups \in Nat /\ groups' = groups + 1 /\ toServer' = toServer \o halves
        /\ awaits = "none" /\ awaits' = Group(groups + 1).answer
        /\ UNCHANGED <<form, got, left, status, partial, callback, connected, bound, parsed,
                       garbled, answers, buffer, closed, accepted, pc>>
    BY DEF SendGroup, serverVars, ShakeInv, ShakeTypes, None
  <1>2. /\ halves \in Seq(Half) /\ Len(halves) = HalvesOf(groups + 1) - HalvesOf(groups)
        /\ Follows(halves, HalvesOf(groups))
    BY <1>1, GroupFollows
  <1>3. awaits' = IF groups < 5 THEN Answers[groups + 1] ELSE "none"
    BY <1>1, GroupIs
  <1> HIDE DEF halves
  <1>4. /\ toServer \in Seq(Half) /\ Len(toServer) \in Nat /\ Len(buffer) \in Nat
        /\ Taken \in Nat /\ Taken + Len(buffer) + Len(toServer) = HalvesOf(groups)
    BY Bounds DEF ShakeInv, ShakeTypes
  <1>5. /\ toServer' \in Seq(Half) /\ Len(toServer') = Len(toServer) + Len(halves)
        /\ Follows(toServer', Taken + Len(buffer))
    <2>1. halves \in Seq(Half) /\ toServer \in Seq(Half) /\ Taken + Len(buffer) \in Int
      BY <1>2, <1>4
    <2>2. Follows(toServer, Taken + Len(buffer))
      BY DEF ShakeInv, StreamInv
    <2>3. Taken + Len(buffer) + Len(toServer) = HalvesOf(groups)
      BY <1>4
    <2>4. QED
      BY <1>1, <1>2, <2>1, <2>2, <2>3, FollowsConcat, Zenon
  <1>6. HalvesOf(groups) \in Nat /\ HalvesOf(groups + 1) \in Nat
    <2>1. groups + 1 \in Nat
      BY <1>1
    <2>2. QED
      BY <1>1, <2>1, HalvesOfIs, Zenon
  <1>7. Taken' = Taken
    <2>1. /\ Len(halves) \in Int /\ Len(buffer) \in Int /\ Len(toServer) \in Int
          /\ HalvesOf(groups) \in Int
          /\ HalvesOf(groups + 1) = HalvesOf(groups) + Len(halves)
      BY <1>2, <1>4, <1>6
    <2>2. groups' = groups + 1 /\ buffer' = buffer
      BY <1>1
    <2>3. Taken' = (HalvesOf(groups) + Len(halves)) - Len(buffer)
                     - (Len(toServer) + Len(halves))
      BY <1>5, <2>1, <2>2, Zenon DEF Taken
    <2>4. (HalvesOf(groups) + Len(halves)) - Len(buffer) - (Len(toServer) + Len(halves))
            = HalvesOf(groups) - Len(buffer) - Len(toServer)
      BY <2>1, HalvesLeave
    <2>5. QED
      BY <2>3, <2>4, Zenon DEF Taken
  <1>8. ShakeTypes'
    BY <1>1, <1>5 DEF ShakeInv, ShakeTypes
  <1>9. StreamInv' /\ DecoderInv'
    BY <1>1, <1>5, <1>7 DEF ShakeInv, StreamInv, DecoderInv, Part
  <1>10. AnswersInv' /\ PlaceInv' /\ RefusedInv'
    BY <1>1 DEF ShakeInv, AnswersInv, PlaceInv, RefusedInv
  <1>11. ClientInv'
    BY <1>1, <1>3, AnswersAre DEF ShakeInv, ClientInv, ShakeTypes
  <1>12. QED
    BY <1>8, <1>9, <1>10, <1>11 DEF ShakeInv

LEMMA ReadAnswerStep == ShakeInv /\ ReadAnswer => ShakeInv'
  <1> SUFFICES ASSUME ShakeInv, ReadAnswer PROVE ShakeInv'
    OBVIOUS
  <1>1. /\ got < Len(answers) /\ got' = got + 1
        /\ awaits' = IF answers[got + 1] = awaits THEN "none" ELSE awaits
        /\ UNCHANGED <<form, groups, left, status, partial, callback, connected, bound, parsed,
                       garbled, toServer, answers, buffer, closed, accepted, pc>>
    BY DEF ReadAnswer, serverVars, None
  <1>2. /\ got \in Nat /\ groups \in Nat /\ Len(answers) \in Nat
        /\ Len(answers) <= groups /\ Len(answers) <= 5
    BY Bounds DEF ShakeInv, ShakeTypes, AnswersInv
  <1>3. answers[got + 1] = Answers[got + 1]
    BY <1>1, <1>2 DEF ShakeInv, AnswersInv
  <1>4. ClientInv'
    BY <1>1, <1>2, <1>3 DEF ShakeInv, ClientInv
  <1>5. ShakeTypes' /\ Taken' = Taken
    BY <1>1 DEF ShakeInv, ShakeTypes, Taken
  <1>6. QED
    BY <1>1, <1>4, <1>5 DEF ShakeInv, StreamInv, DecoderInv, Part, AnswersInv, PlaceInv, RefusedInv

LEMMA ReadFromSockfdStep == ShakeInv /\ ReadFromSockfd => ShakeInv'
  <1> SUFFICES ASSUME ShakeInv, ReadFromSockfd PROVE ShakeInv'
    OBVIOUS
  <1>1. /\ UNCHANGED <<form, groups, awaits, got, left, status, partial, callback, connected,
                       bound, parsed, garbled, answers, closed, accepted>>
        /\ pc = "idle" /\ pc' = callback
    BY DEF ReadFromSockfd, clientVars, serverVars
  <1>2. PICK n \in 1 .. Len(toServer) :
          /\ buffer' = buffer \o SubSeq(toServer, 1, n)
          /\ toServer' = SubSeq(toServer, n + 1, Len(toServer))
    BY DEF ReadFromSockfd
  <1>3. /\ buffer \in Seq(Half) /\ toServer \in Seq(Half) /\ Len(toServer) \in Nat
        /\ Len(buffer) \in Nat /\ Taken \in Nat /\ n \in 0 .. Len(toServer)
        /\ Follows(buffer, Taken) /\ Follows(toServer, Taken + Len(buffer))
        /\ Taken + Len(buffer) \in Int /\ HalvesOf(groups) \in Nat
    BY Bounds, HalvesOfIs DEF ShakeInv, ShakeTypes, StreamInv
  <1>4. /\ toServer' \in Seq(Half) /\ SubSeq(toServer, 1, n) \in Seq(Half)
        /\ Len(toServer') = Len(toServer) - n /\ Len(SubSeq(toServer, 1, n)) = n
        /\ Follows(toServer', Taken + Len(buffer) + n)
        /\ Follows(SubSeq(toServer, 1, n), Taken + Len(buffer))
    BY <1>2, <1>3, FollowsTake
  <1>5. /\ buffer' \in Seq(Half) /\ Len(buffer') = Len(buffer) + n
        /\ Follows(buffer', Taken)
    <2> DEFINE arrived == SubSeq(toServer, 1, n)
    <2>1. /\ Taken \in Int /\ buffer \in Seq(Half) /\ Follows(buffer, Taken)
          /\ arrived \in Seq(Half) /\ Follows(arrived, Taken + Len(buffer))
          /\ Len(arrived) = n /\ buffer' = buffer \o arrived
      BY <1>2, <1>3, <1>4
    <2> HIDE DEF arrived
    <2>2. /\ buffer \o arrived \in Seq(Half) /\ Follows(buffer \o arrived, Taken)
          /\ Len(buffer \o arrived) = Len(buffer) + Len(arrived)
      BY <2>1, FollowsConcat, Zenon
    <2>3. QED
      BY <2>1, <2>2, Zenon
  <1>6. Taken' = Taken
    <2>1. n \in Int /\ Len(buffer) \in Int /\ Len(toServer) \in Int /\ HalvesOf(groups) \in Int
      BY <1>3
    <2>2. groups' = groups
      BY <1>1
    <2>3. Taken' = HalvesOf(groups) - (Len(buffer) + n) - (Len(toServer) - n)
      BY <1>4, <1>5, <2>2, Zenon DEF Taken
    <2>4. HalvesOf(groups) - (Len(buffer) + n) - (Len(toServer) - n)
            = HalvesOf(groups) - Len(buffer) - Len(toServer)
      BY <2>1, HalvesArrive
    <2>5. QED
      BY <2>3, <2>4, Zenon DEF Taken
  <1>7. Taken + Len(buffer) + n = Taken' + Len(buffer')
    BY <1>3, <1>5, <1>6
  <1>8. ShakeTypes'
    BY <1>1, <1>4, <1>5 DEF ShakeInv, ShakeTypes
  <1>9. StreamInv'
    BY <1>4, <1>5, <1>6, <1>7 DEF StreamInv
  <1>10. PlaceInv'
    BY <1>1 DEF ShakeInv, PlaceInv, ShakeTypes
  <1>11. DecoderInv' /\ AnswersInv' /\ ClientInv'
    BY <1>1, <1>6 DEF ShakeInv, DecoderInv, Part, AnswersInv, ClientInv
  <1>12. RefusedInv'
    BY <1>1 DEF ShakeInv, RefusedInv
  <1>13. QED
    BY <1>8, <1>9, <1>10, <1>11, <1>12 DEF ShakeInv

\* What the server finds at the head of its buffer.
LEMMA HeadIs ==
  ASSUME ShakeInv, status # "Success", Len(buffer) >= 1
  PROVE  /\ status \in Waiting /\ PlaceOf(status) \in 1 .. 8 /\ Taken \in 0 .. 15
         /\ Head(buffer).half = 2 - ((Taken + 1) % 2)
         /\ Taken \in {2 * PlaceOf(status) - 2, 2 * PlaceOf(status) - 1} =>
              Head(buffer).msg = status
         /\ ~partial /\ Head(buffer).half = 1 => Taken = 2 * PlaceOf(status) - 2
         /\ partial => Taken = 2 * PlaceOf(status) - 1
         /\ ~partial /\ Head(buffer).half = 2 =>
              status = "Publish" /\ form = "c3" /\ Taken \in 13 .. 15
  <1>1. /\ Len(buffer) \in Nat /\ Taken \in Nat /\ Taken + Len(buffer) <= 16
        /\ status \in Waiting /\ buffer \in Seq(Half)
    BY Bounds DEF ShakeInv, ShakeTypes
  <1>2. Taken \in 0 .. 15 /\ Taken + 1 \in 1 .. 16
    BY <1>1
  <1>3. PlaceOf(status) \in 1 .. 8 /\ Messages[PlaceOf(status)] = status
    BY <1>1, MessagesAre
  <1>4. Head(buffer) = StreamAt(Taken + 1)
    <2>1. 1 \in 1 .. Len(buffer) /\ Head(buffer) = buffer[1]
      BY <1>1
    <2>2. QED
      BY <2>1 DEF ShakeInv, StreamInv, Follows
  <1>5. /\ Head(buffer).msg = Messages[(Taken + 1 + 1) \div 2]
        /\ Head(buffer).half = 2 - ((Taken + 1) % 2)
    BY <1>2, <1>4, StreamAtIs
  <1>6. ASSUME Taken \in {2 * PlaceOf(status) - 2, 2 * PlaceOf(status) - 1}
        PROVE  Head(buffer).msg = status
    <2>1. (Taken + 1 + 1) \div 2 = PlaceOf(status)
      BY <1>3, <1>6
    <2>2. QED
      BY <1>3, <1>5, <2>1
  <1>7. /\ status # "Publish" => Taken = 2 * (PlaceOf(status) - 1) + (IF partial THEN 1 ELSE 0)
        /\ status = "Publish" => IF form = "c3" THEN Taken \in 13 .. 16 /\ (partial => Taken = 15)
                                ELSE Taken = 14 + (IF partial THEN 1 ELSE 0)
        /\ status = "Publish" => PlaceOf(status) = 8
    BY <1>1 DEF ShakeInv, DecoderInv, Part, PlaceOf, Waiting
  <1>8. ASSUME ~partial, Head(buffer).half = 1 PROVE Taken = 2 * PlaceOf(status) - 2
    BY <1>2, <1>3, <1>5, <1>7, <1>8
  <1>9. ASSUME partial PROVE Taken = 2 * PlaceOf(status) - 1
    BY <1>2, <1>3, <1>7, <1>9
  <1>10. ASSUME ~partial, Head(buffer).half = 2
         PROVE  status = "Publish" /\ form = "c3" /\ Taken \in 13 .. 15
    <2>1. (Taken + 1) % 2 = 0
      BY <1>2, <1>5, <1>10
    <2>2. status = "Publish"
      <3>1. ASSUME status # "Publish" PROVE FALSE
        <4>1. PlaceOf(status) \in 1 .. 8 /\ Taken = 2 * (PlaceOf(status) - 1)
          BY <1>3, <1>7, <1>10, <3>1
        <4>2. (Taken + 1) % 2 = 1
          BY <4>1
        <4>3. QED
          BY <2>1, <4>2
      <3>2. QED
        BY <3>1
    <2>3. form = "c3"
      BY <1>7, <1>10, <2>1, <2>2
    <2>4. QED
      BY <1>2, <1>7, <2>2, <2>3
  <1>11. QED
    BY <1>1, <1>2, <1>3, <1>5, <1>6, <1>8, <1>9, <1>10

\* What is left of fourteen.
LEMMA FourLeft == \A a \in Nat : 10 + a = 14 => a = 4
  OBVIOUS

\* What one loses the other gains.
LEMMA Shifted ==
  ASSUME NEW a \in Int, NEW b \in Int, NEW n \in Int
  PROVE  (a + n) + (b - n) = a + b
  OBVIOUS

\* What is taken out of the buffer is taken out of the stream.
LEMMA TakenFromBuffer ==
  ASSUME ShakeInv, NEW n \in 0 .. Len(buffer), UNCHANGED <<groups, toServer>>,
         buffer' = SubSeq(buffer, n + 1, Len(buffer))
  PROVE  buffer' \in Seq(Half) /\ Taken' = Taken + n /\ StreamInv'
  <1>1. /\ buffer \in Seq(Half) /\ Len(buffer) \in Nat /\ Len(toServer) \in Nat
        /\ Taken \in Int /\ HalvesOf(groups) \in Nat /\ Follows(buffer, Taken)
    BY Bounds, HalvesOfIs DEF ShakeInv, ShakeTypes, StreamInv
  <1>2. /\ buffer' \in Seq(Half) /\ Len(buffer') = Len(buffer) - n
        /\ Follows(buffer', Taken + n)
    BY <1>1, FollowsTake, Zenon
  <1>3. Taken' = Taken + n
    BY <1>1, <1>2 DEF Taken
  <1>4. Taken' + Len(buffer') = Taken + Len(buffer)
    <2>1. /\ Taken \in Int /\ Len(buffer) \in Int /\ n \in Int
          /\ Taken' = Taken + n /\ Len(buffer') = Len(buffer) - n
      BY <1>1, <1>2, <1>3
    <2>2. (Taken + n) + (Len(buffer) - n) = Taken + Len(buffer)
      BY <2>1, Shifted, Zenon
    <2>3. QED
      BY <2>1, <2>2, Zenon
  <1>5. QED
    BY <1>2, <1>3, <1>4 DEF ShakeInv, StreamInv

LEMMA ParsedStep ==
  ASSUME ShakeInv, pc = "shake", status # "Success",
         NEW n \in 1 .. 2, n <= Len(buffer), Parsed(n),
         \/ Taken + n = 2 * PlaceOf(status)
         \/ status = "CreateStream" /\ form = "c3" /\ Taken = 12 /\ n = 1
  PROVE  ShakeInv'
  <1>1. /\ UNCHANGED <<form, groups, awaits, got, left, toServer, closed, accepted, callback,
                       connected, bound, parsed>>
        /\ buffer' = SubSeq(buffer, n + 1, Len(buffer)) /\ partial' = FALSE
        /\ garbled' = (garbled \/ Head(buffer).msg # status)
        /\ status' = NextStatus(status)
        /\ answers' = IF connected /\ AnswerTo(status) # "none"
                        THEN Append(answers, AnswerTo(status)) ELSE answers
        /\ pc' = IF status = "Release" THEN "authenticate" ELSE "shake"
    BY DEF Parsed, Answer, clientVars, None
  <1>2. /\ Len(buffer) \in Nat /\ Len(buffer) >= 1 /\ n \in 0 .. Len(buffer)
        /\ status \in Waiting /\ PlaceOf(status) \in 1 .. 8
    BY Bounds, HeadIs
  <1>3. buffer' \in Seq(Half) /\ Taken' = Taken + n /\ StreamInv'
    BY <1>1, <1>2, TakenFromBuffer
  <1>4. Taken \in Nat
    BY Bounds
  <1>5. garbled' = garbled
    <2>1. Taken \in {2 * PlaceOf(status) - 2, 2 * PlaceOf(status) - 1}
      <3>1. CASE Taken + n = 2 * PlaceOf(status)
        <4>1. PlaceOf(status) \in Int /\ Taken \in Int /\ (n = 1 \/ n = 2)
          BY <1>2, <1>4
        <4>2. Taken = 2 * PlaceOf(status) - n
          BY <3>1, <4>1
        <4>3. QED
          BY <4>1, <4>2
      <3>2. CASE status = "CreateStream" /\ form = "c3" /\ Taken = 12 /\ n = 1
        BY <3>2 DEF PlaceOf
      <3>3. QED
        BY <3>1, <3>2
    <2>2. Head(buffer).msg = status
      BY <1>2, <2>1, HeadIs
    <2>3. garbled \in BOOLEAN
      BY DEF ShakeInv, ShakeTypes
    <2>4. QED
      BY <1>1, <2>2, <2>3
  <1>6. /\ status' \in Waiting \cup {"Success"} /\ PlaceOf(status') = PlaceOf(status) + 1
        /\ GivenAt(status) \in 0 .. 4
        /\ GivenAt(status') = IF AnswerTo(status) = "none" THEN GivenAt(status)
                              ELSE GivenAt(status) + 1
    BY <1>1, <1>2, MessagesAre
  <1>7. answers \in Seq(Given) /\ Len(answers) \in Nat
    BY Bounds DEF ShakeInv, ShakeTypes
  <1>8. AnswerTo(status) # "none" =>
          /\ AnswerTo(status) \in Given
          /\ AnswerTo(status) = Answers[GivenAt(status) + 1]
    BY <1>2, AnswerToIs
  <1>9. answers' \in Seq(Given) /\ AnswersInv'
    <2>1. CASE connected /\ AnswerTo(status) # "none"
      <3>1. /\ answers' = Append(answers, AnswerTo(status))
            /\ Len(answers) = GivenAt(status)
            /\ \A i \in 1 .. Len(answers) : answers[i] = Answers[i]
        BY <1>1, <2>1 DEF ShakeInv, AnswersInv
      <3>2. /\ answers' \in Seq(Given) /\ Len(answers') = Len(answers) + 1
            /\ \A i \in 1 .. Len(answers) : answers'[i] = answers[i]
            /\ answers'[Len(answers) + 1] = AnswerTo(status)
        BY <1>7, <1>8, <2>1, <3>1
      <3>3. \A i \in 1 .. Len(answers') : answers'[i] = Answers[i]
        BY <1>6, <1>7, <1>8, <2>1, <3>1, <3>2
      <3>4. QED
        BY <1>6, <1>7, <2>1, <3>1, <3>2, <3>3 DEF AnswersInv
    <2>2. CASE ~(connected /\ AnswerTo(status) # "none")
      BY <1>1, <1>6, <1>7, <2>2 DEF ShakeInv, AnswersInv
    <2>3. QED
      BY <2>1, <2>2
  <1>10. ShakeTypes'
    BY <1>1, <1>3, <1>5, <1>6, <1>9 DEF ShakeInv, ShakeTypes
  <1>11. DecoderInv'
    <2>1. /\ status = "C01" => status' = "C2"
          /\ status = "C2" => status' = "SetChunkSize"
          /\ status = "SetChunkSize" => status' = "Connect"
          /\ status = "Connect" => status' = "Release"
          /\ status = "Release" => status' = "FCPublish"
          /\ status = "FCPublish" => status' = "CreateStream"
          /\ status = "CreateStream" => status' = "Publish"
          /\ status = "Publish" => status' = "Success"
      BY <1>1, NextStatusIs
    <2>2. CASE status = "Publish"
      <3>1. status' = "Success" /\ PlaceOf(status) = 8 /\ Taken' = 16 /\ parsed' = 0
        BY <1>1, <1>3, <2>1, <2>2 DEF ShakeInv, DecoderInv, PlaceOf
      <3>2. form # "c3" => ~garbled
        BY <2>2 DEF ShakeInv, DecoderInv
      <3>3. QED
        BY <1>1, <1>5, <3>1, <3>2 DEF DecoderInv
    <2>3. CASE status = "CreateStream"
      <3>1. status' = "Publish" /\ PlaceOf(status) = 7 /\ parsed' = 0 /\ ~garbled
        BY <1>1, <2>1, <2>3 DEF ShakeInv, DecoderInv, PlaceOf
      <3>2. Taken' = 14 \/ (Taken' = 13 /\ form = "c3")
        BY <1>3, <1>4, <3>1
      <3>3. QED
        BY <1>1, <1>5, <3>1, <3>2 DEF DecoderInv, Part
    <2>4. CASE status \notin {"CreateStream", "Publish"}
      <3>1. /\ status' \notin {"Publish", "Success"} /\ status # "Success"
            /\ ~garbled /\ parsed' = 0
        BY <1>1, <1>2, <2>1, <2>4 DEF ShakeInv, DecoderInv, Waiting
      <3>2. Taken' = 2 * PlaceOf(status)
        BY <1>3, <2>4
      <3>3. Taken' = 2 * (PlaceOf(status') - 1) + Part'
        BY <1>1, <1>2, <1>6, <3>2 DEF Part
      <3>4. QED
        BY <1>1, <1>5, <3>1, <3>3 DEF DecoderInv
    <2>5. QED
      BY <2>2, <2>3, <2>4
  <1>12. ClientInv'
    <2>1. Len(answers') >= Len(answers) /\ got \in Nat
      BY <1>1, <1>7, <1>8 DEF ShakeInv, ShakeTypes
    <2>2. QED
      BY <1>1, <1>7, <1>9, <2>1 DEF ShakeInv, ClientInv
  <1>13. PlaceInv'
    BY <1>1, <1>6, NextStatusIs DEF ShakeInv, PlaceInv
  <1>14. RefusedInv'
    <2> SUFFICES ASSUME ~accepted
                 PROVE  /\ PlaceOf(status') >= 6 /\ connected => pc' = "authenticate"
                        /\ Len(answers') <= 3
      BY <1>1 DEF RefusedInv
    <2>1. (PlaceOf(status) >= 6 => ~connected) /\ Len(answers) <= 3
      BY DEF ShakeInv, RefusedInv
    <2>2. PlaceOf(status) = 5 => status = "Release"
      BY <1>2 DEF Waiting, PlaceOf
    <2>3. PlaceOf(status) <= 5 => GivenAt(status') <= 3
      BY <1>1, <1>2, NextStatusIs DEF Waiting, PlaceOf, GivenAt
    <2>4. PlaceOf(status) <= 5 => Len(answers') <= 3
      BY <1>6, <1>7, <1>9, <2>3 DEF AnswersInv
    <2>5. ~connected => answers' = answers
      BY <1>1
    <2>6. QED
      BY <1>1, <1>2, <1>6, <2>1, <2>2, <2>4, <2>5
  <1>15. QED
    BY <1>3, <1>9, <1>10, <1>11, <1>12, <1>13, <1>14 DEF ShakeInv

LEMMA ParseFixedStep == ShakeInv /\ ParseFixed => ShakeInv'
  <1> SUFFICES ASSUME ShakeInv, ParseFixed PROVE ShakeInv'
    OBVIOUS
  <1>1. /\ pc = "shake" /\ status \in {"C01", "C2"} /\ Len(buffer) >= 2 /\ Parsed(2)
    BY DEF ParseFixed, Fixed
  <1>2. Taken = 2 * (PlaceOf(status) - 1) /\ PlaceOf(status) \in 1 .. 2
    <2>1. PlaceOf(status) \in 1 .. 2
      BY <1>1 DEF PlaceOf
    <2>2. ~partial /\ Taken = 2 * (PlaceOf(status) - 1) + Part
      BY <1>1 DEF ShakeInv, DecoderInv
    <2>3. QED
      BY <2>1, <2>2 DEF Part
  <1>3. Taken + 2 = 2 * PlaceOf(status)
    BY <1>2
  <1>4. QED
    BY <1>1, <1>3, ParsedStep

LEMMA ParseMessageStep == ShakeInv /\ ParseMessage => ShakeInv'
  <1> SUFFICES ASSUME ShakeInv, ParseMessage PROVE ShakeInv'
    OBVIOUS
  <1>1. pc = "shake" /\ status # "Success" /\ Taken \in Nat /\ Len(buffer) \in Nat
    BY Bounds DEF ParseMessage
  <1>2. CASE partial
    <2>1. Len(buffer) >= 1 /\ Parsed(1)
      BY <1>2 DEF ParseMessage
    <2>2. Taken + 1 = 2 * PlaceOf(status)
      BY <1>1, <1>2, <2>1, HeadIs
    <2>3. QED
      BY <1>1, <2>1, <2>2, ParsedStep
  <1>3. CASE ~partial
    <2>1. Len(buffer) >= 2 /\ Head(buffer).half = 1 /\ Parsed(2)
      BY <1>3 DEF ParseMessage
    <2>2. Len(buffer) >= 1
      BY <1>1, <2>1
    <2>3. Taken + 2 = 2 * PlaceOf(status)
      BY <1>1, <1>3, <2>1, <2>2, HeadIs
    <2>4. QED
      BY <1>1, <2>1, <2>3, ParsedStep
  <1>4. QED
    BY <1>2, <1>3

LEMMA ParseC3Step == ShakeInv /\ ParseC3 => ShakeInv'
  <1> SUFFICES ASSUME ShakeInv, ParseC3 PROVE ShakeInv'
    OBVIOUS
  <1>1. /\ pc = "shake" /\ status = "CreateStream" /\ form = "c3" /\ ~partial /\ buffer # <<>>
        /\ Parsed(IF Len(buffer) >= 2 THEN 2 ELSE 1)
    BY DEF ParseC3, SkipsC3
  <1>2. /\ buffer \in Seq(Half) /\ Len(buffer) \in Nat
    BY DEF ShakeInv, ShakeTypes
  <1>3. Len(buffer) >= 1
    BY <1>1, <1>2
  <1>4. Taken = 12 /\ PlaceOf(status) = 7
    BY <1>1 DEF ShakeInv, DecoderInv, Part, PlaceOf
  <1>5. CASE Len(buffer) >= 2
    <2>1. Parsed(2) /\ Taken + 2 = 2 * PlaceOf(status)
      BY <1>1, <1>4, <1>5
    <2>2. QED
      BY <1>1, <1>5, <2>1, ParsedStep
  <1>6. CASE ~(Len(buffer) >= 2)
    <2>1. Parsed(1)
      BY <1>1, <1>6
    <2>2. QED
      BY <1>1, <1>3, <1>4, <2>1, ParsedStep
  <1>7. QED
    BY <1>5, <1>6

LEMMA ParsePartOfMessageStep == ShakeInv /\ ParsePartOfMessage => ShakeInv'
  <1> SUFFICES ASSUME ShakeInv, ParsePartOfMessage PROVE ShakeInv'
    OBVIOUS
  <1>1. /\ pc = "shake" /\ status \notin {"C01", "C2", "Success"} /\ ~partial
        /\ Len(buffer) = 1 /\ Head(buffer).half = 1
        /\ buffer' = <<>> /\ partial' = TRUE /\ pc' = "idle"
        /\ garbled' = (garbled \/ Head(buffer).msg # status)
        /\ UNCHANGED <<form, groups, awaits, got, left, toServer, answers, closed, accepted,
                       status, callback, connected, bound, parsed>>
    BY DEF ParsePartOfMessage, Fixed, clientVars
  <1>2. buffer \in Seq(Half)
    BY DEF ShakeInv, ShakeTypes
  <1>3. buffer' = SubSeq(buffer, 1 + 1, Len(buffer)) /\ 1 \in 0 .. Len(buffer)
    BY <1>1, <1>2
  <1>4. buffer' \in Seq(Half) /\ Taken' = Taken + 1 /\ StreamInv'
    BY <1>1, <1>3, TakenFromBuffer
  <1>5. /\ Taken = 2 * PlaceOf(status) - 2 /\ PlaceOf(status) \in 1 .. 8
        /\ Head(buffer).msg = status
    <2>1. Len(buffer) >= 1
      BY <1>1
    <2>2. Taken = 2 * PlaceOf(status) - 2 /\ PlaceOf(status) \in 1 .. 8
      BY <1>1, <2>1, HeadIs
    <2>3. QED
      BY <1>1, <2>1, <2>2, HeadIs
  <1>6. garbled' = garbled
    BY <1>1, <1>5 DEF ShakeInv, ShakeTypes
  <1>7. ShakeTypes'
    BY <1>1, <1>4, <1>6 DEF ShakeInv, ShakeTypes
  <1>8. DecoderInv'
    <2>1. Taken' = 2 * (PlaceOf(status) - 1) + 1
      BY <1>4, <1>5
    <2>2. status = "Publish" => Taken' = 15
      BY <2>1 DEF PlaceOf
    <2>3. QED
      BY <1>1, <1>6, <2>1, <2>2 DEF ShakeInv, DecoderInv, Part
  <1>9. AnswersInv' /\ ClientInv'
    BY <1>1 DEF ShakeInv, AnswersInv, ClientInv
  <1>10. PlaceInv' /\ RefusedInv'
    BY <1>1 DEF ShakeInv, PlaceInv, RefusedInv
  <1>11. QED
    BY <1>4, <1>7, <1>8, <1>9, <1>10 DEF ShakeInv

LEMMA ParseGarbageStep == ShakeInv /\ ParseGarbage => ShakeInv'
  <1> SUFFICES ASSUME ShakeInv, ParseGarbage PROVE ShakeInv'
    OBVIOUS
  <1>1. /\ pc = "shake" /\ status # "Success" /\ ~partial /\ buffer # <<>>
        /\ Head(buffer).half = 2 /\ garbled' = TRUE /\ buffer' = <<>> /\ pc' = "idle"
        /\ UNCHANGED <<form, groups, awaits, got, left, toServer, answers, closed, accepted,
                       status, partial, callback, connected, bound, parsed>>
    BY DEF ParseGarbage, clientVars
  <1>2. /\ buffer \in Seq(Half) /\ Len(buffer) \in Nat /\ Taken + Len(buffer) <= 16
    BY <1>1, Bounds DEF ShakeInv, ShakeTypes
  <1>3. Len(buffer) >= 1
    BY <1>1, <1>2
  <1>4. status = "Publish" /\ form = "c3" /\ Taken \in 13 .. 15
    BY <1>1, <1>3, HeadIs
  <1>5. buffer' = SubSeq(buffer, Len(buffer) + 1, Len(buffer)) /\ Len(buffer) \in 0 .. Len(buffer)
    BY <1>1, <1>2
  <1>6. buffer' \in Seq(Half) /\ Taken' = Taken + Len(buffer) /\ StreamInv'
    BY <1>1, <1>5, TakenFromBuffer
  <1>7. Taken' \in 13 .. 16
    BY <1>2, <1>4, <1>6
  <1>8. ShakeTypes'
    BY <1>1, <1>6 DEF ShakeInv, ShakeTypes
  <1>9. DecoderInv'
    BY <1>1, <1>4, <1>7 DEF ShakeInv, DecoderInv
  <1>10. AnswersInv' /\ ClientInv'
    BY <1>1 DEF ShakeInv, AnswersInv, ClientInv
  <1>11. PlaceInv' /\ RefusedInv'
    BY <1>1 DEF ShakeInv, PlaceInv, RefusedInv
  <1>12. QED
    BY <1>6, <1>8, <1>9, <1>10, <1>11 DEF ShakeInv

LEMMA OnBodyDataStep == ShakeInv /\ OnBodyData => ShakeInv'
  <1> SUFFICES ASSUME ShakeInv, OnBodyData PROVE ShakeInv'
    OBVIOUS
  <1>1. /\ pc = "body" /\ parsed' = parsed + Len(buffer) /\ buffer' = <<>> /\ pc' = "idle"
        /\ garbled' = (garbled \/ \E i \in DOMAIN buffer : buffer[i].msg # "Data")
        /\ UNCHANGED <<form, groups, awaits, got, left, toServer, answers, closed, accepted,
                       status, partial, callback, connected, bound>>
    BY DEF OnBodyData, clientVars
  <1>2. /\ buffer \in Seq(Half) /\ Len(buffer) \in Nat /\ DOMAIN buffer = 1 .. Len(buffer)
        /\ Taken \in Nat /\ parsed \in Nat /\ garbled \in BOOLEAN
    BY Bounds DEF ShakeInv, ShakeTypes
  <1>3. status = "Success" /\ Taken = 16 + parsed /\ (form # "c3" => ~garbled) /\ ~partial
    BY <1>1 DEF ShakeInv, PlaceInv, DecoderInv
  <1>4. buffer' = SubSeq(buffer, Len(buffer) + 1, Len(buffer)) /\ Len(buffer) \in 0 .. Len(buffer)
    BY <1>1, <1>2
  <1>5. buffer' \in Seq(Half) /\ Taken' = Taken + Len(buffer) /\ StreamInv'
    BY <1>1, <1>4, TakenFromBuffer
  <1>6. \A i \in DOMAIN buffer : buffer[i].msg = "Data"
    <2> SUFFICES ASSUME NEW i \in 1 .. Len(buffer) PROVE buffer[i].msg = "Data"
      BY <1>2
    <2>1. buffer[i] = StreamAt(Taken + i) /\ ~(Taken + i <= 16)
      BY <1>2, <1>3 DEF ShakeInv, StreamInv, Follows
    <2>2. QED
      BY <2>1 DEF StreamAt
  <1>7. garbled' = garbled
    BY <1>1, <1>2, <1>6
  <1>8. ShakeTypes'
    BY <1>1, <1>2, <1>5, <1>7 DEF ShakeInv, ShakeTypes
  <1>9. DecoderInv'
    BY <1>1, <1>2, <1>3, <1>5, <1>7 DEF DecoderInv
  <1>10. AnswersInv' /\ ClientInv'
    BY <1>1 DEF ShakeInv, AnswersInv, ClientInv
  <1>11. PlaceInv' /\ RefusedInv'
    BY <1>1, <1>3 DEF ShakeInv, PlaceInv, RefusedInv
  <1>12. QED
    BY <1>5, <1>8, <1>9, <1>10, <1>11 DEF ShakeInv

\* The steps that take nothing out of the buffer.
LEMMA QuietStep ==
  ASSUME ShakeInv,
         UNCHANGED <<form, groups, awaits, got, status, partial, parsed, garbled, toServer,
                     answers, buffer, accepted>>,
         \/ OnClose \/ DataNotEnough \/ Authenticate \/ ShakeSuccess
         \/ Leave \/ UNCHANGED shakeVars
  PROVE  ShakeInv'
  <1>1. Taken' = Taken
    BY DEF Taken
  <1>2. StreamInv' /\ DecoderInv' /\ ClientInv'
    BY <1>1 DEF ShakeInv, StreamInv, DecoderInv, Part, ClientInv
  <1>3. /\ ShakeTypes' /\ PlaceInv' /\ RefusedInv' /\ (connected' => connected)
    <2>1. CASE OnClose
      <3>1. /\ UNCHANGED <<form, groups, left, callback, bound, pc>>
            /\ closed' = TRUE /\ connected' = FALSE
        BY <2>1 DEF OnClose, clientVars
      <3>2. ShakeTypes'
        BY <3>1 DEF ShakeInv, ShakeTypes
      <3>3. PlaceInv' /\ RefusedInv'
        BY <3>1 DEF ShakeInv, PlaceInv, RefusedInv
      <3>4. QED
        BY <3>1, <3>2, <3>3
    <2>2. CASE DataNotEnough
      BY <2>2 DEF DataNotEnough, clientVars, serverVars, ShakeInv, ShakeTypes, PlaceInv,
                  RefusedInv
    <2>3. CASE Authenticate
      <3>1. /\ connected' = (connected /\ accepted) /\ pc' = "idle"
            /\ UNCHANGED <<left, callback, bound, closed>>
        BY <2>3 DEF Authenticate, clientVars
      <3>2. (connected' => connected) /\ (connected' => accepted)
        BY <3>1
      <3>3. connected' \in BOOLEAN
        BY <3>1
      <3>4. ShakeTypes'
        BY <3>1, <3>3 DEF ShakeInv, ShakeTypes
      <3>5. PlaceInv' /\ RefusedInv'
        BY <3>1, <3>2 DEF ShakeInv, PlaceInv, RefusedInv
      <3>6. QED
        BY <3>2, <3>4, <3>5
    <2>4. CASE ShakeSuccess
      BY <2>4 DEF ShakeSuccess, clientVars, ShakeInv, ShakeTypes, PlaceInv, RefusedInv
    <2>5. CASE Leave
      BY <2>5 DEF Leave, serverVars, ShakeInv, ShakeTypes, PlaceInv, RefusedInv
    <2>6. CASE UNCHANGED shakeVars
      BY <2>6 DEF shakeVars, clientVars, serverVars, ShakeInv, ShakeTypes, PlaceInv,
                  RefusedInv
    <2>7. QED
      BY <2>1, <2>2, <2>3, <2>4, <2>5, <2>6
  <1>4. AnswersInv'
    BY <1>3 DEF ShakeInv, AnswersInv
  <1>5. QED
    BY <1>2, <1>3, <1>4 DEF ShakeInv

LEMMA ShakeStep == ShakeInv /\ [ShakeNext]_(shakeVars) => ShakeInv'
  <1> SUFFICES ASSUME ShakeInv, [ShakeNext]_(shakeVars) PROVE ShakeInv'
    OBVIOUS
  <1> USE DEF clientVars, serverVars
  <1>1. CASE SendGroup
    BY <1>1, SendGroupStep
  <1>2. CASE ReadAnswer
    BY <1>2, ReadAnswerStep
  <1>3. CASE Leave
    BY <1>3, QuietStep DEF Leave
  <1>4. CASE ReadFromSockfd
    BY <1>4, ReadFromSockfdStep
  <1>5. CASE OnClose
    BY <1>5, QuietStep DEF OnClose
  <1>6. CASE ParseFixed
    BY <1>6, ParseFixedStep
  <1>7. CASE ParseMessage
    BY <1>7, ParseMessageStep
  <1>8. CASE ParsePartOfMessage
    BY <1>8, ParsePartOfMessageStep
  <1>9. CASE ParseC3
    BY <1>9, ParseC3Step
  <1>10. CASE ParseGarbage
    BY <1>10, ParseGarbageStep
  <1>11. CASE DataNotEnough
    BY <1>11, QuietStep DEF DataNotEnough
  <1>12. CASE Authenticate
    BY <1>12, QuietStep DEF Authenticate
  <1>13. CASE ShakeSuccess
    BY <1>13, QuietStep DEF ShakeSuccess
  <1>14. CASE OnBodyData
    BY <1>14, OnBodyDataStep
  <1>15. CASE Closed \/ UNCHANGED shakeVars
    BY <1>15, QuietStep DEF Closed, shakeVars
  <1>16. QED
    BY <1>1, <1>2, <1>3, <1>4, <1>5, <1>6, <1>7, <1>8, <1>9, <1>10, <1>11, <1>12, <1>13, <1>14,
       <1>15 DEF ShakeNext, Handler, Client

LEMMA ShakeInductive == ShakeSpec => []ShakeInv
  <1>1. ShakeInit => ShakeInv
    BY ShakeStarts
  <1>2. ShakeInv /\ [ShakeNext]_(shakeVars) => ShakeInv'
    BY ShakeStep
  <1>3. QED
    BY <1>1, <1>2, PTL DEF ShakeSpec

LEMMA PlaceIs == \A s \in Waiting \cup {"Success"} : Place(s) = PlaceOf(s)
  <1>1. \A i, j \in 1 .. 8 : Messages[i] = Messages[j] => i = j
    BY DEF Messages
  <1>2. DOMAIN Messages = 1 .. 8 /\ Len(Messages) = 8
    BY DEF Messages
  <1>3. \A i \in 1 .. 8 : Messages[i] # "Success"
    BY DEF Messages
  <1>4. ASSUME NEW s \in Waiting PROVE Place(s) = PlaceOf(s)
    <2>1. PlaceOf(s) \in 1 .. 8 /\ Messages[PlaceOf(s)] = s
      BY MessagesAre
    <2>2. (CHOOSE i \in DOMAIN Messages : Messages[i] = s) = PlaceOf(s)
      BY <1>1, <1>2, <2>1
    <2>3. s # "Success"
      BY DEF Waiting
    <2>4. QED
      BY <2>2, <2>3, Zenon DEF Place
  <1>5. Place("Success") = PlaceOf("Success")
    BY <1>2 DEF Place, PlaceOf
  <1>6. QED
    BY <1>4, <1>5

LEMMA DoneIs ==
  /\ Done5[1] = "C01" /\ Done5[2] = "C2" /\ Done5[3] = "Connect"
  /\ Done5[4] = "CreateStream" /\ Done5[5] = "Publish"
  <1>1. /\ Script[1].msgs = <<"C01">> /\ Script[2].msgs = <<"C2">>
        /\ Script[3].msgs = <<"SetChunkSize", "Connect">>
        /\ Script[4].msgs = <<"Release", "FCPublish", "CreateStream">>
        /\ Script[5].msgs = <<"Publish">>
    BY DEF Script
  <1>2. \A i \in 1 .. 5 : Done5[i] = Script[i].msgs[Len(Script[i].msgs)]
    BY DEF Done5
  <1>3. /\ Len(Script[1].msgs) = 1 /\ Len(Script[2].msgs) = 1 /\ Len(Script[3].msgs) = 2
        /\ Len(Script[4].msgs) = 3 /\ Len(Script[5].msgs) = 1
    BY <1>1
  <1>4. /\ Done5[1] = Script[1].msgs[1] /\ Done5[2] = Script[2].msgs[1]
        /\ Done5[3] = Script[3].msgs[2] /\ Done5[4] = Script[4].msgs[3]
        /\ Done5[5] = Script[5].msgs[1]
    <2>1. 1 \in 1 .. 5 /\ 2 \in 1 .. 5 /\ 3 \in 1 .. 5 /\ 4 \in 1 .. 5 /\ 5 \in 1 .. 5
      OBVIOUS
    <2>2. /\ Done5[1] = Script[1].msgs[Len(Script[1].msgs)]
          /\ Done5[2] = Script[2].msgs[Len(Script[2].msgs)]
          /\ Done5[3] = Script[3].msgs[Len(Script[3].msgs)]
          /\ Done5[4] = Script[4].msgs[Len(Script[4].msgs)]
          /\ Done5[5] = Script[5].msgs[Len(Script[5].msgs)]
      BY <1>2, <2>1, Zenon
    <2>3. QED
      BY <1>3, <2>2, Zenon
  <1>5. QED
    BY <1>1, <1>4

\* The answers of the shake hand come in the order of the protocol, each once
\* and only after the last message of its group was taken whole, however TCP
\* cuts the stream and whenever the broadcaster leaves
\* (RtmpPushConnection::ShakeHand, RtmpManager::ParseShakeHand).
THEOREM AnswersCorrect == ShakeSpec => []AnswersFollowMessages
  <1>1. ShakeInv => AnswersFollowMessages
    <2> SUFFICES ASSUME ShakeInv PROVE AnswersFollowMessages
      OBVIOUS
    <2>1. /\ answers \in Seq(Given) /\ Len(answers) \in Nat /\ DOMAIN answers = 1 .. Len(answers)
          /\ Len(answers) <= 5 /\ Len(answers) <= GivenAt(status)
          /\ status \in Waiting \cup {"Success"}
      BY Bounds DEF ShakeInv, ShakeTypes, AnswersInv
    <2>2. Answers \in Seq(Given) /\ Len(Answers) = 5
      BY DEF Answers, Script, Given
    <2>3. IsPrefix(answers, Answers)
      <3>1. /\ SubSeq(answers, 1, Len(answers)) = answers
            /\ SubSeq(Answers, 1, Len(answers)) \in Seq(Given)
            /\ Len(SubSeq(Answers, 1, Len(answers))) = Len(answers)
            /\ \A i \in 1 .. Len(answers) : SubSeq(Answers, 1, Len(answers))[i] = Answers[i]
        BY <2>1, <2>2
      <3>2. \A i \in 1 .. Len(answers) : answers[i] = Answers[i]
        BY DEF ShakeInv, AnswersInv
      <3>3. answers = SubSeq(Answers, 1, Len(answers))
        BY <2>1, <3>1, <3>2, SeqEqual
      <3>4. QED
        BY <2>1, <2>2, <3>1, <3>3 DEF IsPrefix
    <2>4. ASSUME NEW i \in DOMAIN answers
          PROVE  Place(status) > Place(Done5[i])
      <3>1. i \in 1 .. 5 /\ i <= GivenAt(status)
        <4>1. GivenAt(status) \in 0 .. 5
          BY <2>1 DEF GivenAt, Waiting
        <4>2. i \in Nat /\ 1 <= i /\ i <= Len(answers)
          BY <2>1, <2>4
        <4>3. QED
          BY <2>1, <4>1, <4>2
      <3>2. Place(status) = PlaceOf(status) /\ Place(Done5[i]) = PlaceOf(Done5[i])
        BY <2>1, <3>1, PlaceIs, DoneIs DEF Waiting
      <3>3. PlaceOf(Done5[i]) = <<1, 2, 4, 7, 8>>[i]
        BY <3>1, DoneIs DEF PlaceOf
      <3>4. PlaceOf(status) > <<1, 2, 4, 7, 8>>[i]
        BY <2>1, <3>1 DEF PlaceOf, GivenAt, Waiting
      <3>5. QED
        BY <3>2, <3>3, <3>4
    <2>5. QED
      BY <2>3, <2>4 DEF AnswersFollowMessages
  <1>2. QED
    BY <1>1, ShakeInductive, PTL

\* Whom the authentication callback refuses never enters the room map
\* (OnConnectionShakeHand).
THEOREM AcceptedCorrect == ShakeSpec => []OnlyAcceptedIsBound
  <1>1. ShakeInv => OnlyAcceptedIsBound
    <2> SUFFICES ASSUME ShakeInv, bound PROVE accepted
      BY DEF OnlyAcceptedIsBound
    <2>1. /\ status = "Success" /\ Taken \in Nat /\ Len(buffer) \in Nat /\ groups \in Nat
          /\ Len(toServer) \in Nat /\ Len(answers) \in Nat /\ got \in Nat
          /\ Taken + Len(buffer) + Len(toServer) = HalvesOf(groups)
      BY Bounds DEF ShakeInv, ShakeTypes, PlaceInv
    <2>2. Taken >= 16
      BY <2>1 DEF ShakeInv, ShakeTypes, DecoderInv
    <2>3. groups >= 5
      <3>1. HalvesOf(groups) \in Nat /\ HalvesOf(groups) >= 16
        BY <2>1, <2>2, HalvesOfIs
      <3>2. QED
        BY <2>1, <3>1, HalvesOfIs
    <2>4. got >= 4
      BY <2>1, <2>3 DEF ShakeInv, ClientInv
    <2>5. Len(answers) >= 4
      BY <2>1, <2>4 DEF ShakeInv, ClientInv
    <2>6. QED
      BY <2>1, <2>5 DEF ShakeInv, RefusedInv
  <1>2. QED
    BY <1>1, ShakeInductive, PTL

\* The decoder takes nothing for what it is not, but after the 26 bytes that are
\* skipped for a createStream that begins with 0xc3 (ParseShakeHand).
THEOREM InStepCorrect == ShakeSpec => []InStep
  <1>1. ShakeInv => InStep
    BY DEF ShakeInv, DecoderInv, InStep
  <1>2. QED
    BY <1>1, ShakeInductive, PTL

-----------------------------------------------------------------------------
(* Nobody waits for the other *)

\* The broadcaster and the server never wait for each other: when the broadcaster
\* waits for an answer, has read all that was sent to it, and the server has read
\* all there is, then it was refused, left behind, or the stream was broken
\* (ParseShakeHand, OnConnectionShakeHand).
NobodyWaits ==
  awaits # None /\ ~left /\ got = Len(answers) /\ toServer = <<>> /\ pc = "idle"
    => (garbled /\ form = "c3") \/ (awaits = "Result" /\ (~accepted \/ LeftBehind))

\* Once a broadcaster is in the room map, everything that arrived has been parsed
\* as data whenever the handler has returned: the callback was replaced neither too
\* early nor too late, and nothing stays in the buffer between the two
\* (OnConnectionShakeHand, OnBodyData).
NoDataWaits ==
  bound /\ pc = "idle" /\ toServer = <<>> => parsed = 2 * (groups - Len(Script))

\* When the handler has returned, nothing it could use is left in the buffer, but
\* after the authentication; and only a broadcaster that left, or was refused, is
\* not connected.
Refused == ~accepted /\ PlaceOf(status) >= 6
QuietInv ==
  /\ pc = "idle" => \/ Len(buffer) = 0
                    \/ status \in {"C01", "C2"} /\ Len(buffer) < 2
                    \/ status = "FCPublish" /\ ~partial
  /\ pc = "authenticate" => ~partial
  /\ pc = "shake" => callback = "shake"
  /\ callback = "shake" /\ status = "Success" => pc = "shake" /\ Len(buffer) = 0
  /\ connected \/ left \/ Refused

\* A message was taken: behind the last one the buffer is empty.
LEMMA ParsedQuiet ==
  ASSUME ShakeInv, ShakeInv', QuietInv, pc = "shake", status # "Success",
         NEW n \in 1 .. 2, Parsed(n)
  PROVE  QuietInv'
  <1>1. /\ UNCHANGED <<groups, left, toServer, accepted, callback, connected, parsed>>
        /\ partial' = FALSE /\ status' = NextStatus(status)
        /\ pc' = IF status = "Release" THEN "authenticate" ELSE "shake"
    BY DEF Parsed, clientVars
  <1>2. status \in Waiting /\ callback = "shake" /\ (connected \/ left \/ Refused)
    BY DEF ShakeInv, ShakeTypes, QuietInv
  <1>3. PlaceOf(status) \in 1 .. 8 /\ PlaceOf(status') = PlaceOf(status) + 1
    BY <1>1, <1>2, MessagesAre
  <1>4. Refused => Refused'
    BY <1>1, <1>3 DEF Refused
  <1>5. ASSUME status' = "Success" PROVE pc' = "shake" /\ Len(buffer') = 0
    <2>1. /\ Taken \in Nat /\ Len(buffer) \in Nat /\ Len(toServer) \in Nat
          /\ Taken + Len(buffer) <= 16
          /\ Taken + Len(buffer) + Len(toServer) = HalvesOf(groups)
      BY Bounds
    <2>2. Len(buffer') \in Nat /\ HalvesOf(groups) \in Nat
      <3>1. groups \in Nat /\ buffer' \in Seq(Half)
        BY DEF ShakeInv, ShakeTypes
      <3>2. Len(buffer') \in Nat
        BY <3>1
      <3>3. QED
        BY <3>1, <3>2, HalvesOfIs, Zenon
    <2>3. Taken' = HalvesOf(groups) - Len(buffer') - Len(toServer)
      BY <1>1 DEF Taken
    <2>4. parsed = 0
      BY DEF ShakeInv, DecoderInv
    <2>5. Taken' = 16
      BY <1>1, <1>5, <2>4 DEF ShakeInv, DecoderInv
    <2>6. Len(buffer') = 0
      BY <2>1, <2>2, <2>3, <2>5
    <2>7. status # "Release"
      BY <1>1, <1>5, NextStatusIs
    <2>8. QED
      BY <1>1, <2>6, <2>7
  <1>6. pc' # "idle" /\ (pc' = "authenticate" => ~partial') /\ callback' = "shake"
    BY <1>1, <1>2
  <1>7. connected' \/ left' \/ Refused'
    BY <1>1, <1>2, <1>4
  <1>8. QED
    BY <1>5, <1>6, <1>7 DEF QuietInv

\* The steps that do not change the buffer.
LEMMA QuietSameBuffer ==
  ASSUME ShakeInv, QuietInv, UNCHANGED <<buffer, status, partial, accepted>>,
         \/ OnClose \/ DataNotEnough \/ Authenticate \/ ShakeSuccess
         \/ Leave \/ SendGroup \/ ReadAnswer \/ UNCHANGED shakeVars
  PROVE  QuietInv'
  <1>1. Refused' = Refused
    BY DEF Refused
  <1> USE DEF clientVars, serverVars
  <1>2. CASE OnClose
    BY <1>1, <1>2 DEF OnClose, QuietInv
  <1>3. CASE DataNotEnough
    <2>1. buffer = <<>> => Len(buffer) = 0
      OBVIOUS
    <2>2. QED
      BY <1>1, <1>3, <2>1 DEF DataNotEnough, Fixed, QuietInv
  <1>4. CASE Authenticate
    <2>1. /\ connected' = (connected /\ accepted) /\ pc' = "idle" /\ pc = "authenticate"
          /\ UNCHANGED <<left, callback>>
      BY <1>4 DEF Authenticate
    <2>2. status = "FCPublish" /\ ~partial
      BY <2>1 DEF ShakeInv, PlaceInv, QuietInv
    <2>3. PlaceOf(status) = 6
      BY <2>2 DEF PlaceOf
    <2>4. connected' \/ left' \/ Refused'
      <3>1. accepted \/ Refused
        BY <2>3 DEF Refused
      <3>2. connected \/ left \/ Refused
        BY DEF QuietInv
      <3>3. QED
        BY <1>1, <2>1, <3>1, <3>2
    <2>5. QED
      BY <2>1, <2>2, <2>4 DEF QuietInv
  <1>5. CASE ShakeSuccess
    BY <1>1, <1>5 DEF ShakeSuccess, QuietInv
  <1>6. CASE Leave
    BY <1>1, <1>6 DEF Leave, QuietInv
  <1>7. CASE SendGroup \/ ReadAnswer
    BY <1>1, <1>7 DEF SendGroup, ReadAnswer, QuietInv
  <1>8. CASE UNCHANGED shakeVars
    BY <1>1, <1>8 DEF shakeVars, QuietInv
  <1>9. QED
    BY <1>2, <1>3, <1>4, <1>5, <1>6, <1>7, <1>8

\* The steps that leave nothing in the buffer.
LEMMA QuietEmptied ==
  ASSUME ShakeInv, QuietInv,
         ParsePartOfMessage \/ ParseGarbage \/ OnBodyData
  PROVE  QuietInv'
  <1>1. /\ buffer' = <<>> /\ pc' = "idle"
        /\ UNCHANGED <<status, callback, connected, left, accepted>>
    BY DEF ParsePartOfMessage, ParseGarbage, OnBodyData, clientVars
  <1>2. Len(buffer') = 0 /\ Refused' = Refused
    BY <1>1 DEF Refused
  <1>3. ~(callback = "shake" /\ status = "Success")
    BY DEF ParsePartOfMessage, ParseGarbage, OnBodyData, ShakeInv, PlaceInv
  <1>4. QED
    BY <1>1, <1>2, <1>3 DEF QuietInv

LEMMA QuietStepInv == ShakeInv /\ ShakeInv' /\ QuietInv /\ [ShakeNext]_(shakeVars) => QuietInv'
  <1> SUFFICES ASSUME ShakeInv, ShakeInv', QuietInv, [ShakeNext]_(shakeVars) PROVE QuietInv'
    OBVIOUS
  <1>1. CASE ReadFromSockfd
    <2>1. /\ UNCHANGED <<status, callback, connected, left, accepted>>
          /\ pc = "idle" /\ pc' = callback
      BY <1>1 DEF ReadFromSockfd, clientVars, serverVars
    <2>2. callback \in {"shake", "body"} /\ ~(callback = "shake" /\ status = "Success")
      BY <2>1 DEF ShakeInv, ShakeTypes, QuietInv
    <2>3. Refused' = Refused
      BY <2>1 DEF Refused
    <2>4. QED
      BY <2>1, <2>2, <2>3 DEF QuietInv
  <1>2. CASE ParseFixed \/ ParseMessage \/ ParseC3
    <2>1. /\ pc = "shake" /\ status # "Success"
          /\ Parsed(1) \/ Parsed(2)
      BY <1>2 DEF ParseFixed, Fixed, ParseMessage, ParseC3, SkipsC3
    <2>2. QED
      BY <2>1, ParsedQuiet
  <1>3. CASE ParsePartOfMessage \/ ParseGarbage \/ OnBodyData
    BY <1>3, QuietEmptied
  <1>4. CASE \/ OnClose \/ DataNotEnough \/ Authenticate \/ ShakeSuccess
             \/ Leave \/ SendGroup \/ ReadAnswer \/ UNCHANGED shakeVars
    <2>1. UNCHANGED <<buffer, status, partial, accepted>>
      BY <1>4 DEF OnClose, DataNotEnough, Authenticate, ShakeSuccess, Leave,
                  SendGroup, ReadAnswer, shakeVars, serverVars
    <2>2. QED
      BY <1>4, <2>1, QuietSameBuffer
  <1>5. QED
    BY <1>1, <1>2, <1>3, <1>4 DEF ShakeNext, Handler, Client, Closed

LEMMA QuietInductive == ShakeSpec => []QuietInv
  <1>1. ShakeInit => QuietInv
    <2> SUFFICES ASSUME ShakeInit PROVE QuietInv
      OBVIOUS
    <2>1. Len(buffer) = 0
      BY DEF ShakeInit
    <2>2. QED
      BY <2>1 DEF ShakeInit, QuietInv
  <1>2. QED
    BY <1>1, QuietStepInv, ShakeInductive, PTL DEF ShakeSpec

\* What is left behind is what is left of the fourth group.
LEMMA LeftBehindIs ==
  ASSUME buffer \in Seq(Half), Len(buffer) = 4, Follows(buffer, 10)
  PROVE  buffer = Halves(<<"FCPublish", "CreateStream">>)
  <1> DEFINE msgs == <<"FCPublish", "CreateStream">>
  <1>1. msgs \in Seq(Waiting \cup {"Data"}) /\ Len(msgs) = 2 /\ 5 \in Nat
    BY DEF Waiting
  <1>2. \A j \in 1 .. Len(msgs) : msgs[j] = IF 5 + j <= 8 THEN Messages[5 + j] ELSE "Data"
    BY DEF Messages
  <1>3. /\ Halves(msgs) \in Seq(Half) /\ Len(Halves(msgs)) = 2 * 2
        /\ Follows(Halves(msgs), 2 * 5)
    BY <1>1, <1>2, HalvesFollow
  <1>4. \A i \in 1 .. 4 : buffer[i] = Halves(msgs)[i]
    BY <1>3 DEF Follows
  <1> HIDE DEF msgs
  <1>5. QED
    BY <1>3, <1>4, SeqEqual DEF msgs

\* The broadcaster and the server never wait for each other, however TCP cuts the
\* stream: a broadcaster without its answer was refused, left behind by the
\* authentication, or its stream was broken by the skipped bytes of a createStream
\* that begins with 0xc3 (ParseShakeHand, OnConnectionShakeHand).
THEOREM NobodyWaitsCorrect == ShakeSpec => []NobodyWaits
  <1>1. ShakeInv /\ QuietInv => NobodyWaits
    <2> SUFFICES ASSUME ShakeInv, QuietInv, awaits # "none", ~left, got = Len(answers),
                        toServer = <<>>, pc = "idle"
                 PROVE  \/ garbled /\ form = "c3"
                        \/ awaits = "Result" /\ (~accepted \/ LeftBehind)
      BY DEF NobodyWaits, None
    <2>1. /\ Len(buffer) \in Nat /\ Len(answers) \in Nat /\ Taken \in Nat /\ groups \in Nat
          /\ buffer \in Seq(Half) /\ Len(toServer) = 0 /\ status \in Waiting \cup {"Success"}
          /\ GivenAt(status) \in 0 .. 5
          /\ Taken + Len(buffer) + Len(toServer) = HalvesOf(groups)
      BY Bounds DEF ShakeInv, ShakeTypes
    <2>2. groups \in 1 .. 5 /\ awaits = Answers[groups] /\ Len(answers) = groups - 1
      BY <2>1 DEF ShakeInv, ClientInv
    <2>3. Taken + Len(buffer) = IF groups = 1 THEN 2 ELSE IF groups = 2 THEN 4
                                ELSE IF groups = 3 THEN 8 ELSE IF groups = 4 THEN 14 ELSE 16
      BY <2>1, <2>2 DEF HalvesOf
    <2>4. Answers[4] = "Result"
      BY AnswersAre
    <2>5. CASE Refused
      <3>1. ~accepted /\ Len(answers) <= 3 /\ status \in {"FCPublish", "CreateStream", "Publish", "Success"}
        BY <2>1, <2>5 DEF Refused, ShakeInv, RefusedInv, PlaceOf, Waiting
      <3>2. Taken >= 10
        BY <2>1, <3>1 DEF ShakeInv, ShakeTypes, DecoderInv, PlaceOf, Part
      <3>3. groups = 4
        BY <2>1, <2>2, <2>3, <3>1, <3>2
      <3>4. QED
        BY <2>2, <2>4, <3>1, <3>3
    <2>6. CASE connected
      <3>1. GivenAt(status) = groups - 1
        BY <2>2, <2>6 DEF ShakeInv, AnswersInv
      <3>2. CASE status = "FCPublish" /\ ~partial
        <4>1. Taken = 10 /\ groups = 4
          BY <2>2, <3>1, <3>2 DEF ShakeInv, DecoderInv, PlaceOf, Part, GivenAt
        <4>2. Len(buffer) = 4 /\ Follows(buffer, 10)
          <5>1. Taken + Len(buffer) = 14 /\ Len(buffer) \in Nat
            BY <2>1, <2>3, <4>1
          <5>2. Len(buffer) = 4
            <6>1. Len(buffer) \in Nat /\ 10 + Len(buffer) = 14
              BY <4>1, <5>1
            <6>2. QED
              BY <6>1, FourLeft, Zenon
          <5>3. Follows(buffer, 10)
            BY <4>1 DEF ShakeInv, StreamInv
          <5>4. QED
            BY <5>2, <5>3
        <4>3. LeftBehind
          BY <2>1, <3>2, <4>2, LeftBehindIs DEF LeftBehind
        <4>4. QED
          BY <2>2, <2>4, <4>1, <4>3
      <3>3. CASE status = "Publish"
        <4>1. groups = 5
          BY <2>2, <3>1, <3>3 DEF GivenAt
        <4>2. Len(buffer) = 0 /\ Taken = 16
          BY <2>1, <2>3, <3>3, <4>1 DEF QuietInv
        <4>3. QED
          BY <3>3, <4>2 DEF ShakeInv, DecoderInv, Part
      <3>4. CASE status \notin {"FCPublish", "Publish"} \/ (status = "FCPublish" /\ partial)
        <4>1. status # "Success"
          BY <2>2, <3>1 DEF GivenAt
        <4>2. Taken = 2 * (PlaceOf(status) - 1) + Part /\ (status \in {"C01", "C2"} => ~partial)
          BY <3>4, <4>1 DEF ShakeInv, DecoderInv
        <4>3. Len(buffer) = 0 \/ (status \in {"C01", "C2"} /\ Len(buffer) < 2)
          BY <3>4 DEF QuietInv
        <4>4. FALSE
          BY <2>1, <2>2, <2>3, <3>1, <3>4, <4>1, <4>2, <4>3
          DEF Waiting, PlaceOf, GivenAt, Part
        <4>5. QED
          BY <4>4
      <3>5. QED
        BY <3>2, <3>3, <3>4
    <2>7. QED
      BY <2>5, <2>6 DEF QuietInv
  <1>2. QED
    BY <1>1, ShakeInductive, QuietInductive, PTL

\* When the handler of a bound broadcaster has returned, all that arrived was parsed
\* as data, for any number of pieces and however TCP cuts them
\* (OnConnectionShakeHand, OnBodyData).
THEOREM NoDataWaitsCorrect == ShakeSpec => []NoDataWaits
  <1>1. ShakeInv /\ QuietInv => NoDataWaits
    <2> SUFFICES ASSUME ShakeInv, QuietInv, bound, pc = "idle", toServer = <<>>
                 PROVE  parsed = 2 * (groups - Len(Script))
      BY DEF NoDataWaits
    <2>1. /\ Len(buffer) \in Nat /\ groups \in Nat /\ parsed \in Nat /\ Len(toServer) = 0
          /\ Taken + Len(buffer) + Len(toServer) = HalvesOf(groups)
      BY Bounds DEF ShakeInv, ShakeTypes
    <2>2. status = "Success" /\ Len(buffer) = 0
      BY DEF ShakeInv, PlaceInv, QuietInv
    <2>3. Taken = 16 + parsed
      BY <2>2 DEF ShakeInv, DecoderInv
    <2>4. HalvesOf(groups) = 16 + parsed
      BY <2>1, <2>2, <2>3 DEF Taken
    <2>5. groups >= 5 /\ HalvesOf(groups) = 2 * groups + 6
      BY <2>1, <2>4 DEF HalvesOf
    <2>6. Len(Script) = 5
      BY DEF Script
    <2>7. QED
      BY <2>1, <2>4, <2>5, <2>6
  <1>2. QED
    BY <1>1, ShakeInductive, QuietInductive, PTL

-----------------------------------------------------------------------------
(* Types *)

\* What is chosen at the beginning stays, and only MaxData pieces are sent.
ChosenInv ==
  form \in CreateForms /\ accepted \in Accepted /\ groups <= 5 + MaxData

LEMMA ChosenStep == ShakeInv /\ ChosenInv /\ [ShakeNext]_shakeVars => ChosenInv'
  <1> SUFFICES ASSUME ShakeInv, ChosenInv, [ShakeNext]_shakeVars PROVE ChosenInv'
    OBVIOUS
  <1>1. groups \in Nat /\ MaxData \in Nat /\ Len(Script) = 5
    BY ConstantsAssumption DEF ShakeInv, ShakeTypes, Script
  <1>2. CASE SendGroup
    BY <1>1, <1>2 DEF SendGroup, ChosenInv
  <1>3. CASE UNCHANGED <<form, accepted, groups>>
    BY <1>3 DEF ChosenInv
  <1>4. SendGroup \/ UNCHANGED <<form, accepted, groups>>
    BY DEF ShakeNext, Handler, Client, Closed, ReadFromSockfd, OnClose, ParseFixed,
           ParseMessage, ParsePartOfMessage, ParseC3, ParseGarbage, DataNotEnough,
           Authenticate, ShakeSuccess, OnBodyData, ReadAnswer, Leave, Parsed,
           shakeVars, clientVars, serverVars
  <1>5. QED
    BY <1>2, <1>3, <1>4

\* The types of the shake hand; no more data is parsed than was sent, and no more
\* answers are read than were given.
THEOREM ShakeTypeCorrect == ShakeSpec => []ShakeTypeOK
  <1>1. ShakeInit => ChosenInv
    BY ConstantsAssumption DEF ShakeInit, ChosenInv
  <1>2. ShakeInv /\ ChosenInv => ShakeTypeOK
    <2> SUFFICES ASSUME ShakeInv, ChosenInv PROVE ShakeTypeOK
      OBVIOUS
    <2>1. /\ groups \in Nat /\ got \in Nat /\ parsed \in Nat /\ MaxData \in Nat
          /\ Len(buffer) \in Nat /\ Len(toServer) \in Nat /\ Len(answers) \in Nat
          /\ Taken \in Nat /\ Taken + Len(buffer) + Len(toServer) = HalvesOf(groups)
          /\ Len(Script) = 5
      BY Bounds, ConstantsAssumption DEF ShakeInv, ShakeTypes, Script
    <2>2. parsed <= 2 * MaxData
      <3>1. CASE status # "Success"
        BY <2>1, <3>1 DEF ShakeInv, DecoderInv
      <3>2. CASE status = "Success"
        <4>1. Taken = 16 + parsed
          BY <3>2 DEF ShakeInv, DecoderInv
        <4>2. HalvesOf(groups) >= 16 + parsed
          BY <2>1, <4>1
        <4>3. groups >= 5 /\ HalvesOf(groups) = 2 * groups + 6
          BY <2>1, <4>2 DEF HalvesOf
        <4>4. groups <= 5 + MaxData
          BY DEF ChosenInv
        <4>5. QED
          BY <2>1, <4>2, <4>3, <4>4
      <3>3. QED
        BY <3>1, <3>2
    <2>3. awaits \in {None} \cup Range(Answers)
      <3>1. awaits = "none" \/ (groups \in 1 .. 5 /\ awaits = Answers[groups])
        BY DEF ShakeInv, ClientInv
      <3>2. DOMAIN Answers = 1 .. 5
        BY DEF Answers
      <3>3. QED
        BY <3>1, <3>2 DEF Range, None
    <2>4. status \in Range(Messages) \cup {"Success"}
      <3>1. DOMAIN Messages = 1 .. 8
        BY DEF Messages
      <3>2. status # "Success" => PlaceOf(status) \in 1 .. 8 /\ Messages[PlaceOf(status)] = status
        BY MessagesAre DEF ShakeInv, ShakeTypes
      <3>3. QED
        BY <3>1, <3>2 DEF Range
    <2>5. got \in 0 .. Len(answers) /\ groups \in 0 .. Len(Script) + MaxData
      BY <2>1 DEF ShakeInv, ClientInv, ChosenInv
    <2>6. QED
      BY <2>1, <2>2, <2>3, <2>4, <2>5 DEF ShakeInv, ShakeTypes, ChosenInv, ShakeTypeOK
  <1>3. QED
    BY <1>1, <1>2, ChosenStep, ShakeInductive, PTL DEF ShakeSpec

=============================================================================
