-------------------------- MODULE RtmpCodec_proofs --------------------------
(***************************************************************************)
(* Proofs about RtmpCodec: however TCP cuts the stream, the decoder puts   *)
(* the messages together, for messages of every size and number, every     *)
(* length of headers and chunks, and every capacity of the receive buffer. *)
(***************************************************************************)
EXTENDS RtmpCodec, SequenceTheorems, TLAPS

USE DEF Fmts

\* The sequence r from place i on: the body of message n goes on behind its
\* byte a, for len bytes.
BodyAt(r, i, n, a, len) ==
  /\ i + len <= Len(r) + 1
  /\ \A d \in 0 .. len - 1 :
       r[i + d] = [part |-> "body", msg |-> n, at |-> a + d + 1]

\* At place i of r the chunk of message n behind its byte a begins, or r ends
\* there and this is the chunk that is sent next: s are the messages, of the
\* last of which p bytes have passed.
ChunkNext(r, i, n, a, s, p) ==
  \/ /\ i \in 1 .. Len(r)
     /\ r[i].part = "header" /\ r[i].at = 1 /\ r[i].msg = n /\ r[i].from = a
  \/ /\ i = Len(r) + 1
     /\ IF p = 0 THEN n = Len(s) + 1 /\ a = 0 ELSE n = Len(s) /\ a = p

\* The chunk behind byte a of message n, and what comes after it.
IsLast(s, n, a) == ~(a + ChunkSize < s[n].size)
BodyLen(s, n, a) == IF IsLast(s, n, a) THEN s[n].size - a ELSE ChunkSize
AfterMsg(s, n, a) == IF IsLast(s, n, a) THEN n + 1 ELSE n
AfterByte(s, n, a) == IF IsLast(s, n, a) THEN 0 ELSE a + ChunkSize

WholeChunk(r, i, n, a, fmt, s, p) ==
  /\ n \in 1 .. Len(s) /\ a \in Nat /\ a < s[n].size /\ fmt \in Fmts
  /\ fmt \in {0, 1} => r[i].kind = s[n]
  /\ fmt \in {2, 3} /\ a = 0 => n > 1 /\ s[n - 1] = s[n]
  /\ BodyAt(r, i + HeaderLen[fmt], n, a, BodyLen(s, n, a))
  /\ ChunkNext(r, i + HeaderLen[fmt] + BodyLen(s, n, a), AfterMsg(s, n, a),
               AfterByte(s, n, a), s, p)

\* Where a chunk begins, all of it follows.
InChunks(r, s, p) ==
  \A i \in 1 .. Len(r) :
    r[i].part = "header" /\ r[i].at = 1 =>
      WholeChunk(r, i, r[i].msg, r[i].from, r[i].fmt, s, p)

SenderInv == passed # 0 => sent # <<>> /\ passed < Last(sent).size

\* What is read and not decoded, and what is not read.
Rest == buffer \o wire

Want(pack) == IF ChunkOver(pack) THEN Remain(pack) ELSE ChunkSize - readChunk

\* The pack is the part that was decoded of the message after the finished
\* ones, and the rest of its chunk is in r from place i on.
InBody(r, i, pack) ==
  /\ Len(finished) < Len(sent)
  /\ pack.type = sent[Len(finished) + 1].type
  /\ pack.size = sent[Len(finished) + 1].size
  /\ pack.body = BodyBytes(Len(finished) + 1, 0, Len(pack.body))
  /\ Want(pack) > 0
  /\ ChunkOver(pack) \/ Len(pack.body) + Want(pack) < pack.size
  /\ BodyAt(r, i, Len(finished) + 1, Len(pack.body), Want(pack))
  /\ ChunkNext(r, i + Want(pack),
               IF ChunkOver(pack) THEN Len(finished) + 2 ELSE Len(finished) + 1,
               IF ChunkOver(pack) THEN 0 ELSE Len(pack.body) + Want(pack),
               sent, passed)

\* Between two chunks.
AtHeader ==
  /\ readChunk = 0
  /\ ChunkNext(Rest, 1, Len(finished) + 1, Len(current.body), sent, passed)
  /\ current.body = BodyBytes(Len(finished) + 1, 0, Len(current.body))
  /\ IF Len(current.body) = 0
       THEN Len(finished) > 0 => /\ current.type = sent[Len(finished)].type
                                 /\ current.size = sent[Len(finished)].size
       ELSE /\ Len(finished) < Len(sent)
            /\ current.type = sent[Len(finished) + 1].type
            /\ current.size = sent[Len(finished) + 1].size
            /\ Len(current.body) < current.size

DecoderInv ==
  IF packStatus = "header" THEN AtHeader ELSE InBody(Rest, 1, current)

StreamInv == SenderInv /\ InChunks(Rest, sent, passed) /\ DecoderInv /\ Reassembled

-----------------------------------------------------------------------------
(* Sequences and types *)

LEMMA Constants ==
  /\ ChunkSize \in Nat \ {0} /\ RecvCap \in Nat /\ StartLength \in Nat
  /\ \A f \in Fmts : HeaderLen[f] \in Nat /\ 1 <= HeaderLen[f] /\ HeaderLen[f] < RecvCap
  /\ \A k \in Kinds : k.type \in Types /\ k.size \in Nat /\ k.size > 0
  <1>1. \A f \in Fmts : HeaderLen[f] \in 1 .. RecvCap - 1
    BY HeaderLenAssumption
  <1>2. \A k \in Kinds : k \in [type : Types, size : Nat \ {0}]
    BY KindsAssumption
  <1>3. QED
    BY <1>1, <1>2, SizesAssumption

\* What is left of a sequence without its first m elements.
LEMMA Dropped ==
  ASSUME NEW S, NEW s \in Seq(S), NEW m \in 0 .. Len(s)
  PROVE  /\ SubSeq(s, m + 1, Len(s)) \in Seq(S)
         /\ Len(SubSeq(s, m + 1, Len(s))) = Len(s) - m
         /\ \A i \in 1 .. Len(s) - m : SubSeq(s, m + 1, Len(s))[i] = s[m + i]
  <1>1. Len(s) \in Nat /\ \A i \in 1 .. Len(s) : s[i] \in S
    BY ElementOfSeq, LenProperties
  <1>2. /\ SubSeq(s, m + 1, Len(s)) \in Seq(S)
        /\ Len(SubSeq(s, m + 1, Len(s)))
             = IF m + 1 <= Len(s) THEN Len(s) - (m + 1) + 1 ELSE 0
        /\ \A i \in 1 .. Len(s) - (m + 1) + 1 :
             SubSeq(s, m + 1, Len(s))[i] = s[m + 1 + i - 1]
    BY <1>1, SubSeqProperties
  <1>3. QED
    BY <1>1, <1>2

LEMMA Taken ==
  ASSUME NEW S, NEW s \in Seq(S), NEW m \in 0 .. Len(s)
  PROVE  /\ SubSeq(s, 1, m) \in Seq(S)
         /\ Len(SubSeq(s, 1, m)) = m
         /\ \A i \in 1 .. m : SubSeq(s, 1, m)[i] = s[i]
  <1>1. Len(s) \in Nat /\ \A i \in 1 .. Len(s) : s[i] \in S
    BY ElementOfSeq, LenProperties
  <1>2. /\ SubSeq(s, 1, m) \in Seq(S)
        /\ Len(SubSeq(s, 1, m)) = IF 1 <= m THEN m - 1 + 1 ELSE 0
        /\ \A i \in 1 .. m - 1 + 1 : SubSeq(s, 1, m)[i] = s[1 + i - 1]
    BY <1>1, SubSeqProperties
  <1>3. QED
    BY <1>1, <1>2

LEMMA Joined ==
  ASSUME NEW S, NEW s \in Seq(S), NEW t \in Seq(S)
  PROVE  /\ s \o t \in Seq(S) /\ Len(s) \in Nat /\ Len(t) \in Nat
         /\ Len(s \o t) = Len(s) + Len(t)
         /\ \A i \in 1 .. Len(s) : (s \o t)[i] = s[i]
         /\ \A i \in 1 .. Len(t) : (s \o t)[Len(s) + i] = t[i]
  <1>1. Len(s) \in Nat /\ Len(t) \in Nat
    BY LenProperties
  <1>2. /\ s \o t \in Seq(S) /\ Len(s \o t) = Len(s) + Len(t)
        /\ \A i \in 1 .. Len(s) + Len(t) :
             (s \o t)[i] = IF i <= Len(s) THEN s[i] ELSE t[i - Len(s)]
    BY ConcatProperties
  <1>3. ASSUME NEW i \in 1 .. Len(s) PROVE (s \o t)[i] = s[i]
    <2>1. i \in 1 .. Len(s) + Len(t) /\ i <= Len(s)
      BY <1>1
    <2>2. QED
      BY <1>2, <2>1
  <1>4. ASSUME NEW i \in 1 .. Len(t) PROVE (s \o t)[Len(s) + i] = t[i]
    <2>1. /\ Len(s) + i \in 1 .. Len(s) + Len(t) /\ ~(Len(s) + i <= Len(s))
          /\ Len(s) + i - Len(s) = i
      BY <1>1
    <2>2. QED
      BY <1>2, <2>1
  <1>5. QED
    BY <1>1, <1>2, <1>3, <1>4

\* Messages and packs that one more is put behind.
LEMMA Appended ==
  ASSUME NEW S, NEW s \in Seq(S), NEW e \in S
  PROVE  /\ Append(s, e) \in Seq(S) /\ Len(s) \in Nat
         /\ Len(Append(s, e)) = Len(s) + 1
         /\ \A i \in 1 .. Len(s) : Append(s, e)[i] = s[i]
         /\ Append(s, e)[Len(s) + 1] = e
  BY LenProperties, AppendProperties

\* The bytes of the body in the chunk behind byte from, and the whole chunk.
ChunkBody(kind, from) ==
  IF from + ChunkSize < kind.size THEN ChunkSize ELSE kind.size - from

IsChunk(c, n, kind, fmt, from) ==
  /\ c \in Seq(WireByte) /\ ChunkBody(kind, from) \in Nat /\ ChunkBody(kind, from) > 0
  /\ Len(c) = HeaderLen[fmt] + ChunkBody(kind, from)
  /\ \A i \in 1 .. HeaderLen[fmt] :
       c[i] = [part |-> "header", fmt |-> fmt, kind |-> kind, msg |-> n,
               from |-> from, at |-> i]
  /\ \A i \in 1 .. ChunkBody(kind, from) :
       c[HeaderLen[fmt] + i] = [part |-> "body", msg |-> n, at |-> from + i]

LEMMA ChunkParts ==
  ASSUME NEW n \in Nat \ {0}, NEW kind \in Kinds, NEW fmt \in Fmts, NEW from \in Nat,
         from < kind.size
  PROVE  IsChunk(Chunk(n, kind, fmt, from), n, kind, fmt, from)
  <1> DEFINE h == HeaderBytes(n, kind, fmt, from)
             len == ChunkBody(kind, from)
             b == BodyBytes(n, from, from + len)
  <1>1. HeaderLen[fmt] \in Nat /\ ChunkSize \in Nat /\ ChunkSize > 0 /\ kind.size \in Nat
    BY Constants
  <1>2. len \in Nat /\ len > 0 /\ from + len - from = len
    BY <1>1 DEF ChunkBody
  <1>3. Smaller(from + ChunkSize, kind.size) = from + len
    BY <1>1 DEF Smaller, ChunkBody
  <1> HIDE DEF len
  <1>4. /\ h \in Seq(WireByte) /\ Len(h) = HeaderLen[fmt]
        /\ \A i \in 1 .. HeaderLen[fmt] :
             h[i] = [part |-> "header", fmt |-> fmt, kind |-> kind, msg |-> n,
                     from |-> from, at |-> i]
    <2>1. \A i \in 1 .. HeaderLen[fmt] :
             [part |-> "header", fmt |-> fmt, kind |-> kind, msg |-> n,
              from |-> from, at |-> i] \in WireByte
      BY <1>1 DEF WireByte, HeaderByte
    <2>2. QED
      BY <1>1, <2>1 DEF HeaderBytes
  <1>5. /\ b \in Seq(WireByte) /\ Len(b) = len
        /\ \A i \in 1 .. len : b[i] = [part |-> "body", msg |-> n, at |-> from + i]
    <2>1. \A i \in 1 .. len : [part |-> "body", msg |-> n, at |-> from + i] \in WireByte
      BY <1>2 DEF WireByte, BodyByte
    <2>2. b = [i \in 1 .. len |-> [part |-> "body", msg |-> n, at |-> from + i]]
      BY <1>2 DEF BodyBytes
    <2> HIDE DEF b
    <2>3. b \in [1 .. len -> WireByte]
      BY <2>1, <2>2, Zenon
    <2>4. b \in Seq(WireByte)
      BY <1>2, <2>3
    <2>5. Len(b) = len
      BY <1>2, <2>3
    <2>6. \A i \in 1 .. len : b[i] = [part |-> "body", msg |-> n, at |-> from + i]
      BY <2>2, Zenon
    <2>7. QED
      BY <2>4, <2>5, <2>6
  <1>6. Chunk(n, kind, fmt, from) = h \o b
    BY <1>3 DEF Chunk
  <1> HIDE DEF h, b
  <1>7. /\ h \o b \in Seq(WireByte) /\ Len(h \o b) = HeaderLen[fmt] + len
        /\ \A i \in 1 .. HeaderLen[fmt] : (h \o b)[i] = h[i]
        /\ \A i \in 1 .. len : (h \o b)[HeaderLen[fmt] + i] = b[i]
    <2>1. h \in Seq(WireByte) /\ b \in Seq(WireByte) /\ Len(h) = HeaderLen[fmt] /\ Len(b) = len
      BY <1>4, <1>5, Zenon
    <2>2. \A x, y \in Seq(WireByte) :
            /\ x \o y \in Seq(WireByte) /\ Len(x \o y) = Len(x) + Len(y)
            /\ \A i \in 1 .. Len(x) : (x \o y)[i] = x[i]
            /\ \A i \in 1 .. Len(y) : (x \o y)[Len(x) + i] = y[i]
      BY Joined
    <2>3. /\ h \o b \in Seq(WireByte) /\ Len(h \o b) = Len(h) + Len(b)
          /\ \A i \in 1 .. Len(h) : (h \o b)[i] = h[i]
          /\ \A i \in 1 .. Len(b) : (h \o b)[Len(h) + i] = b[i]
      BY <2>1, <2>2, Zenon
    <2>4. QED
      BY <2>1, <2>3, Zenon
  <1>8. \A i \in 1 .. HeaderLen[fmt] :
          Chunk(n, kind, fmt, from)[i] =
            [part |-> "header", fmt |-> fmt, kind |-> kind, msg |-> n,
             from |-> from, at |-> i]
    BY <1>4, <1>6, <1>7
  <1>9. \A i \in 1 .. len :
          Chunk(n, kind, fmt, from)[HeaderLen[fmt] + i] =
            [part |-> "body", msg |-> n, at |-> from + i]
    BY <1>5, <1>6, <1>7
  <1>10. QED
    BY <1>2, <1>6, <1>7, <1>8, <1>9 DEF IsChunk, len

-----------------------------------------------------------------------------
(* One call of DecodePack *)

HeaderTaken == IF packStatus = "header" THEN HeaderLen[FmtOf(Head(buffer))] ELSE 0
BodyTaken == Smaller(Want(DecodeHeader), Len(buffer) - HeaderTaken)

LEMMA HeaderTypes ==
  ASSUME TypeOK, CanDecode
  PROVE  /\ DecodeHeader \in PackType /\ DecodeHeader.body = current.body
         /\ HeaderTaken \in 0 .. Len(buffer)
         /\ Len(buffer) \in Nat /\ Len(buffer) > 0 /\ Head(buffer) = buffer[1]
         /\ buffer[1] \in WireByte
  <1>1. /\ buffer \in Seq(WireByte) /\ buffer # <<>> /\ current \in PackType
        /\ packStatus \in {"header", "body"}
        /\ packStatus = "header" => HeaderLen[FmtOf(Head(buffer))] <= Len(buffer)
    BY DEF TypeOK, CanDecode, HeaderReady
  <1>2. Len(buffer) \in Nat /\ Len(buffer) > 0
    BY <1>1, EmptySeq
  <1>3. Head(buffer) = buffer[1] /\ buffer[1] \in WireByte
    <2>1. 1 \in 1 .. Len(buffer)
      BY <1>2
    <2>2. QED
      BY <1>1, <2>1, ElementOfSeq
  <1>4. /\ FmtOf(buffer[1]) \in Fmts
        /\ FmtOf(buffer[1]) \in {0, 1} => buffer[1].kind \in Kinds
    BY <1>3 DEF FmtOf, WireByte, HeaderByte, BodyByte
  <1>5. HeaderTaken \in 0 .. Len(buffer)
    BY <1>1, <1>2, <1>3, <1>4, Constants DEF HeaderTaken
  <1>6. DecodeHeader \in PackType /\ DecodeHeader.body = current.body
    <2>1. CASE packStatus = "header" /\ FmtOf(Head(buffer)) \in {0, 1}
      <3>1. DecodeHeader = [current EXCEPT !.type = buffer[1].kind.type,
                                           !.size = buffer[1].kind.size]
        BY <1>3, <2>1 DEF DecodeHeader
      <3>2. buffer[1].kind.type \in Types /\ buffer[1].kind.size \in Nat
        BY <1>3, <1>4, <2>1, Constants
      <3>3. QED
        BY <1>1, <3>1, <3>2 DEF PackType
    <2>2. CASE ~(packStatus = "header" /\ FmtOf(Head(buffer)) \in {0, 1})
      BY <1>1, <2>2 DEF DecodeHeader
    <2>3. QED
      BY <2>1, <2>2
  <1>7. QED
    BY <1>2, <1>3, <1>5, <1>6

\* Where the bytes of a step of the decoder go.
LEMMA Decoded ==
  ASSUME TypeOK, CanDecode
  PROVE  /\ Len(current.body) \in Nat
         /\ Want(DecodeHeader) \in Nat
         /\ BodyTaken \in 0 .. Want(DecodeHeader)
         /\ HeaderTaken + BodyTaken \in 0 .. Len(buffer)
         /\ BodyTaken < Want(DecodeHeader) => HeaderTaken + BodyTaken = Len(buffer)
         /\ AfterHeader = SubSeq(buffer, HeaderTaken + 1, Len(buffer))
         /\ Len(AfterHeader) = Len(buffer) - HeaderTaken
         /\ AfterHeader \in Seq(WireByte)
         /\ \A i \in 1 .. Len(buffer) - HeaderTaken :
              AfterHeader[i] = buffer[HeaderTaken + i]
  <1>1. /\ buffer \in Seq(WireByte) /\ HeaderTaken \in 0 .. Len(buffer)
        /\ Len(buffer) \in Nat /\ DecodeHeader \in PackType
        /\ DecodeHeader.body = current.body
        /\ readChunk \in 0 .. ChunkSize - 1 /\ current \in PackType
    BY HeaderTypes DEF TypeOK
  <1>2. Len(current.body) \in Nat
    BY <1>1, LenProperties DEF PackType
  <1>3. Want(DecodeHeader) \in Nat
    BY <1>1, <1>2, Constants DEF Want, ChunkOver, Remain, PackType
  <1>4. AfterHeader = SubSeq(buffer, HeaderTaken + 1, Len(buffer))
    <2>1. packStatus # "header" => SubSeq(buffer, 0 + 1, Len(buffer)) = buffer
      BY <1>1, SubSeqFull
    <2>2. QED
      BY <2>1 DEF AfterHeader, HeaderTaken
  <1>5. QED
    BY <1>1, <1>2, <1>3, <1>4, Dropped DEF BodyTaken, Smaller

-----------------------------------------------------------------------------
(* Chunks in a sequence of bytes, when bytes in front are taken away *)

IsRest(q, r, m) ==
  /\ Len(r) \in Nat /\ m \in 0 .. Len(r) /\ Len(q) = Len(r) - m
  /\ \A i \in 1 .. Len(q) : q[i] = r[m + i]

LEMMA NextDropped ==
  ASSUME NEW q, NEW r, NEW m, IsRest(q, r, m), NEW i, NEW k \in Nat, k > 0, i = m + k,
         NEW n, NEW a, NEW s, NEW p, ChunkNext(r, i, n, a, s, p)
  PROVE  ChunkNext(q, k, n, a, s, p)
  <1>1. m \in Nat /\ Len(r) \in Nat /\ Len(q) = Len(r) - m /\ m <= Len(r)
    BY DEF IsRest
  <1>2. CASE i = Len(r) + 1
    BY <1>1, <1>2 DEF ChunkNext
  <1>3. CASE i # Len(r) + 1
    <2>1. i \in 1 .. Len(r)
      BY <1>3 DEF ChunkNext
    <2>2. k \in 1 .. Len(q)
      BY <1>1, <2>1
    <2>3. q[k] = r[i]
      BY <2>2 DEF IsRest
    <2>4. QED
      BY <1>3, <2>2, <2>3 DEF ChunkNext
  <1>4. QED
    BY <1>2, <1>3

LEMMA BodyDropped ==
  ASSUME NEW q, NEW r, NEW m, IsRest(q, r, m), NEW i \in Nat, i > 0,
         NEW n, NEW a \in Nat, NEW len \in Nat, BodyAt(r, i, n, a, len),
         NEW e \in 0 .. len, i + e > m
  PROVE  BodyAt(q, i + e - m, n, a + e, len - e)
  <1>1. m \in Nat /\ Len(r) \in Nat /\ Len(q) = Len(r) - m /\ m <= Len(r) /\ e \in Nat
    BY DEF IsRest
  <1>2. i + len <= Len(r) + 1
    BY DEF BodyAt
  <1>3. i + e - m + (len - e) <= Len(q) + 1
    BY <1>1, <1>2
  <1>4. ASSUME NEW d \in 0 .. (len - e) - 1
        PROVE  q[i + e - m + d] = [part |-> "body", msg |-> n, at |-> a + e + d + 1]
    <2>1. /\ e + d \in 0 .. len - 1 /\ i + e - m + d \in 1 .. Len(q)
          /\ m + (i + e - m + d) = i + (e + d) /\ a + (e + d) + 1 = a + e + d + 1
      BY <1>1, <1>2
    <2>2. q[i + e - m + d] = r[i + (e + d)]
      BY <2>1 DEF IsRest
    <2>3. r[i + (e + d)] = [part |-> "body", msg |-> n, at |-> a + (e + d) + 1]
      BY <2>1 DEF BodyAt
    <2>4. QED
      BY <2>1, <2>2, <2>3
  <1>5. QED
    BY <1>3, <1>4 DEF BodyAt

\* The length of a chunk.
LEMMA BodyLength ==
  ASSUME NEW s \in Seq(Kinds), NEW n \in 1 .. Len(s), NEW a \in Nat, a < s[n].size
  PROVE  /\ s[n] \in Kinds /\ s[n].size \in Nat
         /\ BodyLen(s, n, a) \in Nat /\ BodyLen(s, n, a) > 0
         /\ IsLast(s, n, a) \in BOOLEAN
  <1>1. s[n] \in Kinds
    BY ElementOfSeq
  <1>2. s[n].size \in Nat
    BY <1>1, Constants
  <1>3. ChunkSize \in Nat /\ ChunkSize > 0
    BY Constants
  <1>4. s[n].size - a \in Nat /\ s[n].size - a > 0
    BY <1>2
  <1>5. BodyLen(s, n, a) = s[n].size - a \/ BodyLen(s, n, a) = ChunkSize
    BY Zenon DEF BodyLen
  <1>6. IsLast(s, n, a) \in BOOLEAN
    BY Zenon DEF IsLast
  <1>7. QED
    BY <1>1, <1>2, <1>3, <1>4, <1>5, <1>6

LEMMA ChunksDropped ==
  ASSUME NEW q, NEW r, NEW m, IsRest(q, r, m), NEW s \in Seq(Kinds), NEW p,
         InChunks(r, s, p)
  PROVE  InChunks(q, s, p)
  <1> SUFFICES ASSUME NEW j \in 1 .. Len(q), q[j].part = "header", q[j].at = 1
               PROVE  WholeChunk(q, j, q[j].msg, q[j].from, q[j].fmt, s, p)
    BY DEF InChunks
  <1>1. m \in Nat /\ Len(r) \in Nat /\ Len(q) = Len(r) - m /\ m <= Len(r)
    BY DEF IsRest
  <1> DEFINE n == q[j].msg
             a == q[j].from
             fmt == q[j].fmt
  <1>2. m + j \in 1 .. Len(r) /\ q[j] = r[m + j]
    BY <1>1 DEF IsRest
  <1>3. WholeChunk(r, m + j, n, a, fmt, s, p)
    BY <1>2 DEF InChunks
  <1> HIDE DEF n, a, fmt
  <1> DEFINE h == HeaderLen[fmt]
             len == BodyLen(s, n, a)
  <1>4. /\ n \in 1 .. Len(s) /\ a \in Nat /\ a < s[n].size /\ fmt \in Fmts
        /\ BodyAt(r, m + j + h, n, a, len)
        /\ ChunkNext(r, m + j + h + len, AfterMsg(s, n, a), AfterByte(s, n, a), s, p)
    BY <1>3 DEF WholeChunk
  <1>5. h \in Nat /\ h >= 1 /\ len \in Nat /\ len > 0 /\ j \in Nat
    <2>1. h \in Nat /\ h >= 1
      BY <1>4, Constants
    <2>2. len \in Nat /\ len > 0
      BY <1>4, BodyLength, Zenon
    <2>3. QED
      BY <1>1, <2>1, <2>2
  <1> HIDE DEF h, len
  <1>6. BodyAt(q, j + h, n, a, len)
    <2>1. BodyAt(q, m + j + h + 0 - m, n, a + 0, len - 0)
      <3>1. m + j + h \in Nat /\ m + j + h > 0 /\ 0 \in 0 .. len /\ m + j + h + 0 > m
        BY <1>1, <1>5
      <3>2. QED
        BY <1>4, <1>5, <3>1, BodyDropped
    <2>2. m + j + h + 0 - m = j + h /\ a + 0 = a /\ len - 0 = len
      BY <1>1, <1>4, <1>5
    <2>3. QED
      BY <2>1, <2>2
  <1>7. ChunkNext(q, j + h + len, AfterMsg(s, n, a), AfterByte(s, n, a), s, p)
    <2>1. j + h + len \in Nat /\ j + h + len > 0 /\ m + j + h + len = m + (j + h + len)
      BY <1>1, <1>5
    <2>2. QED
      BY <1>4, <2>1, NextDropped
  <1>8. WholeChunk(q, j, n, a, fmt, s, p)
    BY <1>2, <1>3, <1>6, <1>7 DEF WholeChunk, h, len
  <1>9. QED
    BY <1>8 DEF n, a, fmt

-----------------------------------------------------------------------------
(* Chunks in a sequence of bytes, when a chunk is put behind *)

IsFront(q, r) ==
  /\ Len(r) \in Nat /\ Len(q) \in Nat /\ Len(r) < Len(q)
  /\ \A i \in 1 .. Len(r) : q[i] = r[i]

\* Behind r the chunk of message n behind byte a begins, which is the one to send
\* next when s are the messages and p bytes of the last one have passed.
NextSent(q, r, n, a, s, p) ==
  /\ IsFront(q, r)
  /\ q[Len(r) + 1].part = "header" /\ q[Len(r) + 1].at = 1
  /\ q[Len(r) + 1].msg = n /\ q[Len(r) + 1].from = a
  /\ IF p = 0 THEN n = Len(s) + 1 /\ a = 0 ELSE n = Len(s) /\ a = p

LEMMA NextExtended ==
  ASSUME NEW q, NEW r, NEW n, NEW a, NEW s, NEW p, NextSent(q, r, n, a, s, p),
         NEW i, NEW m, NEW b, ChunkNext(r, i, m, b, s, p), NEW t, NEW u
  PROVE  ChunkNext(q, i, m, b, t, u)
  <1>1. /\ Len(r) \in Nat /\ Len(q) \in Nat /\ Len(r) < Len(q)
        /\ \A j \in 1 .. Len(r) : q[j] = r[j]
    BY DEF NextSent, IsFront
  <1>2. CASE /\ i \in 1 .. Len(r)
             /\ r[i].part = "header" /\ r[i].at = 1 /\ r[i].msg = m /\ r[i].from = b
    <2>1. i \in 1 .. Len(q) /\ q[i] = r[i]
      BY <1>1, <1>2
    <2>2. QED
      BY <1>2, <2>1 DEF ChunkNext
  <1>3. CASE /\ i = Len(r) + 1
             /\ IF p = 0 THEN m = Len(s) + 1 /\ b = 0 ELSE m = Len(s) /\ b = p
    <2>1. i \in 1 .. Len(q) /\ m = n /\ b = a
      BY <1>1, <1>3 DEF NextSent
    <2>2. QED
      BY <1>3, <2>1 DEF ChunkNext, NextSent
  <1>4. QED
    BY <1>2, <1>3 DEF ChunkNext

LEMMA BodyExtended ==
  ASSUME NEW q, NEW r, IsFront(q, r), NEW i \in Nat, i > 0, NEW n, NEW a,
         NEW len \in Nat, BodyAt(r, i, n, a, len)
  PROVE  BodyAt(q, i, n, a, len)
  <1>1. /\ Len(r) \in Nat /\ Len(q) \in Nat /\ Len(r) < Len(q)
        /\ \A j \in 1 .. Len(r) : q[j] = r[j]
    BY DEF IsFront
  <1>2. i + len <= Len(r) + 1
    BY DEF BodyAt
  <1>3. ASSUME NEW d \in 0 .. len - 1 PROVE q[i + d] = r[i + d]
    <2>1. i + d \in 1 .. Len(r)
      BY <1>1, <1>2
    <2>2. QED
      BY <1>1, <2>1
  <1>4. QED
    BY <1>1, <1>2, <1>3 DEF BodyAt

Extends(t, s) == Len(s) <= Len(t) /\ \A i \in 1 .. Len(s) : t[i] = s[i]

LEMMA ChunksExtended ==
  ASSUME NEW q, NEW r, NEW m, NEW b, NEW s \in Seq(Kinds), NEW p,
         NextSent(q, r, m, b, s, p), InChunks(r, s, p),
         NEW t \in Seq(Kinds), NEW u, Extends(t, s),
         WholeChunk(q, Len(r) + 1, m, b, q[Len(r) + 1].fmt, t, u),
         \A i \in Len(r) + 2 .. Len(q) : q[i].part = "body" \/ q[i].at # 1
  PROVE  InChunks(q, t, u)
  <1> SUFFICES ASSUME NEW j \in 1 .. Len(q), q[j].part = "header", q[j].at = 1
               PROVE  WholeChunk(q, j, q[j].msg, q[j].from, q[j].fmt, t, u)
    BY DEF InChunks
  <1>1. IsFront(q, r) /\ Len(r) \in Nat /\ Len(q) \in Nat /\ Len(s) \in Nat /\ Len(t) \in Nat
    BY LenProperties DEF NextSent, IsFront
  <1>2. CASE j = Len(r) + 1
    BY <1>2 DEF NextSent
  <1>3. CASE j \in Len(r) + 2 .. Len(q)
    BY <1>3
  <1>4. CASE j \in 1 .. Len(r)
    <2> DEFINE n == q[j].msg
               a == q[j].from
               fmt == q[j].fmt
    <2>1. q[j] = r[j]
      BY <1>1, <1>4 DEF IsFront
    <2>2. WholeChunk(r, j, n, a, fmt, s, p)
      BY <1>4, <2>1 DEF InChunks
    <2> HIDE DEF n, a, fmt
    <2> DEFINE h == HeaderLen[fmt]
               len == BodyLen(s, n, a)
    <2>3. /\ n \in 1 .. Len(s) /\ a \in Nat /\ a < s[n].size /\ fmt \in Fmts
          /\ fmt \in {0, 1} => r[j].kind = s[n]
          /\ fmt \in {2, 3} /\ a = 0 => n > 1 /\ s[n - 1] = s[n]
          /\ BodyAt(r, j + h, n, a, len)
          /\ ChunkNext(r, j + h + len, AfterMsg(s, n, a), AfterByte(s, n, a), s, p)
      BY <2>2 DEF WholeChunk
    <2>4. h \in Nat /\ h >= 1 /\ len \in Nat /\ len > 0 /\ j \in Nat
      <3>1. h \in Nat /\ h >= 1
        BY <2>3, Constants
      <3>2. len \in Nat /\ len > 0
        BY <2>3, BodyLength
      <3>3. QED
        BY <1>4, <3>1, <3>2
    <2> HIDE DEF h, len
    <2>5. BodyAt(q, j + h, n, a, len)
      <3>1. j + h \in Nat /\ j + h > 0
        BY <2>4
      <3>2. QED
        BY <1>1, <2>3, <2>4, <3>1, BodyExtended
    <2>6. ChunkNext(q, j + h + len, AfterMsg(s, n, a), AfterByte(s, n, a), t, u)
      BY <2>3, NextExtended
    <2>7. n \in 1 .. Len(t) /\ t[n] = s[n] /\ (n > 1 => t[n - 1] = s[n - 1])
      BY <1>1, <2>3 DEF Extends
    <2>8. /\ AfterMsg(t, n, a) = AfterMsg(s, n, a) /\ AfterByte(t, n, a) = AfterByte(s, n, a)
          /\ BodyLen(t, n, a) = len
      BY <2>7 DEF AfterMsg, AfterByte, BodyLen, IsLast, len
    <2>9. /\ n \in 1 .. Len(t) /\ a \in Nat /\ a < t[n].size /\ fmt \in Fmts
          /\ fmt \in {0, 1} => q[j].kind = t[n]
          /\ fmt \in {2, 3} /\ a = 0 => n > 1 /\ t[n - 1] = t[n]
      BY <2>1, <2>3, <2>7
    <2>10. BodyAt(q, j + HeaderLen[fmt], n, a, BodyLen(t, n, a))
      BY <2>5, <2>8 DEF h
    <2>11. ChunkNext(q, j + HeaderLen[fmt] + BodyLen(t, n, a), AfterMsg(t, n, a),
                     AfterByte(t, n, a), t, u)
      BY <2>6, <2>8 DEF h
    <2>12. WholeChunk(q, j, n, a, fmt, t, u)
      BY <2>9, <2>10, <2>11 DEF WholeChunk
    <2>13. QED
      BY <2>12 DEF n, a, fmt
  <1>5. QED
    BY <1>1, <1>2, <1>3, <1>4

-----------------------------------------------------------------------------
(* What DecodePack does, in terms of the bytes it takes *)

Over == ChunkOver(DecodeHeader)
Read == Grown(DecodeHeader, BodyTaken)
Full == BodyTaken = Want(DecodeHeader)

LEMMA GrownBy ==
  ASSUME TypeOK, CanDecode
  PROVE  /\ Read \in PackType /\ Read.type = DecodeHeader.type
         /\ Read.size = DecodeHeader.size
         /\ Len(Read.body) = Len(current.body) + BodyTaken
         /\ \A i \in 1 .. Len(current.body) : Read.body[i] = current.body[i]
         /\ \A i \in 1 .. BodyTaken :
              Read.body[Len(current.body) + i] = buffer[HeaderTaken + i]
  <1> DEFINE t == SubSeq(AfterHeader, 1, BodyTaken)
  <1>1. /\ DecodeHeader \in PackType /\ DecodeHeader.body = current.body
        /\ HeaderTaken \in Nat /\ Len(buffer) \in Nat
    BY HeaderTypes
  <1>2. /\ AfterHeader \in Seq(WireByte) /\ Len(AfterHeader) = Len(buffer) - HeaderTaken
        /\ BodyTaken \in 0 .. Len(AfterHeader)
        /\ \A i \in 1 .. Len(buffer) - HeaderTaken :
             AfterHeader[i] = buffer[HeaderTaken + i]
    BY <1>1, Decoded
  <1>3. /\ t \in Seq(WireByte) /\ Len(t) = BodyTaken
        /\ \A i \in 1 .. BodyTaken : t[i] = AfterHeader[i]
    <2>1. BodyTaken \in 0 .. Len(AfterHeader) /\ AfterHeader \in Seq(WireByte)
      BY <1>2
    <2>2. \A x \in Seq(WireByte) : \A m \in 0 .. Len(x) :
            /\ SubSeq(x, 1, m) \in Seq(WireByte) /\ Len(SubSeq(x, 1, m)) = m
            /\ \A i \in 1 .. m : SubSeq(x, 1, m)[i] = x[i]
      BY Taken
    <2>3. QED
      BY <2>1, <2>2, Zenon
  <1> HIDE DEF t
  <1>4. ASSUME NEW i \in 1 .. BodyTaken PROVE t[i] = buffer[HeaderTaken + i]
    <2>1. i \in 1 .. Len(buffer) - HeaderTaken
      BY <1>1, <1>2
    <2>2. QED
      BY <1>2, <1>3, <2>1
  <1>5. current.body \in Seq(WireByte)
    BY DEF TypeOK, PackType
  <1>6. Read = [DecodeHeader EXCEPT !.body = current.body \o t]
    BY <1>1 DEF Read, Grown, t
  <1>7. /\ current.body \o t \in Seq(WireByte)
        /\ Len(current.body \o t) = Len(current.body) + BodyTaken
        /\ \A i \in 1 .. Len(current.body) : (current.body \o t)[i] = current.body[i]
        /\ \A i \in 1 .. BodyTaken : (current.body \o t)[Len(current.body) + i] = t[i]
    <2>1. \A x, y \in Seq(WireByte) :
            /\ x \o y \in Seq(WireByte) /\ Len(x \o y) = Len(x) + Len(y)
            /\ \A i \in 1 .. Len(x) : (x \o y)[i] = x[i]
            /\ \A i \in 1 .. Len(y) : (x \o y)[Len(x) + i] = y[i]
      BY Joined
    <2>2. t \in Seq(WireByte)
      BY <1>3
    <2>3. /\ current.body \o t \in Seq(WireByte)
          /\ Len(current.body \o t) = Len(current.body) + Len(t)
          /\ \A i \in 1 .. Len(current.body) : (current.body \o t)[i] = current.body[i]
          /\ \A i \in 1 .. Len(t) : (current.body \o t)[Len(current.body) + i] = t[i]
      BY <1>5, <2>1, <2>2, Zenon
    <2>4. QED
      BY <1>3, <2>3, Zenon
  <1>8. /\ Read.body = current.body \o t /\ Read.type = DecodeHeader.type
        /\ Read.size = DecodeHeader.size /\ Read \in PackType
    BY <1>1, <1>6, <1>7 DEF PackType
  <1>9. QED
    BY <1>4, <1>7, <1>8

LEMMA DecodeEffect ==
  ASSUME TypeOK, DecodePack
  PROVE  /\ IsRest(buffer', buffer, HeaderTaken + BodyTaken) /\ buffer' \in Seq(WireByte)
         /\ readChunk' = IF Over THEN readChunk
                         ELSE IF Full THEN 0 ELSE readChunk + BodyTaken
         /\ packStatus' = IF Full THEN "header" ELSE "body"
         /\ Over /\ Full => /\ last' = Read /\ finished' = Append(finished, Read)
                            /\ current' = [DecodeHeader EXCEPT !.body = <<>>]
         /\ ~(Over /\ Full) => current' = Read /\ UNCHANGED <<last, finished>>
  <1> DEFINE m == HeaderTaken + BodyTaken
  <1>1. CanDecode /\ DecodeBody(DecodeHeader)
    BY DEF DecodePack
  <1>2. HeaderTaken \in Nat /\ Len(buffer) \in Nat
    BY <1>1, HeaderTypes
  <1>3. /\ Len(AfterHeader) = Len(buffer) - HeaderTaken /\ AfterHeader \in Seq(WireByte)
        /\ BodyTaken \in 0 .. Len(AfterHeader) /\ m \in 0 .. Len(buffer)
        /\ \A i \in 1 .. Len(buffer) - HeaderTaken :
             AfterHeader[i] = buffer[HeaderTaken + i]
    BY <1>1, <1>2, Decoded
  <1>4. BodyTaken = Smaller(Want(DecodeHeader), Len(AfterHeader))
    BY <1>3 DEF BodyTaken
  <1>5. /\ buffer' = SubSeq(AfterHeader, BodyTaken + 1, Len(AfterHeader))
        /\ readChunk' = IF Over THEN readChunk
                        ELSE IF Full THEN 0 ELSE readChunk + BodyTaken
        /\ packStatus' = IF Full THEN "header" ELSE "body"
        /\ IF Over /\ Full
             THEN /\ last' = Read /\ finished' = Append(finished, last')
                  /\ current' = [DecodeHeader EXCEPT !.body = <<>>]
             ELSE current' = Read /\ UNCHANGED <<last, finished>>
    BY <1>1, <1>4 DEF DecodeBody, Over, Full, Read, Want
  <1>6. /\ buffer' \in Seq(WireByte) /\ Len(buffer') = Len(AfterHeader) - BodyTaken
        /\ \A i \in 1 .. Len(AfterHeader) - BodyTaken : buffer'[i] = AfterHeader[BodyTaken + i]
    BY <1>3, <1>5, Dropped
  <1>7. IsRest(buffer', buffer, m)
    <2>1. Len(buffer') = Len(buffer) - m
      BY <1>2, <1>3, <1>6
    <2>2. ASSUME NEW i \in 1 .. Len(buffer') PROVE buffer'[i] = buffer[m + i]
      <3>1. /\ BodyTaken + i \in 1 .. Len(buffer) - HeaderTaken
            /\ HeaderTaken + (BodyTaken + i) = m + i
        BY <1>2, <1>3, <1>6
      <3>2. QED
        BY <1>3, <1>6, <3>1
    <2>3. QED
      BY <1>2, <1>3, <2>1, <2>2 DEF IsRest
  <1>8. QED
    BY <1>5, <1>6, <1>7

\* The types of what DecodePack changes.
LEMMA DecodeTypes ==
  ASSUME TypeOK, DecodePack
  PROVE  /\ buffer' \in Seq(WireByte) /\ Len(buffer') <= RecvCap
         /\ packStatus' \in {"header", "body"} /\ readChunk' \in 0 .. ChunkSize - 1
         /\ current' \in PackType /\ last' \in PackType /\ finished' \in Seq(PackType)
  <1>1. CanDecode
    BY DEF DecodePack
  <1>2. /\ Read \in PackType /\ DecodeHeader \in PackType /\ Len(buffer) \in Nat
        /\ BodyTaken \in 0 .. Want(DecodeHeader) /\ Want(DecodeHeader) \in Nat
        /\ HeaderTaken + BodyTaken \in 0 .. Len(buffer)
    BY <1>1, HeaderTypes, GrownBy, Decoded
  <1>3. /\ Len(buffer) <= RecvCap /\ readChunk \in 0 .. ChunkSize - 1
        /\ last \in PackType /\ finished \in Seq(PackType)
    BY DEF TypeOK
  <1>4. buffer' \in Seq(WireByte) /\ Len(buffer') <= RecvCap
    BY <1>2, <1>3, DecodeEffect, Constants DEF IsRest
  <1>5. packStatus' \in {"header", "body"}
    BY DecodeEffect
  <1>6. readChunk' \in 0 .. ChunkSize - 1
    <2>1. CASE Over \/ Full
      BY <1>3, <2>1, DecodeEffect, Constants
    <2>2. CASE ~Over /\ ~Full
      <3>1. Want(DecodeHeader) = ChunkSize - readChunk /\ BodyTaken # Want(DecodeHeader)
        BY <2>2 DEF Over, Full, Want
      <3>2. readChunk' = readChunk + BodyTaken
        BY <2>2, DecodeEffect
      <3>3. QED
        BY <1>2, <1>3, <3>1, <3>2, Constants
    <2>3. QED
      BY <2>1, <2>2
  <1>7. current' \in PackType /\ last' \in PackType /\ finished' \in Seq(PackType)
    <2>1. CASE Over /\ Full
      <3>1. /\ last' = Read /\ finished' = Append(finished, Read)
            /\ current' = [DecodeHeader EXCEPT !.body = <<>>]
        BY <2>1, DecodeEffect
      <3>2. [DecodeHeader EXCEPT !.body = <<>>] \in PackType
        BY <1>2, EmptySeq DEF PackType
      <3>3. Append(finished, Read) \in Seq(PackType)
        BY <1>2, <1>3, Appended
      <3>4. QED
        BY <1>2, <3>1, <3>2, <3>3
    <2>2. CASE ~(Over /\ Full)
      BY <1>2, <1>3, <2>2, DecodeEffect
    <2>3. QED
      BY <2>1, <2>2
  <1>8. QED
    BY <1>4, <1>5, <1>6, <1>7

-----------------------------------------------------------------------------
(* Types *)

\* The chunk that a step of the broadcaster sends.
LEMMA SentChunk ==
  ASSUME TypeOK, SenderInv, Sender
  PROVE  \E n \in Nat \ {0}, kind \in Kinds, fmt \in Fmts, from \in Nat :
           /\ from < kind.size /\ SendChunk(n, kind, fmt, from)
           /\ sent' \in Seq(Kinds) /\ Len(sent) \in Nat /\ Len(sent') = n
           /\ Extends(sent', sent) /\ sent'[n] = kind
           /\ fmt \in {2, 3} /\ from = 0 => n > 1 /\ sent'[n - 1] = kind
           /\ IF passed = 0 THEN n = Len(sent) + 1 /\ from = 0
                            ELSE n = Len(sent) /\ from = passed
  <1>1. sent \in Seq(Kinds) /\ passed \in Nat /\ Len(sent) \in Nat
    BY LenProperties DEF TypeOK
  <1>2. sent # <<>> => /\ Len(sent) \in 1 .. Len(sent) /\ Last(sent) = sent[Len(sent)]
                       /\ sent[Len(sent)] \in Kinds
    <2>1. sent # <<>> => Len(sent) \in 1 .. Len(sent)
      BY <1>1, EmptySeq
    <2>2. Last(sent) = sent[Len(sent)]
      BY DEF Last
    <2>3. QED
      BY <1>1, <2>1, <2>2, ElementOfSeq
  <1>3. ASSUME NEW kd \in Kinds, NEW fm \in Fmts, SendFirstChunk(kd, fm)
        PROVE  \E n \in Nat \ {0}, kind \in Kinds, fmt \in Fmts, from \in Nat :
           /\ from < kind.size /\ SendChunk(n, kind, fmt, from)
           /\ sent' \in Seq(Kinds) /\ Len(sent) \in Nat /\ Len(sent') = n
           /\ Extends(sent', sent) /\ sent'[n] = kind
           /\ fmt \in {2, 3} /\ from = 0 => n > 1 /\ sent'[n - 1] = kind
           /\ IF passed = 0 THEN n = Len(sent) + 1 /\ from = 0
                            ELSE n = Len(sent) /\ from = passed
    <2> DEFINE n == Len(sent) + 1
    <2>1. /\ passed = 0 /\ Allowed(kd, fm) /\ sent' = Append(sent, kd)
          /\ SendChunk(n, kd, fm, 0)
      BY <1>3 DEF SendFirstChunk
    <2>2. /\ sent' \in Seq(Kinds) /\ Len(sent') = n /\ sent'[n] = kd
          /\ \A i \in 1 .. Len(sent) : sent'[i] = sent[i]
      BY <1>1, <2>1, Appended
    <2>3. fm \in {2, 3} => n > 1 /\ sent'[n - 1] = kd
      <3>1. fm \in {2, 3} => sent # <<>> /\ kd = Last(sent)
        BY <2>1 DEF Allowed
      <3>2. n - 1 = Len(sent)
        BY <1>1
      <3>3. QED
        BY <1>1, <1>2, <2>2, <3>1, <3>2
    <2>4. n \in Nat \ {0} /\ 0 \in Nat /\ 0 < kd.size
      BY <1>1, Constants
    <2>5. Extends(sent', sent)
      BY <1>1, <2>2 DEF Extends
    <2>6. QED
      BY <1>1, <2>1, <2>2, <2>3, <2>4, <2>5
  <1>4. CASE SendNextChunk
    <2>1. /\ passed > 0 /\ sent' = sent /\ SendChunk(Len(sent), Last(sent), 3, passed)
      BY <1>4 DEF SendNextChunk
    <2>2. sent # <<>> /\ passed < Last(sent).size
      BY <1>1, <2>1 DEF SenderInv
    <2>3. /\ Len(sent) \in Nat \ {0} /\ Last(sent) \in Kinds /\ 3 \in Fmts
          /\ passed # 0 /\ sent'[Len(sent)] = Last(sent)
      BY <1>1, <1>2, <2>1, <2>2
    <2>4. Extends(sent', sent)
      BY <1>1, <2>1 DEF Extends
    <2>5. QED
      BY <1>1, <2>1, <2>2, <2>3, <2>4
  <1>5. QED
    BY <1>3, <1>4 DEF Sender

LEMMA InitTypes == Init => TypeOK /\ SenderInv
  <1> SUFFICES ASSUME Init PROVE TypeOK /\ SenderInv
    OBVIOUS
  <1>1. NoPack \in PackType
    BY EmptySeq DEF NoPack, PackType
  <1>2. /\ <<>> \in Seq(WireByte) /\ Len(<<>>) = 0 /\ <<>> \in Seq(PackType)
        /\ <<>> \in Seq(Kinds) /\ 0 \in 0 .. ChunkSize - 1 /\ 0 <= RecvCap
    BY EmptySeq, Constants
  <1>3. first \in [Types -> PackType]
    BY <1>1 DEF Init
  <1>4. TypeOK
    BY <1>1, <1>2, <1>3 DEF Init, TypeOK
  <1>5. QED
    BY <1>4 DEF Init, SenderInv

LEMMA NextTypes == TypeOK /\ SenderInv /\ [Next]_vars => TypeOK' /\ SenderInv'
  <1> SUFFICES ASSUME TypeOK, SenderInv, [Next]_vars PROVE TypeOK' /\ SenderInv'
    OBVIOUS
  <1>1. CASE Sender
    <2>1. PICK n \in Nat \ {0}, kind \in Kinds, fmt \in Fmts, from \in Nat :
           /\ from < kind.size /\ SendChunk(n, kind, fmt, from)
           /\ sent' \in Seq(Kinds) /\ Len(sent') = n /\ sent'[n] = kind
      BY <1>1, SentChunk
    <2>2. /\ wire' = wire \o Chunk(n, kind, fmt, from)
          /\ passed' = IF from + ChunkSize < kind.size THEN from + ChunkSize ELSE 0
          /\ UNCHANGED <<decoderVars, dataStatus, first, packFinish, pc, delivered>>
      BY <2>1 DEF SendChunk
    <2>3. Chunk(n, kind, fmt, from) \in Seq(WireByte)
      <3>1. IsChunk(Chunk(n, kind, fmt, from), n, kind, fmt, from)
        BY <2>1, ChunkParts
      <3>2. QED
        BY <3>1 DEF IsChunk
    <2>4. wire' \in Seq(WireByte)
      BY <2>2, <2>3, ConcatProperties DEF TypeOK
    <2>5. passed' \in Nat /\ SenderInv'
      <3>1. ChunkSize \in Nat /\ kind.size \in Nat
        BY Constants
      <3>2. Last(sent)' = kind /\ sent' # <<>>
        BY <2>1, EmptySeq DEF Last
      <3>3. QED
        BY <2>2, <3>1, <3>2 DEF SenderInv
    <2>6. QED
      BY <2>1, <2>2, <2>4, <2>5 DEF TypeOK, decoderVars
  <1>2. CASE ReadFromSockfd
    <2>1. PICK n \in 1 .. Smaller(Len(wire), RecvCap - Len(buffer)) :
            /\ buffer' = buffer \o SubSeq(wire, 1, n)
            /\ wire' = SubSeq(wire, n + 1, Len(wire))
      BY <1>2 DEF ReadFromSockfd
    <2>2. /\ wire \in Seq(WireByte) /\ buffer \in Seq(WireByte)
          /\ Len(wire) \in Nat /\ Len(buffer) \in Nat
      BY LenProperties DEF TypeOK
    <2>3. n \in 0 .. Len(wire) /\ n <= RecvCap - Len(buffer)
      BY <2>1, <2>2, Constants DEF Smaller
    <2>4. /\ SubSeq(wire, 1, n) \in Seq(WireByte) /\ Len(SubSeq(wire, 1, n)) = n
          /\ wire' \in Seq(WireByte)
      BY <2>1, <2>2, <2>3, Taken, Dropped
    <2>5. buffer' \in Seq(WireByte) /\ Len(buffer') = Len(buffer) + n
      BY <2>1, <2>2, <2>4, ConcatProperties
    <2>6. Len(buffer') <= RecvCap
      BY <2>2, <2>3, <2>5, Constants
    <2>7. /\ packFinish' = FALSE /\ pc' = "decode"
          /\ UNCHANGED <<packStatus, readChunk, current, last, finished, dataStatus,
                         first, delivered, senderVars>>
      BY <1>2 DEF ReadFromSockfd
    <2>8. QED
      BY <2>4, <2>5, <2>6, <2>7 DEF TypeOK, SenderInv, senderVars
  <1>3. CASE ParseFirstHeader
    <2>1. /\ DecodePack
          /\ first' = IF finished' = finished THEN first
                      ELSE [first EXCEPT ![last'.type] = last']
          /\ UNCHANGED <<wire, dataStatus, packFinish, pc, delivered, senderVars>>
      BY <1>3 DEF ParseFirstHeader
    <2>2. first' \in [Types -> PackType]
      BY <2>1, DecodeTypes DEF TypeOK
    <2>3. QED
      BY <2>1, <2>2, DecodeTypes DEF TypeOK, SenderInv, senderVars
  <1>4. CASE DecodeDataPack
    <2>1. /\ DecodePack /\ packFinish' = (packFinish \/ finished' # finished)
          /\ UNCHANGED <<wire, dataStatus, first, pc, delivered, senderVars>>
      BY <1>4 DEF DecodeDataPack
    <2>2. QED
      BY <2>1, DecodeTypes DEF TypeOK, SenderInv, senderVars
  <1>5. CASE BeginFirstHeader \/ EndDecodeData
    BY <1>5 DEF BeginFirstHeader, EndDecodeData, TypeOK, SenderInv, senderVars, decoderVars
  <1>6. CASE EndFirstHeader
    <2>1. FirstComplete \in BOOLEAN
      BY DEF FirstComplete
    <2>2. QED
      BY <1>6, <2>1 DEF EndFirstHeader, TypeOK, SenderInv, senderVars, decoderVars
  <1>7. CASE NewRtmpPack
    <2>1. delivered' \in Seq(PackType)
      BY <1>7, Appended DEF NewRtmpPack, TypeOK
    <2>2. QED
      BY <1>7, <2>1 DEF NewRtmpPack, TypeOK, SenderInv, senderVars, decoderVars
  <1>8. CASE Done \/ UNCHANGED vars
    BY <1>8 DEF Done, vars, TypeOK, SenderInv, senderVars, decoderVars
  <1>9. QED
    BY <1>1, <1>2, <1>3, <1>4, <1>5, <1>6, <1>7, <1>8 DEF Next, Handler

\* The types of all variables of the decoder: in particular the receive buffer
\* never holds more than it can, and less than a chunk is read of a chunk that
\* is not the last of its pack (DecodeBody).
THEOREM TypeCorrect == Spec => []TypeOK
  <1>1. Spec => [](TypeOK /\ SenderInv)
    BY InitTypes, NextTypes, PTL DEF Spec
  <1>2. QED
    BY <1>1, PTL

-----------------------------------------------------------------------------
(* The broadcaster sends a chunk *)

LEMMA RestType ==
  ASSUME TypeOK
  PROVE  /\ Rest \in Seq(WireByte) /\ Len(Rest) \in Nat
         /\ Len(buffer) \in Nat /\ Len(Rest) >= Len(buffer)
         /\ \A i \in 1 .. Len(buffer) : Rest[i] = buffer[i]
  <1>1. buffer \in Seq(WireByte) /\ wire \in Seq(WireByte)
    BY DEF TypeOK
  <1>2. /\ Len(buffer) \in Nat /\ Len(wire) \in Nat /\ Rest \in Seq(WireByte)
        /\ Len(Rest) = Len(buffer) + Len(wire)
        /\ \A i \in 1 .. Len(buffer) : Rest[i] = buffer[i]
    BY <1>1, Joined DEF Rest
  <1>3. QED
    BY <1>2

LEMMA Regrouped ==
  \A x, y, z \in Seq(WireByte) : x \o (y \o z) = (x \o y) \o z
  <1> SUFFICES ASSUME NEW x \in Seq(WireByte), NEW y \in Seq(WireByte), NEW z \in Seq(WireByte)
               PROVE  x \o (y \o z) = (x \o y) \o z
    OBVIOUS
  <1>1. QED
    BY ConcatAssociative

LEMMA RestGrows ==
  ASSUME TypeOK, NEW c \in Seq(WireByte), wire' = wire \o c, buffer' = buffer
  PROVE  /\ Rest' \in Seq(WireByte) /\ Len(Rest') = Len(Rest) + Len(c) /\ Len(c) \in Nat
         /\ \A i \in 1 .. Len(Rest) : Rest'[i] = Rest[i]
         /\ \A i \in 1 .. Len(c) : Rest'[Len(Rest) + i] = c[i]
  <1>1. buffer \in Seq(WireByte) /\ wire \in Seq(WireByte) /\ Rest \in Seq(WireByte)
    BY RestType DEF TypeOK
  <1>2. Rest' = Rest \o c
    <2>1. buffer \o (wire \o c) = (buffer \o wire) \o c
      BY <1>1, Regrouped, Zenon
    <2>2. QED
      BY <2>1 DEF Rest
  <1>3. \A x, y \in Seq(WireByte) :
          /\ x \o y \in Seq(WireByte) /\ Len(x \o y) = Len(x) + Len(y) /\ Len(y) \in Nat
          /\ \A i \in 1 .. Len(x) : (x \o y)[i] = x[i]
          /\ \A i \in 1 .. Len(y) : (x \o y)[Len(x) + i] = y[i]
    BY Joined
  <1>4. /\ Rest \o c \in Seq(WireByte) /\ Len(Rest \o c) = Len(Rest) + Len(c) /\ Len(c) \in Nat
        /\ \A i \in 1 .. Len(Rest) : (Rest \o c)[i] = Rest[i]
        /\ \A i \in 1 .. Len(c) : (Rest \o c)[Len(Rest) + i] = c[i]
    BY <1>1, <1>3, Zenon
  <1>5. QED
    BY <1>2, <1>4, Zenon

\* q is c put behind r; t are the messages when message n goes on, or begins, with
\* a chunk behind byte from, and u bytes of it have passed with this chunk.
PutBehind(q, r, c) ==
  /\ Len(r) \in Nat /\ Len(q) = Len(r) + Len(c)
  /\ \A i \in 1 .. Len(c) : q[Len(r) + i] = c[i]

SentNow(t, u, n, kind, fmt, from) ==
  /\ t \in Seq(Kinds) /\ Len(t) = n /\ t[n] = kind
  /\ fmt \in {2, 3} /\ from = 0 => n > 1 /\ t[n - 1] = kind
  /\ u = IF from + ChunkSize < kind.size THEN from + ChunkSize ELSE 0

\* The chunk is whole behind what there was, and what comes after it is what is
\* sent after it.
LEMMA ChunkBehind ==
  ASSUME NEW q, NEW r, NEW c, NEW n \in Nat \ {0}, NEW kind \in Kinds, NEW fmt \in Fmts,
         NEW from \in Nat, from < kind.size, IsChunk(c, n, kind, fmt, from),
         PutBehind(q, r, c), NEW t, NEW u, SentNow(t, u, n, kind, fmt, from)
  PROVE  /\ q[Len(r) + 1] = [part |-> "header", fmt |-> fmt, kind |-> kind, msg |-> n,
                             from |-> from, at |-> 1]
         /\ WholeChunk(q, Len(r) + 1, n, from, fmt, t, u)
         /\ \A i \in Len(r) + 2 .. Len(q) : q[i].part = "body" \/ q[i].at # 1
  <1> DEFINE h == HeaderLen[fmt]
             len == ChunkBody(kind, from)
  <1>0. /\ Len(r) \in Nat /\ Len(q) = Len(r) + Len(c)
        /\ \A i \in 1 .. Len(c) : q[Len(r) + i] = c[i]
        /\ t \in Seq(Kinds) /\ Len(t) = n /\ t[n] = kind
        /\ fmt \in {2, 3} /\ from = 0 => n > 1 /\ t[n - 1] = kind
        /\ u = IF from + ChunkSize < kind.size THEN from + ChunkSize ELSE 0
    BY DEF PutBehind, SentNow
  <1>1. /\ h \in Nat /\ h >= 1 /\ len \in Nat /\ len > 0 /\ Len(c) = h + len
        /\ kind.size \in Nat /\ ChunkSize \in Nat /\ ChunkSize > 0
    <2>1. len \in Nat /\ len > 0 /\ Len(c) = h + len
      BY Zenon DEF IsChunk
    <2>2. h \in Nat /\ h >= 1
      BY Constants
    <2>3. kind.size \in Nat /\ ChunkSize \in Nat /\ ChunkSize > 0
      BY Constants
    <2>4. QED
      BY <2>1, <2>2, <2>3
  <1>2. /\ \A i \in 1 .. h : c[i] = [part |-> "header", fmt |-> fmt, kind |-> kind,
                                     msg |-> n, from |-> from, at |-> i]
        /\ \A i \in 1 .. len : c[h + i] = [part |-> "body", msg |-> n, at |-> from + i]
    BY DEF IsChunk
  <1>3. /\ BodyLen(t, n, from) = len
        /\ AfterMsg(t, n, from) = IF u = 0 THEN n + 1 ELSE n
        /\ AfterByte(t, n, from) = u
    BY <1>0, <1>1 DEF BodyLen, AfterMsg, AfterByte, IsLast, ChunkBody
  <1> HIDE DEF h, len
  <1>4. q[Len(r) + 1] = [part |-> "header", fmt |-> fmt, kind |-> kind, msg |-> n,
                         from |-> from, at |-> 1]
    <2>1. 1 \in 1 .. Len(c) /\ 1 \in 1 .. h
      BY <1>1
    <2>2. q[Len(r) + 1] = c[1]
      BY <1>0, <2>1
    <2>3. QED
      BY <1>2, <2>1, <2>2
  <1>5. BodyAt(q, Len(r) + 1 + h, n, from, len)
    <2>1. Len(r) + 1 + h + len <= Len(q) + 1
      BY <1>0, <1>1
    <2>2. ASSUME NEW d \in 0 .. len - 1
          PROVE  q[Len(r) + 1 + h + d] = [part |-> "body", msg |-> n, at |-> from + d + 1]
      <3>1. /\ h + (d + 1) \in 1 .. Len(c) /\ d + 1 \in 1 .. len
            /\ Len(r) + (h + (d + 1)) = Len(r) + 1 + h + d /\ from + (d + 1) = from + d + 1
        <4>1. Len(r) \in Nat
          BY <1>0
        <4>2. QED
          BY <1>1, <4>1
      <3>2. q[Len(r) + (h + (d + 1))] = c[h + (d + 1)]
        BY <1>0, <3>1
      <3>3. c[h + (d + 1)] = [part |-> "body", msg |-> n, at |-> from + (d + 1)]
        BY <1>2, <3>1
      <3>4. QED
        BY <3>1, <3>2, <3>3
    <2>3. QED
      BY <2>1, <2>2 DEF BodyAt
  <1>6. ChunkNext(q, Len(r) + 1 + h + len, AfterMsg(t, n, from), AfterByte(t, n, from), t, u)
    <2>1. Len(r) + 1 + h + len = Len(q) + 1
      BY <1>0, <1>1
    <2>2. QED
      BY <1>0, <1>3, <2>1 DEF ChunkNext
  <1>7. WholeChunk(q, Len(r) + 1, n, from, fmt, t, u)
    <2>1. q[Len(r) + 1].kind = t[n] /\ n \in 1 .. Len(t)
      BY <1>0, <1>4
    <2>2. BodyAt(q, Len(r) + 1 + HeaderLen[fmt], n, from, BodyLen(t, n, from))
      BY <1>3, <1>5 DEF h
    <2>3. ChunkNext(q, Len(r) + 1 + HeaderLen[fmt] + BodyLen(t, n, from),
                    AfterMsg(t, n, from), AfterByte(t, n, from), t, u)
      BY <1>3, <1>6 DEF h
    <2>4. QED
      BY <1>0, <2>1, <2>2, <2>3 DEF WholeChunk
  <1>8. ASSUME NEW i \in Len(r) + 2 .. Len(q) PROVE q[i].part = "body" \/ q[i].at # 1
    <2> DEFINE j == i - Len(r)
    <2>1. j \in 2 .. Len(c) /\ Len(r) + j = i
      BY <1>0, <1>1
    <2>2. q[i] = c[j]
      BY <1>0, <2>1
    <2> HIDE DEF j
    <2>3. CASE j \in 2 .. h
      <3>1. j \in 1 .. h /\ j # 1
        BY <2>3
      <3>2. c[j] = [part |-> "header", fmt |-> fmt, kind |-> kind, msg |-> n,
                    from |-> from, at |-> j]
        BY <1>2, <3>1
      <3>3. QED
        BY <2>2, <3>1, <3>2
    <2>4. CASE j \in h + 1 .. h + len
      <3>1. j - h \in 1 .. len /\ h + (j - h) = j
        BY <1>1, <2>4
      <3>2. c[j] = [part |-> "body", msg |-> n, at |-> from + (j - h)]
        BY <1>2, <3>1
      <3>3. QED
        BY <2>2, <3>2
    <2>5. QED
      BY <1>1, <2>1, <2>3, <2>4
  <1>9. QED
    BY <1>4, <1>7, <1>8

LEMMA SendKeepsStream ==
  ASSUME TypeOK, StreamInv, Sender
  PROVE  StreamInv'
  <1>1. PICK n \in Nat \ {0}, kind \in Kinds, fmt \in Fmts, from \in Nat :
           /\ from < kind.size /\ SendChunk(n, kind, fmt, from)
           /\ sent' \in Seq(Kinds) /\ Len(sent) \in Nat /\ Len(sent') = n
           /\ Extends(sent', sent) /\ sent'[n] = kind
           /\ fmt \in {2, 3} /\ from = 0 => n > 1 /\ sent'[n - 1] = kind
           /\ IF passed = 0 THEN n = Len(sent) + 1 /\ from = 0
                            ELSE n = Len(sent) /\ from = passed
    BY SentChunk DEF StreamInv
  <1>2. /\ wire' = wire \o Chunk(n, kind, fmt, from)
        /\ passed' = IF from + ChunkSize < kind.size THEN from + ChunkSize ELSE 0
        /\ UNCHANGED <<decoderVars, dataStatus, first, packFinish, pc, delivered>>
    BY <1>1 DEF SendChunk
  <1>3. IsChunk(Chunk(n, kind, fmt, from), n, kind, fmt, from)
    BY <1>1, ChunkParts
  <1>4. /\ Chunk(n, kind, fmt, from) \in Seq(WireByte)
        /\ Len(Chunk(n, kind, fmt, from)) > 0
    <2>1. /\ Chunk(n, kind, fmt, from) \in Seq(WireByte)
          /\ ChunkBody(kind, from) \in Nat /\ ChunkBody(kind, from) > 0
          /\ Len(Chunk(n, kind, fmt, from)) = HeaderLen[fmt] + ChunkBody(kind, from)
      BY <1>3, Zenon DEF IsChunk
    <2>2. HeaderLen[fmt] \in Nat
      BY Constants
    <2>3. QED
      BY <2>1, <2>2
  <1>5. /\ UNCHANGED <<buffer, packStatus, readChunk, current, finished>>
        /\ sent \in Seq(Kinds)
    BY <1>2 DEF decoderVars, TypeOK
  <1>6. /\ Len(Rest') = Len(Rest) + Len(Chunk(n, kind, fmt, from))
        /\ Len(Chunk(n, kind, fmt, from)) \in Nat /\ Len(Rest) \in Nat
        /\ \A i \in 1 .. Len(Rest) : Rest'[i] = Rest[i]
        /\ \A i \in 1 .. Len(Chunk(n, kind, fmt, from)) :
             Rest'[Len(Rest) + i] = Chunk(n, kind, fmt, from)[i]
    BY <1>2, <1>4, <1>5, RestGrows, RestType
  <1>7. /\ Rest'[Len(Rest) + 1] = [part |-> "header", fmt |-> fmt, kind |-> kind,
                                   msg |-> n, from |-> from, at |-> 1]
        /\ WholeChunk(Rest', Len(Rest) + 1, n, from, fmt, sent', passed')
        /\ \A i \in Len(Rest) + 2 .. Len(Rest') :
             Rest'[i].part = "body" \/ Rest'[i].at # 1
    <2>1. PutBehind(Rest', Rest, Chunk(n, kind, fmt, from))
      BY <1>6, Zenon DEF PutBehind
    <2>2. SentNow(sent', passed', n, kind, fmt, from)
      BY <1>1, <1>2 DEF SentNow
    <2>3. QED
      BY <1>1, <1>3, <2>1, <2>2, ChunkBehind
  <1>8. NextSent(Rest', Rest, n, from, sent, passed) /\ IsFront(Rest', Rest)
    <2>1. IsFront(Rest', Rest)
      BY <1>4, <1>6 DEF IsFront
    <2>2. QED
      BY <1>1, <1>7, <2>1 DEF NextSent
  <1>9. InChunks(Rest, sent, passed)'
    <2>1. InChunks(Rest, sent, passed)
      BY DEF StreamInv
    <2>2. WholeChunk(Rest', Len(Rest) + 1, n, from, Rest'[Len(Rest) + 1].fmt, sent', passed')
      BY <1>7
    <2>3. \A i \in Len(Rest) + 2 .. Len(Rest') :
            Rest'[i].part = "body" \/ Rest'[i].at # 1
      BY <1>7, Zenon
    <2>4. InChunks(Rest', sent', passed')
      BY <1>1, <1>5, <1>8, <2>1, <2>2, <2>3, ChunksExtended
    <2>5. QED
      BY <2>4 DEF InChunks
  <1>10. /\ Len(finished) \in Nat /\ Len(finished) <= Len(sent)
         /\ DOMAIN finished = 1 .. Len(finished)
         /\ \A j \in 1 .. Len(finished) : finished[j] = Pack(j)
    BY LenProperties DEF StreamInv, Reassembled, TypeOK
  <1>11. Reassembled'
    <2>1. Len(finished) <= Len(sent')
      BY <1>1, <1>5, <1>10 DEF Extends
    <2>2. ASSUME NEW j \in 1 .. Len(finished) PROVE finished[j] = Pack(j)'
      <3>1. j \in 1 .. Len(sent)
        BY <1>1, <1>10
      <3>2. sent'[j] = sent[j]
        BY <1>1, <1>5, <3>1 DEF Extends
      <3>3. finished[j] = Pack(j)
        BY <1>10
      <3>4. QED
        BY <3>2, <3>3 DEF Pack
    <2>3. QED
      BY <1>5, <1>10, <2>1, <2>2 DEF Reassembled
  <1>12. DecoderInv'
    <2> DEFINE k == Len(finished)
    <2>1. CASE packStatus = "header"
      <3>1. AtHeader
        BY <2>1 DEF StreamInv, DecoderInv
      <3>2. ChunkNext(Rest', 1, k + 1, Len(current.body), sent', passed')
        BY <1>8, <3>1, NextExtended DEF AtHeader
      <3>3. k > 0 => sent'[k] = sent[k]
        BY <1>1, <1>10 DEF Extends
      <3>4. k < Len(sent) => k < Len(sent') /\ sent'[k + 1] = sent[k + 1]
        <4>1. k < Len(sent) => k + 1 \in 1 .. Len(sent)
          BY <1>1, <1>10
        <4>2. QED
          BY <1>1, <1>10, <4>1 DEF Extends
      <3>5. AtHeader'
        BY <1>5, <3>1, <3>2, <3>3, <3>4 DEF AtHeader
      <3>6. QED
        BY <1>5, <2>1, <3>5 DEF DecoderInv
    <2>2. CASE packStatus # "header"
      <3>1. InBody(Rest, 1, current)
        BY <2>2 DEF StreamInv, DecoderInv
      <3>2. UNCHANGED <<ChunkOver(current), Want(current)>>
        BY <1>5 DEF ChunkOver, Want, Remain
      <3>3. k < Len(sent') /\ sent'[k + 1] = sent[k + 1]
        <4>1. k + 1 \in 1 .. Len(sent)
          BY <1>1, <1>10, <3>1 DEF InBody
        <4>2. QED
          BY <1>1, <1>10, <4>1 DEF Extends
      <3>4. Want(current) \in Nat
        <4>1. current.size \in Nat /\ Len(current.body) \in Nat
          BY LenProperties DEF TypeOK, PackType
        <4>2. readChunk \in 0 .. ChunkSize - 1 /\ ChunkSize \in Nat
          BY Constants DEF TypeOK
        <4>3. Want(current) > 0
          BY <3>1 DEF InBody
        <4>4. QED
          BY <4>1, <4>2, <4>3 DEF Want, Remain
      <3>5. BodyAt(Rest', 1, k + 1, Len(current.body), Want(current))
        BY <1>8, <3>1, <3>4, BodyExtended DEF InBody
      <3>6. ChunkNext(Rest', 1 + Want(current),
                      IF ChunkOver(current) THEN k + 2 ELSE k + 1,
                      IF ChunkOver(current) THEN 0 ELSE Len(current.body) + Want(current),
                      sent', passed')
        BY <1>8, <3>1, NextExtended DEF InBody
      <3>7. InBody(Rest, 1, current)'
        BY <1>5, <3>1, <3>2, <3>3, <3>5, <3>6 DEF InBody
      <3>8. QED
        BY <1>5, <2>2, <3>7 DEF DecoderInv
    <2>3. QED
      BY <2>1, <2>2
  <1>13. SenderInv'
    BY NextTypes DEF Next, StreamInv
  <1>14. QED
    BY <1>9, <1>11, <1>12, <1>13 DEF StreamInv

-----------------------------------------------------------------------------
(* The decoder takes bytes *)

\* What is not decoded yet does not change when it is read.
LEMMA RestKept ==
  ASSUME StreamInv, Rest' = Rest,
         UNCHANGED <<packStatus, readChunk, current, finished, senderVars>>
  PROVE  StreamInv'
  <1>1. SenderInv' /\ InChunks(Rest, sent, passed)' /\ Reassembled'
    BY DEF StreamInv, SenderInv, InChunks, Reassembled, Pack, senderVars
  <1>2. AtHeader => AtHeader'
    BY DEF AtHeader, senderVars
  <1>3. InBody(Rest, 1, current) => InBody(Rest, 1, current)'
    BY DEF InBody, Want, ChunkOver, Remain, senderVars
  <1>4. QED
    BY <1>1, <1>2, <1>3 DEF StreamInv, DecoderInv

\* Behind the header, if there is one, the body of a chunk goes on.
LEMMA BehindHeader ==
  ASSUME TypeOK, StreamInv, CanDecode
  PROVE  InBody(Rest, HeaderTaken + 1, DecodeHeader)
  <1> DEFINE k == Len(finished)
             b == Len(current.body)
  <1>1. CASE packStatus = "body"
    <2>1. DecodeHeader = current /\ HeaderTaken + 1 = 1
      BY <1>1 DEF DecodeHeader, HeaderTaken
    <2>2. InBody(Rest, 1, current)
      BY <1>1 DEF StreamInv, DecoderInv
    <2>3. QED
      BY <2>1, <2>2
  <1>2. CASE packStatus = "header"
    <2>1. AtHeader
      BY <1>2 DEF StreamInv, DecoderInv
    <2>2. /\ 1 \in 1 .. Len(Rest) /\ Len(Rest) \in Nat /\ Rest[1] = Head(buffer)
          /\ k \in Nat /\ b \in Nat /\ sent \in Seq(Kinds)
      <3>1. Len(buffer) \in Nat /\ Len(buffer) > 0 /\ Head(buffer) = buffer[1]
        BY HeaderTypes
      <3>2. k \in Nat /\ b \in Nat /\ sent \in Seq(Kinds)
        BY LenProperties DEF TypeOK, PackType
      <3>3. QED
        BY <3>1, <3>2, RestType
    <2> DEFINE fmt == Rest[1].fmt
    <2>3. /\ Rest[1].part = "header" /\ Rest[1].at = 1
          /\ Rest[1].msg = k + 1 /\ Rest[1].from = b
      BY <2>1, <2>2 DEF AtHeader, ChunkNext
    <2>4. WholeChunk(Rest, 1, k + 1, b, fmt, sent, passed)
      BY <2>2, <2>3 DEF StreamInv, InChunks
    <2>5. FmtOf(Head(buffer)) = fmt
      BY <2>2, <2>3 DEF FmtOf
    <2> DEFINE h == HeaderLen[fmt]
    <2>6. HeaderTaken = h
      BY <1>2, <2>5 DEF HeaderTaken
    <2>7. /\ k + 1 \in 1 .. Len(sent) /\ b < sent[k + 1].size /\ fmt \in Fmts
          /\ fmt \in {0, 1} => Rest[1].kind = sent[k + 1]
          /\ fmt \in {2, 3} /\ b = 0 => k + 1 > 1 /\ sent[k + 1 - 1] = sent[k + 1]
          /\ BodyAt(Rest, 1 + h, k + 1, b, BodyLen(sent, k + 1, b))
          /\ ChunkNext(Rest, 1 + h + BodyLen(sent, k + 1, b), AfterMsg(sent, k + 1, b),
                       AfterByte(sent, k + 1, b), sent, passed)
      BY <2>4 DEF WholeChunk
    <2> HIDE DEF fmt
    <2>8. /\ DecodeHeader.type = sent[k + 1].type /\ DecodeHeader.size = sent[k + 1].size
          /\ DecodeHeader.body = current.body
      <3>1. DecodeHeader.body = current.body /\ current \in PackType
        BY HeaderTypes DEF TypeOK
      <3>2. CASE fmt \in {0, 1}
        <4>1. DecodeHeader = [current EXCEPT !.type = sent[k + 1].type,
                                             !.size = sent[k + 1].size]
          BY <1>2, <2>2, <2>5, <2>7, <3>2 DEF DecodeHeader
        <4>2. QED
          BY <3>1, <4>1 DEF PackType
      <3>3. CASE fmt \in {2, 3}
        <4>1. DecodeHeader = current
          BY <2>5, <3>3 DEF DecodeHeader
        <4>2. CASE b = 0
          <5>1. k > 0 /\ k + 1 - 1 = k /\ sent[k] = sent[k + 1]
            BY <2>2, <2>7, <3>3, <4>2
          <5>2. QED
            BY <2>1, <3>1, <4>1, <4>2, <5>1 DEF AtHeader
        <4>3. CASE b # 0
          BY <2>1, <3>1, <4>1, <4>3 DEF AtHeader
        <4>4. QED
          BY <4>2, <4>3
      <3>4. QED
        BY <2>7, <3>2, <3>3
    <2>9. sent[k + 1].size \in Nat /\ ChunkSize \in Nat /\ ChunkSize > 0
      BY <2>2, <2>7, Constants, ElementOfSeq
    <2>10. /\ ChunkOver(DecodeHeader) <=> IsLast(sent, k + 1, b)
           /\ Want(DecodeHeader) = BodyLen(sent, k + 1, b)
           /\ Want(DecodeHeader) \in Nat /\ Want(DecodeHeader) > 0
           /\ ChunkOver(DecodeHeader) \/ b + Want(DecodeHeader) < DecodeHeader.size
      <3>1. readChunk = 0
        BY <2>1 DEF AtHeader
      <3>2. Remain(DecodeHeader) = sent[k + 1].size - b
        BY <2>8 DEF Remain
      <3>3. ChunkOver(DecodeHeader) <=> IsLast(sent, k + 1, b)
        BY <2>2, <2>7, <2>9, <3>1, <3>2 DEF ChunkOver, IsLast
      <3>4. QED
        BY <2>2, <2>7, <2>8, <2>9, <3>1, <3>2, <3>3 DEF Want, BodyLen, IsLast
    <2>11. /\ AfterMsg(sent, k + 1, b) = IF ChunkOver(DecodeHeader) THEN k + 2 ELSE k + 1
           /\ AfterByte(sent, k + 1, b)
                = IF ChunkOver(DecodeHeader) THEN 0 ELSE b + Want(DecodeHeader)
      BY <2>2, <2>10 DEF AfterMsg, AfterByte, BodyLen
    <2>12. current.body = BodyBytes(k + 1, 0, b) /\ k < Len(sent) /\ 1 + h = HeaderTaken + 1
      <3>1. h \in Nat /\ Len(sent) \in Nat
        BY <2>2, <2>7, Constants, LenProperties
      <3>2. QED
        BY <2>1, <2>2, <2>6, <2>7, <3>1 DEF AtHeader
    <2> HIDE DEF h
    <2>13. QED
      BY <2>7, <2>8, <2>10, <2>11, <2>12 DEF InBody
  <1>3. QED
    BY <1>1, <1>2 DEF TypeOK

LEMMA RestShrinks ==
  ASSUME TypeOK, NEW m, IsRest(buffer', buffer, m), buffer' \in Seq(WireByte), wire' = wire
  PROVE  IsRest(Rest', Rest, m)
  <1>1. /\ Len(buffer) \in Nat /\ m \in 0 .. Len(buffer) /\ Len(buffer') = Len(buffer) - m
        /\ \A i \in 1 .. Len(buffer') : buffer'[i] = buffer[m + i]
    BY DEF IsRest
  <1>2. buffer \in Seq(WireByte) /\ wire \in Seq(WireByte) /\ Len(wire) \in Nat
    BY LenProperties DEF TypeOK
  <1>3. /\ Len(Rest) = Len(buffer) + Len(wire)
        /\ \A i \in 1 .. Len(buffer) : Rest[i] = buffer[i]
        /\ \A i \in 1 .. Len(wire) : Rest[Len(buffer) + i] = wire[i]
    BY <1>2, Joined DEF Rest
  <1>4. /\ Len(Rest') = Len(buffer') + Len(wire)
        /\ \A i \in 1 .. Len(buffer') : Rest'[i] = buffer'[i]
        /\ \A i \in 1 .. Len(wire) : Rest'[Len(buffer') + i] = wire[i]
    <2>1. /\ Len(buffer' \o wire) = Len(buffer') + Len(wire)
          /\ \A i \in 1 .. Len(buffer') : (buffer' \o wire)[i] = buffer'[i]
          /\ \A i \in 1 .. Len(wire) : (buffer' \o wire)[Len(buffer') + i] = wire[i]
      BY <1>2, Joined
    <2>2. Rest' = buffer' \o wire
      BY DEF Rest
    <2>3. QED
      BY <2>1, <2>2
  <1>5. Len(Rest) \in Nat /\ m \in 0 .. Len(Rest) /\ Len(Rest') = Len(Rest) - m
    BY <1>1, <1>2, <1>3, <1>4
  <1>6. ASSUME NEW i \in 1 .. Len(Rest') PROVE Rest'[i] = Rest[m + i]
    <2>1. CASE i \in 1 .. Len(buffer')
      <3>1. m + i \in 1 .. Len(buffer)
        BY <1>1, <2>1
      <3>2. QED
        BY <1>1, <1>3, <1>4, <2>1, <3>1
    <2>2. CASE i > Len(buffer')
      <3> DEFINE j == i - Len(buffer')
      <3>1. /\ j \in 1 .. Len(wire) /\ Len(buffer') + j = i
            /\ Len(buffer) + j = m + i
        BY <1>1, <1>2, <1>4, <2>2
      <3> HIDE DEF j
      <3>2. Rest'[Len(buffer') + j] = wire[j] /\ Rest[Len(buffer) + j] = wire[j]
        BY <1>3, <1>4, <3>1
      <3>3. QED
        BY <3>1, <3>2
    <2>3. QED
      BY <1>1, <2>1, <2>2
  <1>7. QED
    BY <1>5, <1>6 DEF IsRest

\* The bytes of a body in a row.
LEMMA BodyRow ==
  ASSUME NEW n \in Nat, NEW b \in Nat
  PROVE  /\ Len(BodyBytes(n, 0, b)) = b /\ DOMAIN BodyBytes(n, 0, b) = 1 .. b
         /\ \A i \in 1 .. b :
              BodyBytes(n, 0, b)[i] = [part |-> "body", msg |-> n, at |-> i]
  <1>1. b - 0 = b /\ \A i \in 1 .. b : 0 + i = i
    OBVIOUS
  <1>2. BodyBytes(n, 0, b) = [i \in 1 .. b |-> [part |-> "body", msg |-> n, at |-> i]]
    BY <1>1 DEF BodyBytes
  <1>3. QED
    BY <1>2

\* d is c and e bytes of r from place i on, where the body that begins with c
\* goes on for len bytes.
GrownFrom(d, c, r, i, n, len, e) ==
  /\ n \in Nat /\ i \in Nat /\ len \in Nat /\ e \in 0 .. len
  /\ c \in Seq(WireByte) /\ d \in Seq(WireByte)
  /\ c = BodyBytes(n, 0, Len(c)) /\ BodyAt(r, i, n, Len(c), len)
  /\ Len(d) = Len(c) + e
  /\ \A j \in 1 .. Len(c) : d[j] = c[j]
  /\ \A j \in 1 .. e : d[Len(c) + j] = r[i - 1 + j]

\* What is put behind the body of a pack is what comes next of it.
LEMMA BodyGoesOn ==
  ASSUME NEW n, NEW c, NEW d, NEW r, NEW i, NEW len, NEW e,
         GrownFrom(d, c, r, i, n, len, e)
  PROVE  d = BodyBytes(n, 0, Len(d))
  <1>0. /\ n \in Nat /\ i \in Nat /\ len \in Nat /\ e \in 0 .. len
        /\ c \in Seq(WireByte) /\ d \in Seq(WireByte)
        /\ c = BodyBytes(n, 0, Len(c)) /\ BodyAt(r, i, n, Len(c), len)
        /\ Len(d) = Len(c) + e
        /\ \A j \in 1 .. Len(c) : d[j] = c[j]
        /\ \A j \in 1 .. e : d[Len(c) + j] = r[i - 1 + j]
    BY DEF GrownFrom
  <1>1. Len(c) \in Nat /\ Len(d) \in Nat /\ d \in [1 .. Len(d) -> WireByte]
    BY <1>0, LenProperties
  <1>2. ASSUME NEW j \in 1 .. Len(d) PROVE d[j] = [part |-> "body", msg |-> n, at |-> j]
    <2>1. CASE j \in 1 .. Len(c)
      <3>1. BodyBytes(n, 0, Len(c))[j] = [part |-> "body", msg |-> n, at |-> j]
        BY <1>0, <1>1, <2>1, BodyRow
      <3>2. d[j] = c[j]
        BY <1>0, <2>1
      <3>3. c[j] = [part |-> "body", msg |-> n, at |-> j]
        BY <1>0, <3>1
      <3>4. QED
        BY <3>2, <3>3
    <2>2. CASE j > Len(c)
      <3>1. /\ j - Len(c) \in 1 .. e /\ Len(c) + (j - Len(c)) = j
            /\ j - Len(c) - 1 \in 0 .. len - 1
            /\ i - 1 + (j - Len(c)) = i + (j - Len(c) - 1)
            /\ Len(c) + (j - Len(c) - 1) + 1 = j
        <4>1. Len(d) = Len(c) + e /\ e \in 0 .. len /\ len \in Nat /\ i \in Nat
          BY <1>0
        <4>2. QED
          BY <1>1, <2>2, <4>1
      <3>2. d[j] = r[i + (j - Len(c) - 1)]
        BY <1>0, <3>1
      <3>3. r[i + (j - Len(c) - 1)]
              = [part |-> "body", msg |-> n, at |-> Len(c) + (j - Len(c) - 1) + 1]
        BY <1>0, <3>1 DEF BodyAt
      <3>4. QED
        BY <3>1, <3>2, <3>3
    <2>3. QED
      BY <1>1, <2>1, <2>2
  <1>3. d = [j \in 1 .. Len(d) |-> [part |-> "body", msg |-> n, at |-> j]]
    BY <1>1, <1>2
  <1>4. BodyBytes(n, 0, Len(d)) = [j \in 1 .. Len(d) |-> [part |-> "body", msg |-> n, at |-> j]]
    <2>1. Len(d) - 0 = Len(d) /\ \A j \in 1 .. Len(d) : 0 + j = j
      BY <1>1
    <2>2. QED
      BY <2>1 DEF BodyBytes
  <1>5. QED
    BY <1>3, <1>4

LEMMA DecodeKeepsStream ==
  ASSUME TypeOK, StreamInv, DecodePack, UNCHANGED <<wire, senderVars>>
  PROVE  StreamInv'
  <1> DEFINE k == Len(finished)
             b == Len(current.body)
             pack == DecodeHeader
             w == Want(pack)
             h == HeaderTaken
             n == BodyTaken
  <1>1. CanDecode /\ wire' = wire /\ sent' = sent /\ passed' = passed
    BY DEF DecodePack, senderVars
  <1>2. /\ k \in Nat /\ b \in Nat /\ w \in Nat /\ h \in Nat /\ n \in 0 .. w
        /\ pack \in PackType /\ pack.body = current.body
        /\ sent \in Seq(Kinds) /\ Len(sent) \in Nat /\ finished \in Seq(PackType)
        /\ Len(buffer) \in Nat /\ h + n \in 0 .. Len(buffer)
    BY <1>1, HeaderTypes, Decoded, LenProperties DEF TypeOK
  <1>3. InBody(Rest, h + 1, pack)
    BY <1>1, BehindHeader
  <1>4. /\ k < Len(sent) /\ w > 0
        /\ pack.type = sent[k + 1].type /\ pack.size = sent[k + 1].size
        /\ current.body = BodyBytes(k + 1, 0, b)
        /\ Over \/ b + w < pack.size
        /\ BodyAt(Rest, h + 1, k + 1, b, w)
        /\ ChunkNext(Rest, h + 1 + w, IF Over THEN k + 2 ELSE k + 1,
                     IF Over THEN 0 ELSE b + w, sent, passed)
    BY <1>2, <1>3 DEF InBody, Over
  <1>5. /\ IsRest(Rest', Rest, h + n)
        /\ readChunk' = IF Over THEN readChunk ELSE IF Full THEN 0 ELSE readChunk + n
        /\ packStatus' = IF Full THEN "header" ELSE "body"
        /\ Over /\ Full => /\ last' = Read /\ finished' = Append(finished, Read)
                           /\ current' = [pack EXCEPT !.body = <<>>]
        /\ ~(Over /\ Full) => current' = Read /\ UNCHANGED <<last, finished>>
    BY <1>1, DecodeEffect, RestShrinks
  <1>6. /\ Read \in PackType /\ Read.type = pack.type /\ Read.size = pack.size
        /\ Len(Read.body) = b + n
        /\ \A i \in 1 .. b : Read.body[i] = current.body[i]
        /\ \A i \in 1 .. n : Read.body[b + i] = buffer[h + i]
    BY <1>1, GrownBy
  <1>7. Full <=> n = w
    BY DEF Full
  <1>8. Over <=> pack.size - b \in 0 .. ChunkSize /\ readChunk = 0
    BY <1>2 DEF Over, ChunkOver, Remain
  <1>9. /\ w = IF Over THEN pack.size - b ELSE ChunkSize - readChunk
        /\ pack.size \in Nat /\ readChunk \in 0 .. ChunkSize - 1 /\ ChunkSize \in Nat
    BY <1>2, Constants DEF Over, Want, Remain, TypeOK, PackType
  <1> HIDE DEF k, b, pack, w, h, n
  <1>10. Read.body = BodyBytes(k + 1, 0, b + n)
    <2>1. ASSUME NEW j \in 1 .. n PROVE Read.body[b + j] = Rest[h + 1 - 1 + j]
      <3>1. h + j \in 1 .. Len(buffer) /\ h + 1 - 1 + j = h + j
        BY <1>2
      <3>2. Rest[h + j] = buffer[h + j]
        BY <3>1, RestType
      <3>3. QED
        BY <1>6, <3>1, <3>2
    <2>2. /\ current.body \in Seq(WireByte) /\ Read.body \in Seq(WireByte)
          /\ k + 1 \in Nat /\ h + 1 \in Nat /\ b = Len(current.body)
      BY <1>2, <1>6 DEF TypeOK, PackType, b
    <2>3. Read.body = BodyBytes(k + 1, 0, Len(Read.body))
      <3>1. /\ current.body = BodyBytes(k + 1, 0, Len(current.body))
            /\ BodyAt(Rest, h + 1, k + 1, Len(current.body), w)
            /\ Len(Read.body) = Len(current.body) + n
            /\ \A j \in 1 .. Len(current.body) : Read.body[j] = current.body[j]
            /\ \A j \in 1 .. n : Read.body[Len(current.body) + j] = Rest[h + 1 - 1 + j]
        BY <1>4, <1>6, <2>1, <2>2
      <3>2. QED
        <4>1. GrownFrom(Read.body, current.body, Rest, h + 1, k + 1, w, n)
          BY <1>2, <2>2, <3>1 DEF GrownFrom
        <4>2. QED
          BY <4>1, BodyGoesOn
    <2>4. QED
      BY <1>6, <2>3
  <1>11. SenderInv' /\ InChunks(Rest, sent, passed)'
    <2>1. InChunks(Rest', sent, passed)
      <3>1. InChunks(Rest, sent, passed)
        BY DEF StreamInv
      <3>2. QED
        BY <1>2, <1>5, <3>1, ChunksDropped
    <2>2. SenderInv'
      BY <1>1 DEF StreamInv, SenderInv
    <2>3. QED
      BY <1>1, <2>1, <2>2 DEF InChunks
  <1>12. /\ \A j \in 1 .. k : finished[j] = Pack(j)
         /\ DOMAIN finished = 1 .. k
    BY <1>2, LenProperties DEF StreamInv, Reassembled, k
  <1>13. CASE Over /\ Full
    <2>1. /\ finished' = Append(finished, Read) /\ current' = [pack EXCEPT !.body = <<>>]
          /\ packStatus' = "header" /\ readChunk' = 0
      BY <1>5, <1>8, <1>13
    <2>2. b + n = pack.size
      BY <1>2, <1>7, <1>9, <1>13
    <2>3. Read = Pack(k + 1)
      <3>1. Read.type = sent[k + 1].type /\ Read.size = sent[k + 1].size
            /\ Read.body = BodyBytes(k + 1, 0, sent[k + 1].size)
        BY <1>4, <1>6, <1>10, <2>2
      <3>2. Read = [type |-> Read.type, size |-> Read.size, body |-> Read.body]
        BY <1>6 DEF PackType
      <3>3. QED
        BY <3>1, <3>2 DEF Pack
    <2>4. /\ finished' \in Seq(PackType) /\ Len(finished') = k + 1
          /\ \A j \in 1 .. k : finished'[j] = finished[j]
          /\ finished'[k + 1] = Read
      BY <1>2, <1>6, <2>1, Appended DEF k
    <2>5. DOMAIN finished' = 1 .. k + 1
      BY <2>4, LenProperties
    <2>6. Reassembled'
      <3>1. \A j \in 1 .. k + 1 : finished'[j] = Pack(j)
        BY <1>2, <1>12, <2>3, <2>4
      <3>2. \A j \in 1 .. k + 1 : Pack(j)' = Pack(j)
        BY <1>1 DEF Pack
      <3>3. k + 1 <= Len(sent)
        BY <1>2, <1>4
      <3>4. QED
        BY <1>1, <2>4, <2>5, <3>1, <3>2, <3>3 DEF Reassembled
    <2>7. /\ current'.type = sent[k + 1].type /\ current'.size = sent[k + 1].size
          /\ current'.body = <<>> /\ Len(current'.body) = 0
      BY <1>2, <1>4, <2>1, EmptySeq DEF PackType
    <2>8. current'.body = BodyBytes(k + 2, 0, 0)
      BY <2>7 DEF BodyBytes
    <2>9. ChunkNext(Rest', 1, k + 2, 0, sent, passed)
      <3>1. h + 1 + w = (h + n) + 1 /\ 1 \in Nat /\ 1 > 0
        BY <1>2, <1>7, <1>13
      <3>2. ChunkNext(Rest, h + 1 + w, k + 2, 0, sent, passed)
        BY <1>4, <1>13
      <3>3. QED
        BY <1>5, <3>1, <3>2, NextDropped
    <2>10. AtHeader'
      <3>1. Len(finished') + 1 = k + 2
        BY <1>2, <2>4
      <3>2. QED
        BY <1>1, <2>1, <2>4, <2>7, <2>8, <2>9, <3>1 DEF AtHeader
    <2>11. QED
      BY <1>11, <2>1, <2>6, <2>10 DEF StreamInv, DecoderInv
  <1>14. CASE ~(Over /\ Full)
    <2>1. current' = Read /\ finished' = finished
      BY <1>5, <1>14
    <2>2. Reassembled'
      BY <1>1, <2>1 DEF StreamInv, Reassembled, Pack
    <2>3. CASE Full
      <3>1. packStatus' = "header" /\ readChunk' = 0 /\ ~Over /\ n = w
        BY <1>5, <1>7, <1>14, <2>3
      <3>2. ChunkNext(Rest', 1, k + 1, b + w, sent, passed)
        <4>1. h + 1 + w = (h + n) + 1 /\ 1 \in Nat /\ 1 > 0
          BY <1>2, <3>1
        <4>2. ChunkNext(Rest, h + 1 + w, k + 1, b + w, sent, passed)
          BY <1>4, <3>1
        <4>3. QED
          BY <1>5, <4>1, <4>2, NextDropped
      <3>3. Len(Read.body) = b + w /\ b + w # 0 /\ b + w < Read.size
        BY <1>2, <1>4, <1>6, <3>1
      <3>4. AtHeader'
        <4>1. /\ Len(finished') = k /\ finished' = finished /\ current' = Read
              /\ Len(current'.body) = b + w /\ ~(Len(current'.body) = 0)
          BY <2>1, <3>3 DEF k
        <4>2. ChunkNext(Rest', 1, Len(finished') + 1, Len(current'.body), sent', passed')
          BY <1>1, <3>2, <4>1
        <4>3. current'.body = BodyBytes(Len(finished') + 1, 0, Len(current'.body))
          BY <1>10, <3>1, <3>3, <4>1
        <4>4. /\ Len(finished') < Len(sent') /\ Len(current'.body) < current'.size
              /\ current'.type = sent'[Len(finished') + 1].type
              /\ current'.size = sent'[Len(finished') + 1].size
          BY <1>1, <1>4, <1>6, <3>3, <4>1
        <4>5. QED
          BY <3>1, <4>1, <4>2, <4>3, <4>4, Zenon DEF AtHeader
      <3>5. QED
        BY <1>11, <2>2, <3>1, <3>4 DEF StreamInv, DecoderInv
    <2>4. CASE ~Full
      <3>1. /\ packStatus' = "body" /\ n < w
            /\ readChunk' = IF Over THEN readChunk ELSE readChunk + n
        BY <1>2, <1>5, <1>7, <2>4
      <3>2. (Remain(current))' = pack.size - (b + n)
        BY <1>6, <2>1 DEF Remain
      <3>3. (ChunkOver(current))' <=> Over
        <4>1. (ChunkOver(current))' <=> pack.size - (b + n) \in 0 .. ChunkSize /\ readChunk' = 0
          BY <3>2, Zenon DEF ChunkOver
        <4>2. CASE Over
          <5>1. pack.size - b \in 0 .. ChunkSize /\ readChunk' = 0 /\ w = pack.size - b
            BY <1>8, <1>9, <3>1, <4>2
          <5>2. pack.size - (b + n) \in 0 .. ChunkSize
            <6>1. n \in Nat /\ w \in Nat /\ b \in Nat /\ pack.size \in Nat /\ ChunkSize \in Nat
              BY <1>2, <1>9
            <6>2. n < w /\ w = pack.size - b /\ w <= ChunkSize
              BY <3>1, <5>1, <6>1
            <6>3. pack.size - (b + n) = w - n
              BY <6>1, <6>2
            <6>4. QED
              BY <6>1, <6>2, <6>3
          <5>3. QED
            BY <4>1, <4>2, <5>1, <5>2
        <4>3. CASE ~Over
          <5>1. ASSUME readChunk' = 0 PROVE n = 0 /\ readChunk = 0
            BY <1>2, <1>9, <3>1, <4>3, <5>1
          <5>2. n = 0 => pack.size - (b + n) = pack.size - b
            BY <1>2, <1>9
          <5>3. QED
            BY <1>8, <4>1, <4>3, <5>1, <5>2
        <4>4. QED
          BY <4>2, <4>3
      <3>4. (Want(current))' = w - n /\ w - n > 0 /\ w - n \in Nat
        <4>1. (Want(current))' = IF Over THEN pack.size - (b + n) ELSE ChunkSize - readChunk'
          BY <3>2, <3>3 DEF Want
        <4>2. pack.size - (b + n) = pack.size - b - n
          BY <1>2, <1>9
        <4>3. CASE Over
          BY <1>2, <1>9, <3>1, <4>1, <4>2, <4>3
        <4>4. CASE ~Over
          BY <1>2, <1>9, <3>1, <4>1, <4>4
        <4>5. QED
          BY <4>3, <4>4
      <3>5. BodyAt(Rest', 1, k + 1, b + n, w - n)
        <4>1. BodyAt(Rest', h + 1 + n - (h + n), k + 1, b + n, w - n)
          <5>1. h + 1 \in Nat /\ h + 1 > 0 /\ h + 1 + n > h + n
            BY <1>2
          <5>2. QED
            BY <1>2, <1>4, <1>5, <5>1, BodyDropped
        <4>2. h + 1 + n - (h + n) = 1
          BY <1>2
        <4>3. QED
          BY <4>1, <4>2
      <3>6. ChunkNext(Rest', 1 + (w - n), IF Over THEN k + 2 ELSE k + 1,
                      IF Over THEN 0 ELSE b + w, sent, passed)
        <4>1. h + 1 + w = (h + n) + (1 + (w - n)) /\ 1 + (w - n) \in Nat /\ 1 + (w - n) > 0
          BY <1>2, <3>4
        <4>2. QED
          BY <1>4, <1>5, <4>1, NextDropped
      <3>7. /\ Over \/ b + n + (w - n) < Read.size
            /\ b + n + (w - n) = b + w
        BY <1>2, <1>4, <1>6
      <3>8. InBody(Rest, 1, current)'
        <4>1. Len(finished)' = k /\ Len(current.body)' = b + n
          BY <1>6, <2>1 DEF k
        <4>2. /\ current'.type = sent[k + 1].type /\ current'.size = sent[k + 1].size
              /\ current'.body = BodyBytes(k + 1, 0, b + n)
          BY <1>4, <1>6, <1>10, <2>1
        <4>3. QED
          BY <1>1, <1>4, <2>1, <3>3, <3>4, <3>5, <3>6, <3>7, <4>1, <4>2 DEF InBody
      <3>9. QED
        BY <1>11, <2>2, <3>1, <3>8 DEF StreamInv, DecoderInv
    <2>5. QED
      BY <2>3, <2>4
  <1>15. QED
    BY <1>13, <1>14

LEMMA NextStream == TypeOK /\ StreamInv /\ [Next]_vars => StreamInv'
  <1> SUFFICES ASSUME TypeOK, StreamInv, [Next]_vars PROVE StreamInv'
    OBVIOUS
  <1>1. CASE Sender
    BY <1>1, SendKeepsStream
  <1>2. CASE ReadFromSockfd
    <2>1. PICK n \in 1 .. Smaller(Len(wire), RecvCap - Len(buffer)) :
            /\ buffer' = buffer \o SubSeq(wire, 1, n)
            /\ wire' = SubSeq(wire, n + 1, Len(wire))
      BY <1>2 DEF ReadFromSockfd
    <2>2. /\ wire \in Seq(WireByte) /\ buffer \in Seq(WireByte)
          /\ Len(wire) \in Nat /\ Len(buffer) \in Nat
      BY LenProperties DEF TypeOK
    <2>3. n \in 0 .. Len(wire) /\ n \in 1 - 1 .. Len(wire) /\ Len(wire) \in n .. Len(wire)
          /\ 1 \in 1 .. Len(wire) + 1
      BY <2>1, <2>2, Constants DEF Smaller
    <2>4. SubSeq(wire, 1, n) \in Seq(WireByte) /\ wire' \in Seq(WireByte)
      BY <2>1, <2>2, <2>3, Taken, Dropped
    <2>5. SubSeq(wire, 1, n) \o wire' = wire
      <3>1. SubSeq(wire, 1, n) \o SubSeq(wire, n + 1, Len(wire)) = SubSeq(wire, 1, Len(wire))
        BY <2>2, <2>3, ConcatAdjacentSubSeq
      <3>2. QED
        BY <2>1, <2>2, <3>1, SubSeqFull
    <2>6. (buffer \o SubSeq(wire, 1, n)) \o wire' = buffer \o (SubSeq(wire, 1, n) \o wire')
      BY <2>2, <2>4, ConcatAssociative
    <2>7. Rest' = Rest
      BY <2>1, <2>5, <2>6 DEF Rest
    <2>8. QED
      BY <1>2, <2>7, RestKept DEF ReadFromSockfd
  <1>3. CASE ParseFirstHeader \/ DecodeDataPack
    BY <1>3, DecodeKeepsStream DEF ParseFirstHeader, DecodeDataPack
  <1>4. CASE BeginFirstHeader \/ EndFirstHeader \/ EndDecodeData \/ NewRtmpPack
             \/ Done \/ UNCHANGED vars
    <2>1. UNCHANGED <<decoderVars, wire, senderVars>>
      BY <1>4 DEF BeginFirstHeader, EndFirstHeader, EndDecodeData, NewRtmpPack, Done, vars
    <2>2. QED
      BY <2>1, RestKept DEF Rest, decoderVars
  <1>5. QED
    BY <1>1, <1>2, <1>3, <1>4 DEF Next, Handler

LEMMA InitStream == Init => StreamInv
  <1> SUFFICES ASSUME Init PROVE StreamInv
    OBVIOUS
  <1>1. /\ wire = <<>> /\ buffer = <<>> /\ packStatus = "header" /\ readChunk = 0
        /\ current = NoPack /\ finished = <<>> /\ sent = <<>> /\ passed = 0
    BY DEF Init
  <1>2. Len(<<>>) = 0 /\ <<>> \o <<>> = <<>> /\ DOMAIN <<>> = 1 .. 0
    BY EmptySeq, ConcatEmptySeq
  <1>3. Rest = <<>> /\ Len(Rest) = 0
    BY <1>1, <1>2 DEF Rest
  <1>4. InChunks(Rest, sent, passed) /\ SenderInv /\ Reassembled
    BY <1>1, <1>2, <1>3 DEF InChunks, SenderInv, Reassembled
  <1>5. AtHeader
    <2>1. current.body = <<>> /\ BodyBytes(Len(finished) + 1, 0, Len(current.body)) = <<>>
      BY <1>1, <1>2 DEF NoPack, BodyBytes
    <2>2. QED
      BY <1>1, <1>2, <1>3, <2>1 DEF AtHeader, ChunkNext
  <1>6. QED
    BY <1>1, <1>4, <1>5 DEF StreamInv, DecoderInv

\* However TCP cuts the stream, the packs that are completed are the messages that
\* were sent, whole and in order: for every number and size of messages, every
\* length of headers and chunks, and every capacity of the buffer (DecodePack).
THEOREM ReassembledCorrect == Spec => []Reassembled
  <1>1. Init => TypeOK /\ StreamInv
    BY InitTypes, InitStream
  <1>2. TypeOK /\ StreamInv /\ [Next]_vars => (TypeOK /\ StreamInv)'
    BY NextTypes, NextStream DEF StreamInv
  <1>3. StreamInv => Reassembled
    BY DEF StreamInv
  <1>4. QED
    BY <1>1, <1>2, <1>3, PTL DEF Spec

-----------------------------------------------------------------------------
(* Room and delivery *)

RoomInv == pc \in {"idle", "callback"} => Len(buffer) < RecvCap

LEMMA StuckHasRoom ==
  ASSUME TypeOK, ~CanDecode
  PROVE  Len(buffer) < RecvCap
  <1>1. \A f \in Fmts : HeaderLen[f] \in Nat /\ 1 <= HeaderLen[f] /\ HeaderLen[f] < RecvCap
    BY Constants
  <1>2. buffer \in Seq(WireByte) /\ Len(buffer) \in Nat /\ RecvCap \in Nat
    BY LenProperties, Constants DEF TypeOK
  <1>3. CASE buffer = <<>>
    <2>1. 0 \in Fmts
      OBVIOUS
    <2>2. RecvCap > 0
      BY <1>1, <1>2, <2>1
    <2>3. QED
      BY <1>3, <2>2, EmptySeq
  <1>4. CASE buffer # <<>>
    <2>1. ~(HeaderLen[FmtOf(Head(buffer))] <= Len(buffer))
      BY <1>4 DEF CanDecode, HeaderReady
    <2>2. Head(buffer) \in WireByte
      BY <1>2, <1>4, HeadTailProperties
    <2>3. FmtOf(Head(buffer)) \in Fmts
      BY <2>2 DEF FmtOf, WireByte, HeaderByte, BodyByte
    <2>4. QED
      BY <1>1, <1>2, <2>1, <2>3
  <1>5. QED
    BY <1>3, <1>4

LEMMA InitRoom == Init => RoomInv
  <1> SUFFICES ASSUME Init PROVE RoomInv
    OBVIOUS
  <1>1. buffer = <<>> /\ 0 \in Fmts
    BY DEF Init
  <1>2. Len(buffer) = 0 /\ RecvCap > 0
    BY <1>1, Constants, EmptySeq
  <1>3. QED
    BY <1>2 DEF RoomInv

LEMMA NextRoom == TypeOK /\ RoomInv /\ [Next]_vars => RoomInv'
  <1> SUFFICES ASSUME TypeOK, RoomInv, [Next]_vars PROVE RoomInv'
    OBVIOUS
  <1>1. CASE Sender
    BY <1>1 DEF Sender, SendFirstChunk, SendNextChunk, SendChunk, decoderVars, RoomInv
  <1>2. CASE ReadFromSockfd \/ BeginFirstHeader
    BY <1>2 DEF ReadFromSockfd, BeginFirstHeader, RoomInv
  <1>3. CASE ParseFirstHeader \/ DecodeDataPack
    BY <1>3 DEF ParseFirstHeader, DecodeDataPack, RoomInv
  <1>4. CASE EndFirstHeader
    <2>1. CASE FirstComplete
      BY <1>4, <2>1 DEF EndFirstHeader, RoomInv
    <2>2. CASE ~FirstComplete
      BY <1>4, <2>2, StuckHasRoom DEF EndFirstHeader, RoomInv, decoderVars
    <2>3. QED
      BY <2>1, <2>2
  <1>5. CASE EndDecodeData
    <2>1. Len(buffer) < StartLength => Len(buffer) < RecvCap
      BY SizesAssumption, LenProperties DEF TypeOK
    <2>2. Len(buffer) < RecvCap /\ buffer' = buffer
      BY <1>5, <2>1, StuckHasRoom DEF EndDecodeData, decoderVars
    <2>3. QED
      BY <2>2 DEF RoomInv
  <1>6. CASE NewRtmpPack \/ Done \/ UNCHANGED vars
    BY <1>6 DEF NewRtmpPack, Done, vars, decoderVars, RoomInv
  <1>7. QED
    BY <1>1, <1>2, <1>3, <1>4, <1>5, <1>6 DEF Next, Handler

\* There is always room for the next read, so that read() never returns 0 because
\* of a full buffer: for every capacity above the longest header and the length
\* parsing starts at.
THEOREM AlwaysRoom == Spec => []RoomToRead
  <1>1. Init => TypeOK /\ SenderInv /\ RoomInv
    BY InitTypes, InitRoom
  <1>2. TypeOK /\ SenderInv /\ RoomInv /\ [Next]_vars => (TypeOK /\ SenderInv /\ RoomInv)'
    BY NextTypes, NextRoom
  <1>3. RoomInv => RoomToRead
    BY DEF RoomInv, RoomToRead
  <1>4. QED
    BY <1>1, <1>2, <1>3, PTL DEF Spec

\* The first packs are those of the beginning for as long as the connection lives
\* (ParseFirstHeader).
THEOREM FirstKept == Spec => FirstPacksKept
  <1>1. [Next]_vars => [FirstComplete => UNCHANGED first]_vars
    <2> SUFFICES ASSUME Next, FirstComplete PROVE UNCHANGED first
      OBVIOUS
    <2>1. CASE Sender
      BY <2>1 DEF Sender, SendFirstChunk, SendNextChunk, SendChunk
    <2>2. CASE Handler
      BY <2>2 DEF Handler, ReadFromSockfd, BeginFirstHeader, ParseFirstHeader,
           EndFirstHeader, DecodeDataPack, EndDecodeData, NewRtmpPack
    <2>3. CASE Done
      BY <2>3 DEF Done, vars
    <2>4. QED
      BY <2>1, <2>2, <2>3 DEF Next
  <1>2. QED
    BY <1>1, PTL DEF Spec, FirstPacksKept

-----------------------------------------------------------------------------
(* Delivery *)

\* A pack was completed in this event and is still to be delivered.
Pending == packFinish /\ pc # "idle"

DeliveryInv ==
  /\ pc = "first" => dataStatus = "first"
  /\ dataStatus = "first" => delivered = <<>> /\ packFinish = FALSE
  /\ finished # <<>> => last = Last(finished)
  /\ finished = <<>> => first = [t \in Types |-> NoPack]
  /\ dataStatus = "data" => finished # <<>>
  /\ dataStatus = "data" /\ ~Pending =>
       delivered # <<>> /\ Last(delivered) = Last(finished)
  /\ \A i \in 1 .. Len(delivered) :
       /\ delivered[i].body[1].msg \in Nat
       /\ delivered[i].body[1].msg <= Len(finished)
       /\ Pending => delivered[i].body[1].msg < Len(finished)
  /\ DeliveredOnceInOrder

\* The number of the pack that was completed last.
LEMMA LastFinished ==
  ASSUME TypeOK, Reassembled, finished # <<>>
  PROVE  Last(finished).body[1].msg = Len(finished) /\ Len(finished) \in Nat
  <1>1. /\ finished \in Seq(PackType) /\ Len(finished) \in Nat /\ Len(finished) > 0
        /\ DOMAIN finished = 1 .. Len(finished) /\ sent \in Seq(Kinds)
    BY EmptySeq, LenProperties DEF TypeOK
  <1> DEFINE n == Len(finished)
  <1>2. Last(finished) = Pack(n)
    <2>1. n \in DOMAIN finished
      BY <1>1
    <2>2. finished[n] = Pack(n)
      BY <2>1 DEF Reassembled
    <2>3. QED
      BY <2>2 DEF Last
  <1>3. sent[n].size \in Nat /\ sent[n].size > 0
    <2>1. n \in 1 .. Len(sent)
      BY <1>1, LenProperties DEF Reassembled
    <2>2. sent[n] \in Kinds
      BY <1>1, <2>1, ElementOfSeq
    <2>3. QED
      BY <2>2, Constants
  <1> HIDE DEF n
  <1>4. Last(finished).body = BodyBytes(n, 0, sent[n].size)
    BY <1>2 DEF Pack
  <1>5. BodyBytes(n, 0, sent[n].size)[1] = [part |-> "body", msg |-> n, at |-> 1]
    <2>1. 1 \in 1 .. sent[n].size /\ n \in Nat
      BY <1>1, <1>3 DEF n
    <2>2. QED
      BY <1>3, <2>1, BodyRow
  <1>6. QED
    BY <1>1, <1>4, <1>5 DEF n

LEMMA InitDelivery == Init => DeliveryInv
  <1> SUFFICES ASSUME Init PROVE DeliveryInv
    OBVIOUS
  <1>1. Len(<<>>) = 0 /\ DOMAIN <<>> = 1 .. 0
    BY EmptySeq
  <1>2. QED
    BY <1>1 DEF Init, DeliveryInv, Pending, DeliveredOnceInOrder

\* A call of DecodePack completes a pack or does not.
LEMMA FinishedGrows ==
  ASSUME TypeOK, DecodePack
  PROVE  \/ finished' = finished /\ last' = last
         \/ /\ finished' = Append(finished, last') /\ finished' # finished
            /\ finished' # <<>> /\ Last(finished)' = last'
            /\ Len(finished) \in Nat /\ Len(finished') = Len(finished) + 1
  <1>1. CanDecode /\ finished \in Seq(PackType)
    BY DEF DecodePack, TypeOK
  <1>2. CASE Over /\ Full
    <2>1. finished' = Append(finished, Read) /\ last' = Read /\ Read \in PackType
      BY <1>1, <1>2, DecodeEffect, GrownBy
    <2>2. /\ finished' \in Seq(PackType) /\ Len(finished) \in Nat
          /\ Len(finished') = Len(finished) + 1 /\ finished'[Len(finished) + 1] = Read
      BY <1>1, <2>1, Appended
    <2>3. finished' # <<>> /\ finished' # finished
      BY <2>2, EmptySeq
    <2>4. Last(finished)' = last'
      BY <2>1, <2>2 DEF Last
    <2>5. QED
      BY <2>1, <2>2, <2>3, <2>4
  <1>3. CASE ~(Over /\ Full)
    BY <1>3, DecodeEffect
  <1>4. QED
    BY <1>2, <1>3

LEMMA NextDelivery ==
  TypeOK /\ Reassembled /\ DeliveryInv /\ [Next]_vars => DeliveryInv'
  <1> SUFFICES ASSUME TypeOK, Reassembled, DeliveryInv, [Next]_vars PROVE DeliveryInv'
    OBVIOUS
  <1>0. /\ pc \in {"idle", "decode", "first", "callback"} /\ packFinish \in BOOLEAN
        /\ dataStatus \in {"first", "data"} /\ finished \in Seq(PackType)
        /\ delivered \in Seq(PackType) /\ Len(finished) \in Nat /\ Len(delivered) \in Nat
        /\ DOMAIN delivered = 1 .. Len(delivered)
        /\ first \in [Types -> PackType] /\ last \in PackType
    BY LenProperties DEF TypeOK
  <1>1. CASE Sender \/ Done \/ UNCHANGED vars
    <2>1. UNCHANGED <<pc, dataStatus, delivered, packFinish, finished, last, first>>
      BY <1>1 DEF Sender, SendFirstChunk, SendNextChunk, SendChunk, Done, vars, decoderVars
    <2>2. QED
      BY <2>1 DEF DeliveryInv, Pending, DeliveredOnceInOrder
  <1>2. CASE ReadFromSockfd
    <2>1. /\ pc = "idle" /\ packFinish' = FALSE /\ pc' = "decode"
          /\ UNCHANGED <<dataStatus, delivered, finished, last, first>>
      BY <1>2 DEF ReadFromSockfd
    <2>2. QED
      BY <2>1 DEF DeliveryInv, Pending, DeliveredOnceInOrder
  <1>3. CASE BeginFirstHeader \/ EndDecodeData
    <2>1. /\ pc = "decode" /\ pc' # "idle" /\ (pc' = "first" => dataStatus = "first")
          /\ UNCHANGED <<dataStatus, delivered, packFinish, finished, last, first>>
      BY <1>3 DEF BeginFirstHeader, EndDecodeData, decoderVars
    <2>2. Pending' = Pending
      BY <2>1 DEF Pending
    <2>3. QED
      BY <2>1, <2>2 DEF DeliveryInv, DeliveredOnceInOrder
  <1>4. CASE ParseFirstHeader
    <2>1. /\ pc = "first" /\ DecodePack
          /\ first' = IF finished' = finished THEN first
                      ELSE [first EXCEPT ![last'.type] = last']
          /\ UNCHANGED <<dataStatus, packFinish, pc, delivered>>
      BY <1>4 DEF ParseFirstHeader
    <2>2. dataStatus = "first" /\ delivered = <<>> /\ packFinish = FALSE
      BY <2>1 DEF DeliveryInv
    <2>3. Len(delivered) = 0
      BY <2>2, EmptySeq
    <2>4. (finished' # <<>> => last' = Last(finished)')
          /\ (finished' = <<>> => first' = [t \in Types |-> NoPack])
      BY <2>1, FinishedGrows DEF DeliveryInv
    <2>5. DeliveredOnceInOrder'
      BY <1>0, <2>1, <2>3 DEF DeliveredOnceInOrder
    <2>6. \A i \in 1 .. Len(delivered') : FALSE
      BY <2>1, <2>3
    <2>7. QED
      BY <2>1, <2>2, <2>4, <2>5, <2>6 DEF DeliveryInv
  <1>5. CASE EndFirstHeader
    <2>1. /\ pc = "first" /\ packFinish' = FirstComplete
          /\ dataStatus' = IF FirstComplete THEN "data" ELSE "first"
          /\ pc' = IF FirstComplete THEN "decode" ELSE "callback"
          /\ UNCHANGED <<finished, last, first, delivered>>
      BY <1>5 DEF EndFirstHeader, decoderVars
    <2>2. dataStatus = "first" /\ delivered = <<>> /\ packFinish = FALSE
      BY <2>1 DEF DeliveryInv
    <2>3. Len(delivered) = 0
      BY <2>2, EmptySeq
    <2>4. \A i \in 1 .. Len(delivered') : FALSE
      BY <2>1, <2>3
    <2>5. FirstComplete => finished # <<>>
      <3>1. first = [t \in Types |-> NoPack] => ~FirstComplete
        BY DEF FirstComplete, Types
      <3>2. QED
        BY <3>1 DEF DeliveryInv
    <2>6. DeliveredOnceInOrder'
      BY <1>0, <2>1, <2>3 DEF DeliveredOnceInOrder
    <2>7. FirstComplete \in BOOLEAN
      BY DEF FirstComplete
    <2>8. /\ finished' # <<>> => last' = Last(finished)'
          /\ finished' = <<>> => first' = [t \in Types |-> NoPack]
      BY <2>1 DEF DeliveryInv
    <2>9. CASE FirstComplete
      <3>1. dataStatus' = "data" /\ Pending' /\ pc' = "decode" /\ finished' # <<>>
        BY <2>1, <2>5, <2>9 DEF Pending
      <3>2. QED
        BY <2>4, <2>6, <2>8, <3>1 DEF DeliveryInv
    <2>10. CASE ~FirstComplete
      <3>1. dataStatus' = "first" /\ packFinish' = FALSE /\ pc' = "callback" /\ delivered' = <<>>
        BY <2>1, <2>2, <2>7, <2>10
      <3>2. QED
        BY <2>4, <2>6, <2>8, <3>1 DEF DeliveryInv
    <2>11. QED
      BY <2>9, <2>10
  <1>6. CASE DecodeDataPack
    <2>1. /\ pc = "decode" /\ dataStatus = "data" /\ DecodePack
          /\ packFinish' = (packFinish \/ finished' # finished)
          /\ UNCHANGED <<dataStatus, first, pc, delivered>>
      BY <1>6 DEF DecodeDataPack
    <2>2. DeliveredOnceInOrder' /\ finished # <<>>
      BY <2>1 DEF DeliveryInv, DeliveredOnceInOrder
    <2>3. CASE finished' = finished /\ last' = last
      <3>1. packFinish' = packFinish
        BY <1>0, <2>1, <2>3
      <3>2. QED
        BY <2>1, <2>2, <2>3, <3>1 DEF DeliveryInv, Pending
    <2>4. CASE /\ finished' = Append(finished, last') /\ finished' # finished
               /\ finished' # <<>> /\ Last(finished)' = last'
               /\ Len(finished) \in Nat /\ Len(finished') = Len(finished) + 1
      <3>1. Pending'
        BY <2>1, <2>4 DEF Pending
      <3>2. ASSUME NEW i \in 1 .. Len(delivered')
            PROVE  /\ delivered'[i].body[1].msg \in Nat
                   /\ delivered'[i].body[1].msg < Len(finished')
        BY <2>1, <2>4 DEF DeliveryInv
      <3>3. QED
        BY <2>1, <2>2, <2>4, <3>1, <3>2 DEF DeliveryInv
    <2>5. QED
      BY <2>1, <2>3, <2>4, FinishedGrows
  <1>7. CASE NewRtmpPack
    <2>1. /\ pc = "callback" /\ pc' = "idle"
          /\ delivered' = IF packFinish THEN Append(delivered, last) ELSE delivered
          /\ UNCHANGED <<dataStatus, packFinish, finished, last, first>>
      BY <1>7 DEF NewRtmpPack, decoderVars
    <2>2. ~Pending'
      BY <2>1 DEF Pending
    <2>3. CASE ~packFinish
      <3>1. delivered' = delivered /\ ~Pending
        BY <2>1, <2>3 DEF Pending
      <3>2. QED
        BY <2>1, <2>2, <3>1 DEF DeliveryInv, DeliveredOnceInOrder
    <2>4. CASE packFinish
      <3>1. Pending /\ dataStatus = "data" /\ finished # <<>> /\ last = Last(finished)
        BY <1>0, <2>1, <2>4 DEF DeliveryInv, Pending
      <3>2. last.body[1].msg = Len(finished)
        BY <3>1, LastFinished
      <3>3. /\ delivered' = Append(delivered, last) /\ delivered' \in Seq(PackType)
            /\ Len(delivered') = Len(delivered) + 1
            /\ delivered'[Len(delivered) + 1] = last
            /\ \A i \in 1 .. Len(delivered) : delivered'[i] = delivered[i]
        BY <1>0, <2>1, <2>4, Appended
      <3>4. delivered' # <<>> /\ Last(delivered)' = last
        BY <1>0, <3>3, EmptySeq DEF Last
      <3>5. \A i \in 1 .. Len(delivered) :
              /\ delivered[i].body[1].msg \in Nat
              /\ delivered[i].body[1].msg < Len(finished)
        BY <3>1 DEF DeliveryInv
      <3>6. ASSUME NEW i \in 1 .. Len(delivered')
            PROVE  /\ delivered'[i].body[1].msg \in Nat
                   /\ delivered'[i].body[1].msg <= Len(finished)
                   /\ i <= Len(delivered) => delivered'[i].body[1].msg < Len(finished)
        <4>1. CASE i <= Len(delivered)
          <5>1. i \in 1 .. Len(delivered)
            BY <1>0, <4>1
          <5>2. QED
            BY <1>0, <3>3, <3>5, <5>1
        <4>2. CASE i = Len(delivered) + 1
          BY <1>0, <3>2, <3>3, <4>2
        <4>3. QED
          BY <1>0, <3>3, <4>1, <4>2
      <3>7. DeliveredOnceInOrder'
        <4>1. DOMAIN delivered' = 1 .. Len(delivered) + 1
          BY <3>3, LenProperties
        <4>2. ASSUME NEW i \in DOMAIN delivered', NEW j \in DOMAIN delivered', i < j
              PROVE  delivered'[i].body[1].msg < delivered'[j].body[1].msg
          <5>1. i \in 1 .. Len(delivered)
            BY <1>0, <4>1, <4>2
          <5>2. CASE j \in 1 .. Len(delivered)
            <6>1. delivered[i].body[1].msg < delivered[j].body[1].msg
              BY <1>0, <4>2, <5>1, <5>2 DEF DeliveryInv, DeliveredOnceInOrder
            <6>2. QED
              BY <3>3, <5>1, <5>2, <6>1
          <5>3. CASE j = Len(delivered) + 1
            BY <3>2, <3>3, <3>5, <5>1, <5>3
          <5>4. QED
            BY <1>0, <4>1, <5>2, <5>3
        <4>3. QED
          BY <4>2 DEF DeliveredOnceInOrder
      <3>8. QED
        BY <2>1, <2>2, <3>1, <3>4, <3>6, <3>7 DEF DeliveryInv
    <2>5. QED
      BY <2>3, <2>4
  <1>8. QED
    BY <1>1, <1>2, <1>3, <1>4, <1>5, <1>6, <1>7 DEF Next, Handler

CodecSafe == TypeOK /\ StreamInv /\ DeliveryInv

LEMMA AlwaysSafe == Spec => []CodecSafe
  <1>1. Init => CodecSafe
    BY InitTypes, InitStream, InitDelivery DEF CodecSafe
  <1>2. CodecSafe /\ [Next]_vars => CodecSafe'
    BY NextTypes, NextStream, NextDelivery DEF CodecSafe, StreamInv
  <1>3. QED
    BY <1>1, <1>2, PTL DEF Spec

\* No pack is given to the callback twice or after a later one (ParseData).
THEOREM OrderCorrect == Spec => []DeliveredOnceInOrder
  <1>1. CodecSafe => DeliveredOnceInOrder
    BY DEF CodecSafe, DeliveryInv
  <1>2. QED
    BY <1>1, AlwaysSafe, PTL

\* No complete pack waits for the next event when a newer one is not there yet
\* (DecodeData, ParseData).
THEOREM NewestCorrect == Spec => []NewestDelivered
  <1>1. CodecSafe => NewestDelivered
    BY DEF CodecSafe, DeliveryInv, Pending, NewestDelivered
  <1>2. QED
    BY <1>1, AlwaysSafe, PTL

-----------------------------------------------------------------------------
(* The decoder as a queue of messages *)

\* The messages of the broadcaster, whole.
Messages == [n \in 1 .. Len(sent) |-> Pack(n)]

\* The whole of chunks, pieces and buffers is a queue: a message that was begun
\* is at its end, and the only thing that ever comes out is the oldest one that
\* has not (DecodePack, DecodeBody).
Stream == INSTANCE TaskQueue WITH posted <- Messages, done <- finished
ImplementsMessageQueue == Stream!Spec

\* A row of n values is a sequence of them.
LEMMA Listed ==
  ASSUME NEW n \in Nat, NEW f, f = [i \in 1 .. n |-> f[i]]
  PROVE  Len(f) = n /\ f \in Seq({f[i] : i \in 1 .. n})
  <1>1. f \in [1 .. n -> {f[i] : i \in 1 .. n}]
    OBVIOUS
  <1>2. f \in Seq({f[i] : i \in 1 .. n})
    BY <1>1, SeqDef
  <1>3. Len(f) \in Nat /\ DOMAIN f = 1 .. Len(f) /\ DOMAIN f = 1 .. n
    BY <1>1, <1>2, LenProperties
  <1>4. QED
    BY <1>2, <1>3

LEMMA MessagesAre ==
  ASSUME TypeOK
  PROVE  /\ Len(sent) \in Nat /\ Len(Messages) = Len(sent)
         /\ Messages \in Seq({Messages[n] : n \in 1 .. Len(sent)})
         /\ \A n \in 1 .. Len(sent) : Messages[n] = Pack(n)
  <1>1. Len(sent) \in Nat
    BY LenProperties DEF TypeOK
  <1>2. /\ Messages = [n \in 1 .. Len(sent) |-> Messages[n]]
        /\ \A n \in 1 .. Len(sent) : Messages[n] = Pack(n)
    BY DEF Messages
  <1>3. QED
    BY <1>1, <1>2, Listed

\* The same of the messages after a step.
LEMMA MessagesThen ==
  ASSUME TypeOK'
  PROVE  /\ Len(sent') \in Nat /\ Len(Messages') = Len(sent')
         /\ Messages' \in Seq({Messages'[n] : n \in 1 .. Len(sent')})
         /\ \A n \in 1 .. Len(sent') : Messages'[n] = Pack(n)'
  <1>1. Len(sent') \in Nat
    BY LenProperties DEF TypeOK
  <1>2. /\ Messages' = [n \in 1 .. Len(sent') |-> Messages'[n]]
        /\ \A n \in 1 .. Len(sent') : Messages'[n] = Pack(n)'
    BY DEF Messages
  <1>3. QED
    BY <1>1, <1>2, Listed

\* A sequence is a prefix of one that has an element more and is the same before.
LEMMA LongerByOne ==
  ASSUME NEW S, NEW s \in Seq(S), NEW T, NEW t \in Seq(T), Len(t) = Len(s) + 1,
         \A i \in 1 .. Len(s) : t[i] = s[i]
  PROVE  Stream!IsPrefix(s, t)
  <1>1. /\ Len(s) \in Nat /\ Len(s) \in 0 .. Len(t) /\ Len(s) \in 0 .. Len(s)
    BY LenProperties
  <1> DEFINE a == SubSeq(s, 1, Len(s))
             b == SubSeq(t, 1, Len(s))
  <1>2. a \in Seq(S) /\ Len(a) = Len(s) /\ \A i \in 1 .. Len(s) : a[i] = s[i]
    BY <1>1, Taken
  <1>3. b \in Seq(T) /\ Len(b) = Len(s) /\ \A i \in 1 .. Len(s) : b[i] = t[i]
    BY <1>1, Taken
  <1> HIDE DEF a, b
  <1>4. a = b
    <2>1. a \in Seq(S \cup T) /\ b \in Seq(S \cup T)
      BY <1>2, <1>3, SeqMonotonic
    <2>2. Len(a) = Len(b) /\ \A i \in 1 .. Len(a) : a[i] = b[i]
      BY <1>2, <1>3
    <2>3. QED
      BY <2>1, <2>2, SeqEqual
  <1>5. QED
    BY <1>1, <1>4 DEF a, b, Stream!IsPrefix

\* A message that is begun joins the queue; one that goes on changes nothing.
LEMMA SenderQueues ==
  ASSUME TypeOK, TypeOK', Sender
  PROVE  Stream!Post \/ UNCHANGED <<Messages, finished>>
  <1>1. finished' = finished
    BY DEF Sender, SendFirstChunk, SendNextChunk, SendChunk, decoderVars
  <1>2. CASE \E kind \in Kinds, fmt \in Fmts : SendFirstChunk(kind, fmt)
    <2>1. PICK kind \in Kinds : sent' = Append(sent, kind)
      BY <1>2 DEF SendFirstChunk
    <2>2. /\ Len(sent) \in Nat /\ Len(sent') = Len(sent) + 1
          /\ \A n \in 1 .. Len(sent) : sent'[n] = sent[n]
      BY <2>1, Appended DEF TypeOK
    <2>3. /\ Len(Messages) = Len(sent) /\ Len(Messages') = Len(sent) + 1
          /\ Messages \in Seq({Messages[n] : n \in 1 .. Len(sent)})
          /\ \A n \in 1 .. Len(sent) : Messages[n] = Pack(n)
      BY <2>2, MessagesAre, MessagesThen
    <2>4. /\ Messages' \in Seq({Messages'[n] : n \in 1 .. Len(sent')})
          /\ \A n \in 1 .. Len(sent') : Messages'[n] = Pack(n)'
      BY MessagesThen
    <2>5. \A n \in 1 .. Len(sent) : Pack(n)' = Pack(n)
      BY <2>2 DEF Pack
    <2>6. \A n \in 1 .. Len(sent) : n \in 1 .. Len(sent')
      BY <2>2
    <2>7. \A n \in 1 .. Len(Messages) : Messages'[n] = Messages[n]
      BY <2>3, <2>4, <2>5, <2>6
    <2>8. Stream!IsPrefix(Messages, Messages')
      BY <2>3, <2>4, <2>7, LongerByOne
    <2>9. QED
      BY <1>1, <2>3, <2>8 DEF Stream!Post, Stream!HandOver
  <1>3. CASE SendNextChunk
    BY <1>1, <1>3 DEF SendNextChunk, Messages, Pack
  <1>4. QED
    BY <1>2, <1>3 DEF Sender

\* What DecodePack completes is the oldest message that was not complete.
LEMMA DecodeTakesOldest ==
  ASSUME TypeOK, Reassembled, Reassembled', DecodePack, UNCHANGED sent
  PROVE  Stream!Run \/ UNCHANGED <<Messages, finished>>
  <1>1. Messages' = Messages
    BY DEF Messages, Pack
  <1>2. CASE finished' = Append(finished, last')
    <2>1. /\ finished \in Seq(PackType) /\ Len(finished) \in Nat /\ last' \in PackType
      BY DecodeTypes, LenProperties DEF TypeOK
    <2>2. /\ Len(finished') = Len(finished) + 1 /\ finished' \in Seq(PackType)
          /\ finished'[Len(finished) + 1] = last'
      BY <1>2, <2>1, Appended
    <2>3. Len(finished) + 1 \in DOMAIN finished'
      BY <2>1, <2>2, LenProperties
    <2>4. /\ Len(finished) + 1 <= Len(sent)
          /\ last' = Pack(Len(finished) + 1)
      BY <2>2, <2>3 DEF Reassembled, Pack
    <2>5. Len(Messages) = Len(sent) /\ Messages[Len(finished) + 1] = Pack(Len(finished) + 1)
      BY <2>1, <2>4, MessagesAre
    <2>6. Len(finished) < Len(Messages)
      BY <2>1, <2>4, <2>5, MessagesAre
    <2>7. QED
      BY <1>1, <1>2, <2>4, <2>5, <2>6 DEF Stream!Run, Stream!RunOldest
  <1>3. CASE finished' = finished
    BY <1>1, <1>3
  <1>4. QED
    BY <1>2, <1>3, FinishedGrows

LEMMA NextQueue ==
  ASSUME CodecSafe, CodecSafe', [Next]_vars
  PROVE  [Stream!Next]_<<Messages, finished>>
  <1>1. TypeOK /\ TypeOK' /\ Reassembled /\ Reassembled'
    BY DEF CodecSafe, StreamInv
  <1>2. CASE Sender
    BY <1>1, <1>2, SenderQueues DEF Stream!Next
  <1>3. CASE ParseFirstHeader \/ DecodeDataPack
    <2>1. DecodePack /\ UNCHANGED sent
      BY <1>3 DEF ParseFirstHeader, DecodeDataPack, senderVars
    <2>2. QED
      BY <1>1, <2>1, DecodeTakesOldest DEF Stream!Next
  <1>4. CASE \/ ReadFromSockfd \/ BeginFirstHeader \/ EndFirstHeader \/ EndDecodeData
             \/ NewRtmpPack \/ Done \/ UNCHANGED vars
    <2>1. UNCHANGED <<sent, finished>>
      BY <1>4 DEF ReadFromSockfd, BeginFirstHeader, EndFirstHeader, EndDecodeData, NewRtmpPack,
                  Done, decoderVars, senderVars, vars
    <2>2. QED
      BY <2>1 DEF Messages, Pack
  <1>5. QED
    BY <1>2, <1>3, <1>4 DEF Next, Handler

\* However a stream of chunks is cut, what the decoder makes of it is a queue of
\* messages.
THEOREM QueueOfMessages == Spec => ImplementsMessageQueue
  <1>1. Init => Stream!Init
    <2> SUFFICES ASSUME Init PROVE Stream!Init
      OBVIOUS
    <2>1. sent = <<>> /\ finished = <<>>
      BY DEF Init
    <2>2. Len(sent) = 0
      BY <2>1, EmptySeq
    <2>3. Messages = <<>>
      BY <2>2 DEF Messages
    <2>4. QED
      BY <2>1, <2>3 DEF Stream!Init
  <1>2. CodecSafe /\ CodecSafe' /\ [Next]_vars => [Stream!Next]_<<Messages, finished>>
    BY NextQueue
  <1>3. QED
    BY <1>1, <1>2, AlwaysSafe, PTL DEF Spec, ImplementsMessageQueue, Stream!Spec

=============================================================================
