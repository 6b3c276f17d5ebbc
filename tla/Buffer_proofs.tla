--------------------------- MODULE Buffer_proofs ---------------------------
(***************************************************************************)
(* Proofs about Buffer, for buffers of every size, data of every length    *)
(* and every IDX_BEGIN.                                                    *)
(***************************************************************************)
EXTENDS Buffer, SequenceTheorems, TLAPS

\* The inductive invariant.
BufferInv == TypeOK /\ InBounds /\ BytesInOrder

\* What a sequence is after another was put behind it.
LEMMA PutBehind ==
  ASSUME NEW s \in Seq(Byte), NEW t \in Seq(Byte)
  PROVE  /\ s \o t \in Seq(Byte) /\ Len(s \o t) = Len(s) + Len(t)
         /\ \A i \in 1 .. Len(s) : (s \o t)[i] = s[i]
         /\ \A i \in Len(s) + 1 .. Len(s) + Len(t) : (s \o t)[i] = t[i - Len(s)]
  <1>1. Len(s) \in Nat /\ Len(t) \in Nat
    BY LenProperties
  <1>2. /\ s \o t \in Seq(Byte) /\ Len(s \o t) = Len(s) + Len(t)
        /\ \A i \in 1 .. Len(s) + Len(t) :
             (s \o t)[i] = IF i <= Len(s) THEN s[i] ELSE t[i - Len(s)]
    BY ConcatProperties
  <1>3. ASSUME NEW i \in 1 .. Len(s) PROVE (s \o t)[i] = s[i]
    <2>1. i \in 1 .. Len(s) + Len(t) /\ i <= Len(s)
      BY <1>1
    <2>2. QED
      BY <1>2, <2>1
  <1>4. ASSUME NEW i \in Len(s) + 1 .. Len(s) + Len(t) PROVE (s \o t)[i] = t[i - Len(s)]
    <2>1. i \in 1 .. Len(s) + Len(t) /\ ~(i <= Len(s))
      BY <1>1
    <2>2. QED
      BY <1>2, <2>1
  <1>5. QED
    BY <1>2, <1>3, <1>4

LEMMA Elements ==
  ASSUME NEW s \in Seq(Byte)
  PROVE  Len(s) \in Nat /\ \A i \in 1 .. Len(s) : s[i] \in Byte
  BY LenProperties, ElementOfSeq

\* A vector m of sz elements, of which len from start on are moved to
\* IDX_BEGIN, in a vector of n elements with data behind them.
MovedUp(sz, m, start, len, n, data) ==
  [i \in 0 .. n - 1 |->
     CASE IDX_BEGIN <= i /\ i < IDX_BEGIN + len -> m[start + i - IDX_BEGIN]
       [] IDX_BEGIN + len <= i /\ i < IDX_BEGIN + len + Len(data)
            -> data[i - (IDX_BEGIN + len) + 1]
       [] OTHER -> IF i < sz THEN m[i] ELSE Zero]

CanMove(sz, m, start, len, n, data) ==
  /\ sz \in Nat /\ m \in [0 .. sz - 1 -> Byte] /\ n \in Nat /\ data \in Seq(Byte)
  /\ start \in Nat /\ len \in Nat /\ IDX_BEGIN <= start /\ start + len <= sz
  /\ IDX_BEGIN + len + Len(data) <= n

HasMoved(w, m, start, len, n, data) ==
  /\ w \in [0 .. n - 1 -> Byte]
  /\ \A i \in 1 .. len : w[IDX_BEGIN + i - 1] = m[start + i - 1]
  /\ \A i \in len + 1 .. len + Len(data) : w[IDX_BEGIN + i - 1] = data[i - len]

LEMMA Moved ==
  ASSUME NEW sz, NEW m, NEW start, NEW len, NEW n, NEW data,
         CanMove(sz, m, start, len, n, data)
  PROVE  HasMoved(MovedUp(sz, m, start, len, n, data), m, start, len, n, data)
  <1> DEFINE w == MovedUp(sz, m, start, len, n, data)
  <1> USE DEF CanMove
  <1>1. /\ IDX_BEGIN \in Nat /\ Zero \in Byte
        /\ Len(data) \in Nat /\ \A i \in 1 .. Len(data) : data[i] \in Byte
    BY SizeAssumption, ByteAssumption, Elements DEF Zero
  <1>2. \A i \in 0 .. n - 1 :
          /\ IDX_BEGIN <= i /\ i < IDX_BEGIN + len => w[i] = m[start + i - IDX_BEGIN]
          /\ IDX_BEGIN + len <= i /\ i < IDX_BEGIN + len + Len(data)
               => w[i] = data[i - (IDX_BEGIN + len) + 1]
          /\ i < IDX_BEGIN \/ IDX_BEGIN + len + Len(data) <= i
               => w[i] = IF i < sz THEN m[i] ELSE Zero
    BY <1>1 DEF MovedUp
  <1>3. ASSUME NEW i \in 0 .. n - 1 PROVE w[i] \in Byte
    <2>1. CASE IDX_BEGIN <= i /\ i < IDX_BEGIN + len
      <3>1. start + i - IDX_BEGIN \in 0 .. sz - 1
        BY <1>1, <2>1
      <3>2. QED
        BY <1>2, <2>1, <3>1
    <2>2. CASE IDX_BEGIN + len <= i /\ i < IDX_BEGIN + len + Len(data)
      <3>1. i - (IDX_BEGIN + len) + 1 \in 1 .. Len(data)
        BY <1>1, <2>2
      <3>2. QED
        BY <1>1, <1>2, <2>2, <3>1
    <2>3. CASE i < IDX_BEGIN \/ IDX_BEGIN + len + Len(data) <= i
      <3>1. i < sz => m[i] \in Byte
        OBVIOUS
      <3>2. QED
        BY <1>1, <1>2, <2>3, <3>1
    <2>4. QED
      BY <1>1, <2>1, <2>2, <2>3
  <1>4. ASSUME NEW i \in 1 .. len PROVE w[IDX_BEGIN + i - 1] = m[start + i - 1]
    <2> DEFINE k == IDX_BEGIN + i - 1
    <2>1. /\ k \in 0 .. n - 1 /\ IDX_BEGIN <= k /\ k < IDX_BEGIN + len
          /\ start + k - IDX_BEGIN = start + i - 1
      BY <1>1
    <2> HIDE DEF k
    <2>2. w[k] = m[start + i - 1]
      BY <1>2, <2>1
    <2>3. QED
      BY <2>2 DEF k
  <1>5. ASSUME NEW i \in len + 1 .. len + Len(data)
        PROVE  w[IDX_BEGIN + i - 1] = data[i - len]
    <2> DEFINE k == IDX_BEGIN + i - 1
    <2>1. /\ k \in 0 .. n - 1 /\ IDX_BEGIN + len <= k /\ k < IDX_BEGIN + len + Len(data)
          /\ k - (IDX_BEGIN + len) + 1 = i - len
      BY <1>1
    <2> HIDE DEF k
    <2>2. w[k] = data[i - len]
      BY <1>2, <2>1
    <2>3. QED
      BY <2>2 DEF k
  <1>6. w \in [0 .. n - 1 -> Byte]
    BY <1>3 DEF MovedUp
  <1>7. QED
    BY <1>4, <1>5, <1>6 DEF HasMoved

\* What is read next after data was put behind what was there.
InOrder(m, start, len, r, s) == \A i \in 1 .. len : m[start + i - 1] = s[r + i]

LEMMA ReadNext ==
  ASSUME NEW m, NEW w, NEW start, NEW len \in Nat, NEW r \in Nat, NEW n,
         NEW s \in Seq(Byte), NEW data \in Seq(Byte), Len(s) = r + len,
         InOrder(m, start, len, r, s), HasMoved(w, m, start, len, n, data)
  PROVE  InOrder(w, IDX_BEGIN, len + Len(data), r, s \o data)
  <1> USE DEF InOrder, HasMoved
  <1>1. Len(data) \in Nat /\ Len(s) \in Nat
    BY Elements
  <1>2. SUFFICES ASSUME NEW i \in 1 .. len + Len(data)
                 PROVE  w[IDX_BEGIN + i - 1] = (s \o data)[r + i]
    OBVIOUS
  <1>3. CASE i <= len
    <2>1. i \in 1 .. len /\ r + i \in 1 .. Len(s)
      BY <1>1, <1>3
    <2>2. (s \o data)[r + i] = s[r + i]
      BY <2>1, PutBehind
    <2>3. QED
      BY <2>1, <2>2
  <1>4. CASE len < i
    <2>1. /\ i \in len + 1 .. len + Len(data)
          /\ r + i \in Len(s) + 1 .. Len(s) + Len(data) /\ r + i - Len(s) = i - len
      BY <1>1, <1>4
    <2>2. (s \o data)[r + i] = data[i - len]
      BY <2>1, PutBehind
    <2>3. QED
      BY <2>1, <2>2
  <1>5. QED
    BY <1>1, <1>3, <1>4

\* The invariant for one buffer of which the parts are given.
Sound(sz, m, rd, wr, sr, sw, f) ==
  /\ sz \in Nat /\ m \in [0 .. sz - 1 -> Byte]
  /\ rd \in Nat /\ wr \in Nat /\ sr \in Nat /\ sw \in Nat /\ f \in Seq(Byte)
  /\ IDX_BEGIN <= rd /\ rd <= wr /\ wr <= sz
  /\ sw = Len(f) /\ wr - rd = sw - sr
  /\ InOrder(m, rd, wr - rd, sr, f)

LEMMA MakeSound ==
  ASSUME NEW sz, NEW m, NEW rd, NEW wr, NEW sr, NEW sw, NEW f,
         sz \in Nat, m \in [0 .. sz - 1 -> Byte], rd \in Nat, wr \in Nat, sr \in Nat, sw \in Nat,
         f \in Seq(Byte), IDX_BEGIN <= rd, rd <= wr, wr <= sz, sw = Len(f), wr - rd = sw - sr,
         InOrder(m, rd, wr - rd, sr, f)
  PROVE  Sound(sz, m, rd, wr, sr, sw, f)
  BY DEF Sound

SoundAt(b) ==
  Sound(size[b], mem[b], readIdx[b], writeIdx[b], sumRead[b], sumWrite[b], fed[b])

Functions ==
  /\ size \in [Buffers -> Nat] /\ DOMAIN mem = Buffers
  /\ readIdx \in [Buffers -> Nat] /\ writeIdx \in [Buffers -> Nat]
  /\ sumRead \in [Buffers -> Nat] /\ sumWrite \in [Buffers -> Nat]
  /\ fed \in [Buffers -> Seq(Byte)]

AllSound == Functions /\ \A b \in Buffers : SoundAt(b)

LEMMA BufferByBuffer == BufferInv <=> AllSound
  <1>1. BytesInOrder <=>
          \A b \in Buffers :
            /\ sumWrite[b] = Len(fed[b])
            /\ writeIdx[b] - readIdx[b] = sumWrite[b] - sumRead[b]
            /\ \A i \in 1 .. writeIdx[b] - readIdx[b] :
                 mem[b][readIdx[b] + i - 1] = fed[b][sumRead[b] + i]
    BY DEF BytesInOrder, Contents, ReadableLength
  <1>2. TypeOK <=> Functions /\ \A b \in Buffers : mem[b] \in [0 .. size[b] - 1 -> Byte]
    BY DEF TypeOK, Functions
  <1>3. BufferInv => Functions /\ \A b \in Buffers : SoundAt(b)
    BY <1>1, <1>2 DEF BufferInv, InBounds, Functions, SoundAt, Sound, InOrder
  <1>4. Functions /\ (\A b \in Buffers : SoundAt(b)) => TypeOK
    BY <1>2 DEF SoundAt, Sound
  <1>5. (\A b \in Buffers : SoundAt(b)) => InBounds
    BY DEF InBounds, SoundAt, Sound
  <1>6. (\A b \in Buffers : SoundAt(b)) => BytesInOrder
    BY <1>1 DEF SoundAt, Sound, InOrder
  <1>7. QED
    BY <1>3, <1>4, <1>5, <1>6 DEF BufferInv, AllSound

\* y is x, but for v at b.
SetTo(x, y, b, v) == y = [x EXCEPT ![b] = v] \/ (y = x /\ v = x[b])

LEMMA SetToIn ==
  ASSUME NEW S, NEW x \in [Buffers -> S], NEW y, NEW b \in Buffers, NEW v \in S,
         SetTo(x, y, b, v)
  PROVE  y \in [Buffers -> S]
  BY DEF SetTo

\* A step that changes one buffer.
LEMMA OneChanged ==
  ASSUME BufferInv, NEW b \in Buffers,
         NEW sz, NEW m, NEW rd, NEW wr, NEW sr, NEW sw, NEW f,
         Sound(sz, m, rd, wr, sr, sw, f),
         SetTo(size, size', b, sz), SetTo(mem, mem', b, m),
         SetTo(readIdx, readIdx', b, rd), SetTo(writeIdx, writeIdx', b, wr),
         SetTo(sumRead, sumRead', b, sr), SetTo(sumWrite, sumWrite', b, sw),
         SetTo(fed, fed', b, f)
  PROVE  BufferInv'
  <1>1. Functions /\ \A c \in Buffers : SoundAt(c)
    BY BufferByBuffer DEF AllSound
  <1>2. /\ DOMAIN size = Buffers /\ DOMAIN mem = Buffers /\ DOMAIN readIdx = Buffers
        /\ DOMAIN writeIdx = Buffers /\ DOMAIN sumRead = Buffers /\ DOMAIN sumWrite = Buffers
        /\ DOMAIN fed = Buffers
    BY <1>1 DEF Functions
  <1>3. /\ sz \in Nat /\ rd \in Nat /\ wr \in Nat /\ sr \in Nat /\ sw \in Nat
        /\ f \in Seq(Byte)
    BY DEF Sound
  <1>4. Functions'
    <2>1. size' \in [Buffers -> Nat]
      BY <1>1, <1>3, SetToIn, Zenon DEF Functions
    <2>2. readIdx' \in [Buffers -> Nat] /\ writeIdx' \in [Buffers -> Nat]
      BY <1>1, <1>3, SetToIn, Zenon DEF Functions
    <2>3. sumRead' \in [Buffers -> Nat] /\ sumWrite' \in [Buffers -> Nat]
      BY <1>1, <1>3, SetToIn, Zenon DEF Functions
    <2>4. fed' \in [Buffers -> Seq(Byte)]
      BY <1>1, <1>3, SetToIn, Zenon DEF Functions
    <2>5. DOMAIN mem' = Buffers
      BY <1>2 DEF SetTo
    <2>6. QED
      BY <2>1, <2>2, <2>3, <2>4, <2>5 DEF Functions
  <1>5. /\ size'[b] = sz /\ mem'[b] = m /\ readIdx'[b] = rd /\ writeIdx'[b] = wr
        /\ sumRead'[b] = sr /\ sumWrite'[b] = sw /\ fed'[b] = f
    <2>1. size'[b] = sz
      BY <1>2 DEF SetTo
    <2>2. mem'[b] = m
      BY <1>2 DEF SetTo
    <2>3. readIdx'[b] = rd
      BY <1>2 DEF SetTo
    <2>4. writeIdx'[b] = wr
      BY <1>2 DEF SetTo
    <2>5. sumRead'[b] = sr
      BY <1>2 DEF SetTo
    <2>6. sumWrite'[b] = sw
      BY <1>2 DEF SetTo
    <2>7. fed'[b] = f
      BY <1>2 DEF SetTo
    <2>8. QED
      BY <2>1, <2>2, <2>3, <2>4, <2>5, <2>6, <2>7
  <1>6. \A c \in Buffers : c # b =>
          /\ size'[c] = size[c] /\ mem'[c] = mem[c] /\ readIdx'[c] = readIdx[c]
          /\ writeIdx'[c] = writeIdx[c] /\ sumRead'[c] = sumRead[c]
          /\ sumWrite'[c] = sumWrite[c] /\ fed'[c] = fed[c]
    <2> SUFFICES ASSUME NEW c \in Buffers, c # b
                 PROVE  /\ size'[c] = size[c] /\ mem'[c] = mem[c] /\ readIdx'[c] = readIdx[c]
                        /\ writeIdx'[c] = writeIdx[c] /\ sumRead'[c] = sumRead[c]
                        /\ sumWrite'[c] = sumWrite[c] /\ fed'[c] = fed[c]
      OBVIOUS
    <2>1. size'[c] = size[c]
      BY <1>2 DEF SetTo
    <2>2. mem'[c] = mem[c]
      BY <1>2 DEF SetTo
    <2>3. readIdx'[c] = readIdx[c]
      BY <1>2 DEF SetTo
    <2>4. writeIdx'[c] = writeIdx[c]
      BY <1>2 DEF SetTo
    <2>5. sumRead'[c] = sumRead[c]
      BY <1>2 DEF SetTo
    <2>6. sumWrite'[c] = sumWrite[c]
      BY <1>2 DEF SetTo
    <2>7. fed'[c] = fed[c]
      BY <1>2 DEF SetTo
    <2>8. QED
      BY <2>1, <2>2, <2>3, <2>4, <2>5, <2>6, <2>7
  <1>7. SoundAt(b)'
    BY <1>5, Zenon DEF SoundAt
  <1>8. ASSUME NEW c \in Buffers, c # b PROVE SoundAt(c)'
    BY <1>1, <1>6, <1>8, Zenon DEF SoundAt
  <1>9. AllSound'
    BY <1>4, <1>7, <1>8, Zenon DEF AllSound
  <1>10. QED
    BY <1>9, BufferByBuffer, PTL

\* A step after which each buffer is what one of them was.
LEMMA Exchanged ==
  ASSUME BufferInv, NEW g \in [Buffers -> Buffers],
         size' = [b \in Buffers |-> size[g[b]]], mem' = [b \in Buffers |-> mem[g[b]]],
         readIdx' = [b \in Buffers |-> readIdx[g[b]]],
         writeIdx' = [b \in Buffers |-> writeIdx[g[b]]],
         sumRead' = [b \in Buffers |-> sumRead[g[b]]],
         sumWrite' = [b \in Buffers |-> sumWrite[g[b]]],
         fed' = [b \in Buffers |-> fed[g[b]]]
  PROVE  BufferInv'
  <1>1. Functions /\ \A b \in Buffers : SoundAt(b)
    BY BufferByBuffer DEF AllSound
  <1>2. Functions'
    BY <1>1 DEF Functions
  <1>3. ASSUME NEW b \in Buffers PROVE SoundAt(b)'
    <2>1. SoundAt(g[b])
      BY <1>1
    <2>2. QED
      BY <2>1 DEF SoundAt
  <1>4. AllSound'
    BY <1>2, <1>3, Zenon DEF AllSound
  <1>5. QED
    BY <1>4, BufferByBuffer, PTL

LEMMA InitStep == Init => BufferInv
  <1> SUFFICES ASSUME Init PROVE BufferInv
    OBVIOUS
  <1>1. Zero \in Byte /\ IDX_BEGIN \in Nat /\ SizeOf \in [Buffers -> Nat]
    BY ByteAssumption, SizeAssumption DEF Zero
  <1>2. <<>> \in Seq(Byte) /\ Len(<<>>) = 0
    OBVIOUS
  <1>3. Functions
    BY <1>1, <1>2 DEF Init, Functions
  <1>4. ASSUME NEW b \in Buffers PROVE SoundAt(b)
    <2>1. /\ size[b] = SizeOf[b] + IDX_BEGIN /\ mem[b] = [i \in 0 .. size[b] - 1 |-> Zero]
          /\ readIdx[b] = IDX_BEGIN /\ writeIdx[b] = IDX_BEGIN
          /\ sumRead[b] = 0 /\ sumWrite[b] = 0 /\ fed[b] = <<>>
      BY DEF Init
    <2>2. SizeOf[b] \in Nat
      BY <1>1
    <2>3. mem[b] \in [0 .. size[b] - 1 -> Byte]
      BY <1>1, <2>1
    <2>4. QED
      BY <1>1, <1>2, <2>1, <2>2, <2>3 DEF SoundAt, Sound, InOrder
  <1>5. QED
    BY <1>3, <1>4, BufferByBuffer DEF AllSound

\* A write into a vector that is large enough (AppendData, ReadFromSockfd).
LEMMA WriteStep ==
  ASSUME BufferInv, NEW b \in Buffers, NEW data \in Seq(Byte), NEW n \in Nat,
         AdjustedEnd(b) + Len(data) <= n, Write(b, n, data)
  PROVE  BufferInv'
  <1> DEFINE len == writeIdx[b] - readIdx[b]
             w == Written(b, n, data)
  <1>1. /\ Functions /\ IDX_BEGIN \in Nat
        /\ Sound(size[b], mem[b], readIdx[b], writeIdx[b], sumRead[b], sumWrite[b], fed[b])
    BY BufferByBuffer, SizeAssumption DEF SoundAt, AllSound
  <1>2. Len(data) \in Nat
    BY Elements
  <1>3. /\ size[b] \in Nat /\ mem[b] \in [0 .. size[b] - 1 -> Byte]
        /\ readIdx[b] \in Nat /\ writeIdx[b] \in Nat /\ fed[b] \in Seq(Byte)
        /\ sumRead[b] \in Nat /\ sumWrite[b] \in Nat
        /\ IDX_BEGIN <= readIdx[b] /\ sumWrite[b] = Len(fed[b])
        /\ InOrder(mem[b], readIdx[b], len, sumRead[b], fed[b])
    BY <1>1 DEF Sound
  <1>4. /\ len \in Nat /\ readIdx[b] + len <= size[b]
        /\ Len(fed[b]) = sumRead[b] + len /\ AdjustedEnd(b) = IDX_BEGIN + len
        /\ IDX_BEGIN + len + Len(data) <= n
    <2>1. /\ readIdx[b] <= writeIdx[b] /\ writeIdx[b] <= size[b]
          /\ writeIdx[b] - readIdx[b] = sumWrite[b] - sumRead[b]
      BY <1>1 DEF Sound
    <2>2. AdjustedEnd(b) = IDX_BEGIN + len
      BY DEF AdjustedEnd, ReadableLength
    <2>3. /\ readIdx[b] \in Nat /\ writeIdx[b] \in Nat /\ size[b] \in Nat
          /\ sumRead[b] \in Nat /\ sumWrite[b] \in Nat /\ sumWrite[b] = Len(fed[b])
      BY <1>3
    <2>4. len \in Nat /\ readIdx[b] + len <= size[b]
      BY <2>1, <2>3
    <2>5. sumWrite[b] = sumRead[b] + len
      BY <2>1, <2>3
    <2>6. QED
      BY <2>2, <2>3, <2>4, <2>5
  <1>5. w = MovedUp(size[b], mem[b], readIdx[b], len, n, data)
    BY DEF Written, AdjustedEnd, ReadableLength, MovedUp
  <1>6. /\ size' = [size EXCEPT ![b] = n] /\ mem' = [mem EXCEPT ![b] = w]
        /\ readIdx' = [readIdx EXCEPT ![b] = IDX_BEGIN]
        /\ writeIdx' = [writeIdx EXCEPT ![b] = IDX_BEGIN + len + Len(data)]
        /\ sumRead' = sumRead
        /\ sumWrite' = [sumWrite EXCEPT ![b] = sumWrite[b] + Len(data)]
        /\ fed' = [fed EXCEPT ![b] = fed[b] \o data]
    BY <1>4 DEF Write
  <1> HIDE DEF len, w
  <1>7. HasMoved(w, mem[b], readIdx[b], len, n, data)
    <2>1. CanMove(size[b], mem[b], readIdx[b], len, n, data)
      BY <1>3, <1>4 DEF CanMove
    <2>2. QED
      BY <1>5, <2>1, Moved
  <1>8. InOrder(w, IDX_BEGIN, len + Len(data), sumRead[b], fed[b] \o data)
    BY <1>3, <1>4, <1>7, ReadNext
  <1>9. fed[b] \o data \in Seq(Byte) /\ Len(fed[b] \o data) = Len(fed[b]) + Len(data)
    BY <1>3, PutBehind
  <1>10. Sound(n, w, IDX_BEGIN, IDX_BEGIN + len + Len(data), sumRead[b],
               sumWrite[b] + Len(data), fed[b] \o data)
    <2>1. IDX_BEGIN + len + Len(data) - IDX_BEGIN = len + Len(data)
      BY <1>1, <1>2, <1>4
    <2>2. /\ IDX_BEGIN + len + Len(data) \in Nat
          /\ IDX_BEGIN <= IDX_BEGIN + len + Len(data)
      BY <1>1, <1>2, <1>4
    <2>3. sumWrite[b] \in Nat /\ sumRead[b] \in Nat /\ sumWrite[b] = sumRead[b] + len
      BY <1>3, <1>4
    <2>4. /\ sumWrite[b] + Len(data) \in Nat
          /\ len + Len(data) = sumWrite[b] + Len(data) - sumRead[b]
      BY <1>2, <1>4, <2>3
    <2>5. sumWrite[b] + Len(data) = Len(fed[b] \o data)
      BY <1>3, <1>9
    <2>6. /\ IDX_BEGIN \in Nat /\ IDX_BEGIN <= IDX_BEGIN /\ w \in [0 .. n - 1 -> Byte]
          /\ IDX_BEGIN + len + Len(data) - IDX_BEGIN = sumWrite[b] + Len(data) - sumRead[b]
      BY <1>1, <1>7, <2>1, <2>4 DEF HasMoved
    <2>7. QED
      <3> DEFINE e == IDX_BEGIN + len + Len(data)
                 sw == sumWrite[b] + Len(data)
                 f == fed[b] \o data
      <3>1. e = IDX_BEGIN + len + Len(data) /\ sw = sumWrite[b] + Len(data) /\ f = fed[b] \o data
        OBVIOUS
      <3> HIDE DEF e, sw, f
      <3>2. Sound(n, w, IDX_BEGIN, e, sumRead[b], sw, f)
        <4>1. e \in Nat /\ IDX_BEGIN <= e /\ e <= n
          BY <1>4, <2>2, <3>1, Zenon
        <4>2. sw \in Nat /\ sw = Len(f) /\ f \in Seq(Byte)
          BY <1>9, <2>4, <2>5, <3>1, Zenon
        <4>3. e - IDX_BEGIN = len + Len(data) /\ sw - sumRead[b] = len + Len(data)
          <5>1. e - IDX_BEGIN = len + Len(data)
            BY <1>1, <1>2, <1>4, <3>1, SMTT(60)
          <5>2. sw - sumRead[b] = len + Len(data)
            BY <1>2, <1>4, <2>3, <3>1, SMTT(60)
          <5>3. QED
            BY <5>1, <5>2
        <4>4. InOrder(w, IDX_BEGIN, e - IDX_BEGIN, sumRead[b], f)
          BY <1>8, <3>1, <4>3, Zenon
        <4>5. QED
          BY <2>3, <2>6, <4>1, <4>2, <4>3, <4>4, MakeSound
      <3>3. QED
        BY <3>2 DEF e, sw, f
  <1>11. QED
    <2>1. /\ SetTo(size, size', b, n) /\ SetTo(mem, mem', b, w)
          /\ SetTo(readIdx, readIdx', b, IDX_BEGIN)
          /\ SetTo(writeIdx, writeIdx', b, IDX_BEGIN + len + Len(data))
          /\ SetTo(sumRead, sumRead', b, sumRead[b])
          /\ SetTo(sumWrite, sumWrite', b, sumWrite[b] + Len(data))
          /\ SetTo(fed, fed', b, fed[b] \o data)
      BY <1>6, Zenon DEF SetTo
    <2>2. QED
      BY <1>10, <2>1, OneChanged, Zenon

LEMMA ContentsIn ==
  ASSUME BufferInv, NEW b \in Buffers
  PROVE  /\ Contents(b) \in Seq(Byte) /\ AdjustedEnd(b) \in Nat
         /\ size[b] \in Nat /\ IDX_BEGIN \in Nat
  <1>1. /\ Sound(size[b], mem[b], readIdx[b], writeIdx[b], sumRead[b], sumWrite[b], fed[b])
        /\ IDX_BEGIN \in Nat
    BY BufferByBuffer, SizeAssumption DEF SoundAt, AllSound
  <1>2. /\ writeIdx[b] - readIdx[b] \in Nat /\ size[b] \in Nat
        /\ readIdx[b] \in Nat /\ writeIdx[b] <= size[b] /\ writeIdx[b] \in Nat
        /\ mem[b] \in [0 .. size[b] - 1 -> Byte]
    BY <1>1 DEF Sound
  <1>3. ASSUME NEW i \in 1 .. ReadableLength(b)
        PROVE  mem[b][readIdx[b] + i - 1] \in Byte
    <2>1. readIdx[b] + i - 1 \in 0 .. size[b] - 1
      BY <1>2 DEF ReadableLength
    <2>2. QED
      BY <1>2, <2>1
  <1>4. ReadableLength(b) \in Nat
    BY <1>2 DEF ReadableLength
  <1>5. Contents(b) \in Seq(Byte)
    BY <1>3, <1>4 DEF Contents
  <1>6. QED
    BY <1>1, <1>2, <1>5 DEF AdjustedEnd, ReadableLength

\* AppendData makes the vector large enough.
LEMMA GrownIsEnough ==
  ASSUME NEW b, NEW n \in Nat, size[b] \in Nat, AdjustedEnd(b) \in Nat, IDX_BEGIN \in Nat
  PROVE  Grown(b, n) \in Nat /\ AdjustedEnd(b) + n <= Grown(b, n)
  BY DEF Grown

LEMMA AppendStep ==
  ASSUME BufferInv, NEW b \in Buffers, NEW data \in Seq(Byte), AppendData(b, data)
  PROVE  BufferInv'
  <1>1. Len(data) \in Nat
    BY Elements
  <1>2. /\ Grown(b, Len(data)) \in Nat
        /\ AdjustedEnd(b) + Len(data) <= Grown(b, Len(data))
    BY <1>1, ContentsIn, GrownIsEnough
  <1>3. QED
    BY <1>2, WriteStep DEF AppendData

LEMMA ReadFromSockfdStep ==
  ASSUME BufferInv, NEW b \in Buffers, NEW data \in Seq(Byte), ReadFromSockfd(b, data)
  PROVE  BufferInv'
  <1>1. size[b] \in Nat /\ AdjustedEnd(b) \in Nat /\ Len(data) \in Nat
    BY Elements, ContentsIn
  <1>2. AdjustedEnd(b) + Len(data) <= size[b] /\ Write(b, size[b], data)
    BY <1>1 DEF ReadFromSockfd
  <1>3. QED
    BY <1>1, <1>2, WriteStep

\* Bytes are taken from the front (AddReadIndex, DropAllData).
LEMMA AddReadIndexStep ==
  ASSUME BufferInv, NEW b \in Buffers, NEW n \in Nat, AddReadIndex(b, n)
  PROVE  BufferInv'
  <1> DEFINE k == IF n > ReadableLength(b) THEN ReadableLength(b) ELSE n
  <1>1. /\ Sound(size[b], mem[b], readIdx[b], writeIdx[b], sumRead[b], sumWrite[b], fed[b])
        /\ IDX_BEGIN \in Nat
    BY BufferByBuffer, SizeAssumption DEF SoundAt, AllSound
  <1>2. k \in Nat /\ readIdx[b] + k <= writeIdx[b]
    BY <1>1 DEF Sound, ReadableLength
  <1>3. /\ readIdx' = [readIdx EXCEPT ![b] = readIdx[b] + k]
        /\ sumRead' = [sumRead EXCEPT ![b] = sumRead[b] + k]
        /\ UNCHANGED <<size, mem, writeIdx, sumWrite, fed>>
    BY DEF AddReadIndex
  <1> HIDE DEF k
  <1>4. InOrder(mem[b], readIdx[b] + k, writeIdx[b] - (readIdx[b] + k), sumRead[b] + k, fed[b])
    <2> SUFFICES ASSUME NEW i \in 1 .. writeIdx[b] - (readIdx[b] + k)
                 PROVE  mem[b][readIdx[b] + k + i - 1] = fed[b][sumRead[b] + k + i]
      BY DEF InOrder
    <2> DEFINE j == k + i
    <2>1. /\ readIdx[b] \in Nat /\ writeIdx[b] \in Nat /\ sumRead[b] \in Nat
          /\ \A x \in 1 .. writeIdx[b] - readIdx[b] :
               mem[b][readIdx[b] + x - 1] = fed[b][sumRead[b] + x]
      BY <1>1 DEF Sound, InOrder
    <2>2. /\ j \in 1 .. writeIdx[b] - readIdx[b]
          /\ readIdx[b] + j - 1 = readIdx[b] + k + i - 1 /\ sumRead[b] + j = sumRead[b] + k + i
      BY <1>2, <2>1
    <2>3. mem[b][readIdx[b] + j - 1] = fed[b][sumRead[b] + j]
      BY <2>1, <2>2
    <2>4. QED
      BY <2>2, <2>3
  <1>5. Sound(size[b], mem[b], readIdx[b] + k, writeIdx[b], sumRead[b] + k, sumWrite[b], fed[b])
    <2>1. /\ readIdx[b] \in Nat /\ writeIdx[b] \in Nat /\ sumRead[b] \in Nat
          /\ sumWrite[b] \in Nat /\ IDX_BEGIN <= readIdx[b]
          /\ writeIdx[b] - readIdx[b] = sumWrite[b] - sumRead[b] /\ IDX_BEGIN \in Nat
      BY <1>1 DEF Sound
    <2>2. /\ size[b] \in Nat /\ mem[b] \in [0 .. size[b] - 1 -> Byte]
          /\ fed[b] \in Seq(Byte) /\ writeIdx[b] <= size[b] /\ sumWrite[b] = Len(fed[b])
      BY <1>1 DEF Sound
    <2>3. readIdx[b] + k \in Nat /\ sumRead[b] + k \in Nat /\ IDX_BEGIN <= readIdx[b] + k
      BY <1>2, <2>1
    <2>4. writeIdx[b] - (readIdx[b] + k) = sumWrite[b] - (sumRead[b] + k)
      BY <1>2, <2>1
    <2>5. QED
      BY <1>2, <1>4, <2>1, <2>2, <2>3, <2>4, MakeSound, Zenon
  <1>6. /\ SetTo(size, size', b, size[b]) /\ SetTo(mem, mem', b, mem[b])
        /\ SetTo(readIdx, readIdx', b, readIdx[b] + k)
        /\ SetTo(writeIdx, writeIdx', b, writeIdx[b])
        /\ SetTo(sumRead, sumRead', b, sumRead[b] + k)
        /\ SetTo(sumWrite, sumWrite', b, sumWrite[b]) /\ SetTo(fed, fed', b, fed[b])
    BY <1>3 DEF SetTo
  <1>7. QED
    BY <1>5, <1>6, OneChanged, Zenon

LEMMA ResetStep ==
  ASSUME BufferInv, NEW b \in Buffers, Reset(b)
  PROVE  BufferInv'
  <1>1. /\ Sound(size[b], mem[b], readIdx[b], writeIdx[b], sumRead[b], sumWrite[b], fed[b])
        /\ IDX_BEGIN \in Nat
    BY BufferByBuffer, SizeAssumption DEF SoundAt, AllSound
  <1>2. <<>> \in Seq(Byte) /\ Len(<<>>) = 0
    OBVIOUS
  <1>3. Sound(size[b], mem[b], IDX_BEGIN, IDX_BEGIN, 0, 0, <<>>)
    BY <1>1, <1>2 DEF Sound, InOrder
  <1>4. /\ SetTo(size, size', b, size[b]) /\ SetTo(mem, mem', b, mem[b])
        /\ SetTo(readIdx, readIdx', b, IDX_BEGIN) /\ SetTo(writeIdx, writeIdx', b, IDX_BEGIN)
        /\ SetTo(sumRead, sumRead', b, 0) /\ SetTo(sumWrite, sumWrite', b, 0)
        /\ SetTo(fed, fed', b, <<>>)
    BY DEF Reset, SetTo
  <1>5. QED
    BY <1>3, <1>4, OneChanged, Zenon

LEMMA CopyStep ==
  ASSUME BufferInv, NEW b \in Buffers, NEW c \in Buffers, Copy(b, c)
  PROVE  BufferInv'
  <1>1. SoundAt(c)
    BY BufferByBuffer DEF AllSound
  <1>2. Sound(size[c], mem[c], readIdx[c], writeIdx[c], sumRead[c], sumWrite[c], fed[c])
    BY <1>1 DEF SoundAt
  <1>3. /\ SetTo(size, size', b, size[c]) /\ SetTo(mem, mem', b, mem[c])
        /\ SetTo(readIdx, readIdx', b, readIdx[c]) /\ SetTo(writeIdx, writeIdx', b, writeIdx[c])
        /\ SetTo(sumRead, sumRead', b, sumRead[c]) /\ SetTo(sumWrite, sumWrite', b, sumWrite[c])
        /\ SetTo(fed, fed', b, fed[c])
    BY DEF Copy, Replace, SetTo
  <1>4. QED
    BY <1>2, <1>3, OneChanged, Zenon

LEMMA SwapStep ==
  ASSUME BufferInv, NEW b \in Buffers, NEW c \in Buffers, SwapBuffer(b, c)
  PROVE  BufferInv'
  <1> DEFINE g == [d \in Buffers |-> IF d = c THEN b ELSE IF d = b THEN c ELSE d]
  <1>1. g \in [Buffers -> Buffers]
    OBVIOUS
  <1>2. \A x : DOMAIN x = Buffers => Swap(b, c, x) = [d \in Buffers |-> x[g[d]]]
    BY DEF Swap
  <1>3. /\ DOMAIN size = Buffers /\ DOMAIN mem = Buffers /\ DOMAIN readIdx = Buffers
        /\ DOMAIN writeIdx = Buffers /\ DOMAIN sumRead = Buffers /\ DOMAIN sumWrite = Buffers
        /\ DOMAIN fed = Buffers
    BY BufferByBuffer DEF AllSound, Functions
  <1> HIDE DEF g
  <1>4. /\ size' = [d \in Buffers |-> size[g[d]]] /\ mem' = [d \in Buffers |-> mem[g[d]]]
        /\ readIdx' = [d \in Buffers |-> readIdx[g[d]]]
        /\ writeIdx' = [d \in Buffers |-> writeIdx[g[d]]]
        /\ sumRead' = [d \in Buffers |-> sumRead[g[d]]]
        /\ sumWrite' = [d \in Buffers |-> sumWrite[g[d]]]
        /\ fed' = [d \in Buffers |-> fed[g[d]]]
    BY <1>2, <1>3 DEF SwapBuffer
  <1>5. QED
    BY <1>1, <1>4, Exchanged, Zenon

LEMMA NextStep == BufferInv /\ [Next]_vars => BufferInv'
  <1> SUFFICES ASSUME BufferInv, [Next]_vars PROVE BufferInv'
    OBVIOUS
  <1>1. CASE UNCHANGED vars
    BY <1>1 DEF vars, indices, BufferInv, TypeOK, InBounds, BytesInOrder, Contents,
                ReadableLength
  <1>2. ASSUME NEW b \in Buffers, NEW data \in Data, AppendData(b, data) \/ ReadFromSockfd(b, data)
        PROVE  BufferInv'
    <2>1. data \in Seq(Byte)
      BY BoundAssumption DEF Data
    <2>2. QED
      BY <1>2, <2>1, AppendStep, ReadFromSockfdStep
  <1>3. ASSUME NEW b \in Buffers, NEW n \in 0 .. MaxPut + 1, AddReadIndex(b, n)
        PROVE  BufferInv'
    BY <1>3, BoundAssumption, AddReadIndexStep
  <1>4. ASSUME NEW b \in Buffers, DropAllData(b) PROVE BufferInv'
    <2>1. ReadableLength(b) \in Nat
      BY BufferByBuffer DEF AllSound, SoundAt, Sound, ReadableLength
    <2>2. QED
      BY <1>4, <2>1, AddReadIndexStep DEF DropAllData
  <1>5. ASSUME NEW b \in Buffers, Reset(b) PROVE BufferInv'
    BY <1>5, ResetStep
  <1>6. ASSUME NEW b \in Buffers, NEW c \in Buffers, AppendDataOf(b, c) PROVE BufferInv'
    BY <1>6, ContentsIn, AppendStep DEF AppendDataOf
  <1>7. ASSUME NEW b \in Buffers, NEW c \in Buffers, Copy(b, c) \/ SwapBuffer(b, c)
        PROVE  BufferInv'
    BY <1>7, CopyStep, SwapStep
  <1>8. QED
    BY <1>1, <1>2, <1>3, <1>4, <1>5, <1>6, <1>7 DEF Next

LEMMA Inductive == Spec => []BufferInv
  BY InitStep, NextStep, PTL DEF Spec

\* Sizes, indices and counters are numbers, and the vector has as many bytes as
\* its size says (Buffer.h: the members).
THEOREM TypeCorrect == Spec => []TypeOK
  <1>1. BufferInv => TypeOK
    BY DEF BufferInv
  <1>2. QED
    BY <1>1, Inductive, PTL

\* No operation takes an index past the next one or past the end of the vector
\* (AppendData, AddReadIndex, SwapBuffer).
THEOREM BoundsHold == Spec => []InBounds
  <1>1. BufferInv => InBounds
    BY DEF BufferInv
  <1>2. QED
    BY <1>1, Inductive, PTL

\* Bytes come out as they went in, and the counters say how many
\* (AdjustBuffer, AppendData, AddReadIndex, SwapBuffer).
THEOREM OrderHolds == Spec => []BytesInOrder
  <1>1. BufferInv => BytesInOrder
    BY DEF BufferInv
  <1>2. QED
    BY <1>1, Inductive, PTL

=============================================================================
