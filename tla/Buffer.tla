------------------------------- MODULE Buffer -------------------------------
(***************************************************************************)
(* utils/Buffer.cpp: a vector, two indices into it and two counters.       *)
(* Some buffers of one thread, as the connections, the codec and the tags  *)
(* use them: data is appended, copied from buffer to buffer, and read.     *)
(* Indices begin with 0, as in the code.                                   *)
(***************************************************************************)
EXTENDS Integers, Sequences

CONSTANTS
  Buffers,
  Byte,
  IDX_BEGIN,    \* 8 in the program
  SizeOf,       \* what the constructor of each was given
  MaxPiece,     \* bound: the longest data that is appended at once
  MaxPut        \* bound: bytes that go into one buffer before Reset

ASSUME ByteAssumption == Byte # {}
ASSUME SizeAssumption == IDX_BEGIN \in Nat /\ SizeOf \in [Buffers -> Nat]
ASSUME BoundAssumption == MaxPiece \in Nat /\ MaxPut \in Nat

VARIABLES
  size,         \* buffer_.size()
  mem,          \* the elements of buffer_
  readIdx,      \* read_idx_
  writeIdx,     \* write_idx_
  sumRead,      \* sum_read_
  sumWrite,     \* sum_write_
  fed           \* ghost: what went into each buffer since Reset

indices == <<readIdx, writeIdx, sumRead, sumWrite>>
vars == <<size, mem, indices, fed>>

Zero == CHOOSE x \in Byte : TRUE

Init ==
  /\ size = [b \in Buffers |-> SizeOf[b] + IDX_BEGIN]
  /\ mem = [b \in Buffers |-> [i \in 0 .. size[b] - 1 |-> Zero]]
  /\ readIdx = [b \in Buffers |-> IDX_BEGIN]
  /\ writeIdx = [b \in Buffers |-> IDX_BEGIN]
  /\ sumRead = [b \in Buffers |-> 0] /\ sumWrite = [b \in Buffers |-> 0]
  /\ fed = [b \in Buffers |-> <<>>]

ReadableLength(b) == writeIdx[b] - readIdx[b]
WritableLength(b) == size[b] - writeIdx[b]

\* What can be read, as a sequence.
Contents(b) == [i \in 1 .. ReadableLength(b) |-> mem[b][readIdx[b] + i - 1]]

-----------------------------------------------------------------------------
(* Writing *)

\* Where the data ends after AdjustBuffer has moved it to IDX_BEGIN.
AdjustedEnd(b) == IDX_BEGIN + ReadableLength(b)

\* Mutant: the room is reckoned as if the data began the vector.
GrownWithoutBegin(b, n) ==
  IF n > size[b] - ReadableLength(b) THEN ReadableLength(b) + n ELSE size[b]

\* AppendData resizes by what is missing; ReSize adds IDX_BEGIN each time.
Grown(b, n) ==
  LET writable == size[b] - AdjustedEnd(b)
  IN  IF n > writable THEN size[b] + (n - writable) + IDX_BEGIN ELSE size[b]

\* The vector after AdjustBuffer, with data behind it; new elements are zero.
Written(b, newSize, data) ==
  [i \in 0 .. newSize - 1 |->
     CASE IDX_BEGIN <= i /\ i < AdjustedEnd(b) -> mem[b][readIdx[b] + i - IDX_BEGIN]
       [] AdjustedEnd(b) <= i /\ i < AdjustedEnd(b) + Len(data) -> data[i - AdjustedEnd(b) + 1]
       [] OTHER -> IF i < size[b] THEN mem[b][i] ELSE Zero]

\* AdjustBuffer, memcpy and AddWriteIndex, in a vector of newSize elements.
Write(b, newSize, data) ==
  /\ size' = [size EXCEPT ![b] = newSize]
  /\ mem' = [mem EXCEPT ![b] = Written(b, newSize, data)]
  /\ readIdx' = [readIdx EXCEPT ![b] = IDX_BEGIN]
  /\ writeIdx' = [writeIdx EXCEPT ![b] = AdjustedEnd(b) + Len(data)]
  /\ sumWrite' = [sumWrite EXCEPT ![b] = @ + Len(data)]
  /\ fed' = [fed EXCEPT ![b] = @ \o data]
  /\ UNCHANGED sumRead

Bounded(b, n) == n <= MaxPiece /\ sumWrite[b] + n <= MaxPut

AppendData(b, data) ==
  /\ Bounded(b, Len(data))
  /\ Write(b, Grown(b, Len(data)), data)

\* The overload that takes a Buffer: what is read is not consumed.
AppendDataOf(b, c) == b # c /\ AppendData(b, Contents(c))

\* Reads what fits, and never resizes: a full buffer reads nothing, as the end
\* of the stream and an error do.
ReadFromSockfd(b, data) ==
  /\ Bounded(b, Len(data))
  /\ Len(data) <= size[b] - AdjustedEnd(b)
  /\ Write(b, size[b], data)

-----------------------------------------------------------------------------
(* Reading *)

\* Mutant: the counter is advanced by what is left after the index was.
AddReadIndexUncounted(b, n) ==
  LET k == IF n > ReadableLength(b) THEN ReadableLength(b) ELSE n
  IN  /\ readIdx' = [readIdx EXCEPT ![b] = @ + k]
      /\ sumRead' = [sumRead EXCEPT ![b] = @ + IF n > ReadableLength(b) THEN 0 ELSE n]
      /\ UNCHANGED <<size, mem, writeIdx, sumWrite, fed>>

AddReadIndex(b, n) ==
  LET k == IF n > ReadableLength(b) THEN ReadableLength(b) ELSE n
  IN  /\ readIdx' = [readIdx EXCEPT ![b] = @ + k]
      /\ sumRead' = [sumRead EXCEPT ![b] = @ + k]
      /\ UNCHANGED <<size, mem, writeIdx, sumWrite, fed>>

\* ReadAllAsString and DropAllData.
DropAllData(b) == AddReadIndex(b, ReadableLength(b))

Reset(b) ==
  /\ readIdx' = [readIdx EXCEPT ![b] = IDX_BEGIN]
  /\ writeIdx' = [writeIdx EXCEPT ![b] = IDX_BEGIN]
  /\ sumRead' = [sumRead EXCEPT ![b] = 0] /\ sumWrite' = [sumWrite EXCEPT ![b] = 0]
  /\ fed' = [fed EXCEPT ![b] = <<>>]
  /\ UNCHANGED <<size, mem>>

-----------------------------------------------------------------------------
(* Two buffers *)

\* The assignment of a pack takes its buffer along.
Replace(b, c, f) == [f EXCEPT ![b] = f[c]]
Copy(b, c) ==
  /\ size' = Replace(b, c, size) /\ mem' = Replace(b, c, mem)
  /\ readIdx' = Replace(b, c, readIdx) /\ writeIdx' = Replace(b, c, writeIdx)
  /\ sumRead' = Replace(b, c, sumRead) /\ sumWrite' = Replace(b, c, sumWrite)
  /\ fed' = Replace(b, c, fed)

Swap(b, c, f) == [f EXCEPT ![b] = f[c], ![c] = f[b]]
SwapBuffer(b, c) ==
  /\ size' = Swap(b, c, size) /\ mem' = Swap(b, c, mem)
  /\ readIdx' = Swap(b, c, readIdx) /\ writeIdx' = Swap(b, c, writeIdx)
  /\ sumRead' = Swap(b, c, sumRead) /\ sumWrite' = Swap(b, c, sumWrite)
  /\ fed' = Swap(b, c, fed)

-----------------------------------------------------------------------------

Data == UNION {[1 .. n -> Byte] : n \in 0 .. MaxPiece}

Next ==
  \E b \in Buffers :
    \/ \E data \in Data : AppendData(b, data) \/ ReadFromSockfd(b, data)
    \/ \E n \in 0 .. MaxPut + 1 : AddReadIndex(b, n)
    \/ DropAllData(b) \/ Reset(b)
    \/ \E c \in Buffers : AppendDataOf(b, c) \/ Copy(b, c) \/ SwapBuffer(b, c)

Spec == Init /\ [][Next]_vars

-----------------------------------------------------------------------------
(* Properties *)

TypeOK ==
  /\ size \in [Buffers -> Nat]
  /\ DOMAIN mem = Buffers
  /\ \A b \in Buffers : mem[b] \in [0 .. size[b] - 1 -> Byte]
  /\ readIdx \in [Buffers -> Nat] /\ writeIdx \in [Buffers -> Nat]
  /\ sumRead \in [Buffers -> Nat] /\ sumWrite \in [Buffers -> Nat]
  /\ fed \in [Buffers -> Seq(Byte)]

\* The indices stay inside the vector and in order, so that neither a copy nor
\* a read goes past it and WritableLength does not wrap (AppendData,
\* AddReadIndex, SwapBuffer).
InBounds ==
  \A b \in Buffers :
    IDX_BEGIN <= readIdx[b] /\ readIdx[b] <= writeIdx[b] /\ writeIdx[b] <= size[b]

\* What can be read is what went in and has not gone out, in order, whatever is
\* moved inside the vector; the counters tell how much went in and out, also
\* after a swap and when more is dropped than is there (AdjustBuffer, AppendData,
\* AddReadIndex, SwapBuffer).
BytesInOrder ==
  \A b \in Buffers :
    /\ sumWrite[b] = Len(fed[b])
    /\ ReadableLength(b) = sumWrite[b] - sumRead[b]
    /\ \A i \in 1 .. ReadableLength(b) : Contents(b)[i] = fed[b][sumRead[b] + i]

=============================================================================
