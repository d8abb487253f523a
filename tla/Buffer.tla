------------------------------- MODULE Buffer -------------------------------
(***************************************************************************)
(* net/Buffer.h: a vector of bytes with a read and a write index.  What is  *)
(* between the indices is the contents; the room in front of them is for a  *)
(* header and is reclaimed, by moving the contents, before the vector grows. *)
(*                                                                         *)
(* A buffer is a record, its member functions are operators on it.          *)
(***************************************************************************)
EXTENDS Integers, Sequences

CONSTANTS
    Byte, Zero,             \* the bytes, and the one resize fills in
    kPrepend, kInitSize,
    ExtraBuf,               \* the size of readFd's second block, on the stack
    Data,                   \* the byte sequences callers hand over
    Reserves,               \* the arguments of shrink
    MaxSize,                \* bound: the size of the vector
    SizeMax                 \* one more than the largest size_t

\* In the code kPrepend is 8, kInitSize 1024 and SizeMax 2^64.
ASSUME SizesAssumption ==
    /\ kPrepend \in Nat /\ kInitSize \in Nat /\ ExtraBuf \in Nat /\ MaxSize \in Nat
    /\ kPrepend <= kInitSize /\ kPrepend + kInitSize <= MaxSize
    /\ SizeMax \in Nat /\ 2 * MaxSize < SizeMax
    /\ Zero \in Byte
    /\ Data \subseteq Seq(Byte)
    /\ Reserves \subseteq Nat

VARIABLES
    buf,    \* buffer_ with its size, readerIndex_ and writerIndex_
    io      \* history: the bytes the last call was given or has returned

vars == <<buf, io>>

ReadableBytes(b) == b.writer - b.reader
WriteableBytes(b) == b.size - b.writer

\* The indices are in order and inside the vector.
Intact(b) == b.reader <= b.writer /\ b.writer <= b.size

Contents(b) == [i \in 1..ReadableBytes(b) |-> b.bytes[b.reader + i - 1]]

IsBuffer(b) ==
    /\ b = [bytes |-> b.bytes, size |-> b.size, reader |-> b.reader, writer |-> b.writer]
    /\ b.size \in Nat /\ b.reader \in Nat /\ b.writer \in Nat
    /\ b.bytes \in [0..(b.size - 1) -> Byte]
    /\ kPrepend <= b.size

TypeOK == IsBuffer(buf) /\ buf.size <= MaxSize /\ io \in Seq(Byte)

Init ==
    /\ buf = [bytes  |-> [i \in 0..(kPrepend + kInitSize - 1) |-> Zero],
              size   |-> kPrepend + kInitSize,
              reader |-> kPrepend, writer |-> kPrepend]
    /\ io = <<>>

----------------------------------------------------------------------------
(* std::vector and std::copy.                                              *)

Resize(b, n) ==
    [bytes  |-> [i \in 0..(n - 1) |-> IF i < b.size THEN b.bytes[i] ELSE Zero],
     size   |-> n, reader |-> b.reader, writer |-> b.writer]

Copy(b, at, data) ==
    [bytes  |-> [i \in 0..(b.size - 1) |->
                    IF at <= i /\ i < at + Len(data) THEN data[i - at + 1] ELSE b.bytes[i]],
     size   |-> b.size, reader |-> b.reader, writer |-> b.writer]

----------------------------------------------------------------------------
(* The member functions.                                                   *)

SetIndices(b, r, w) == [bytes |-> b.bytes, size |-> b.size, reader |-> r, writer |-> w]

RetrieveAll(b) == SetIndices(b, kPrepend, kPrepend)

Retrieve(b, n) ==
    IF n < ReadableBytes(b) THEN SetIndices(b, b.reader + n, b.writer) ELSE RetrieveAll(b)

MoveToFront(b) ==
    SetIndices(Copy(b, kPrepend, Contents(b)), kPrepend, kPrepend + ReadableBytes(b))

\* Mutant: the room in front is never reclaimed.
MakeSpaceGrows(b, n) == Resize(b, b.writer + n)

\* Mutant: the room that is to stay free for headers is counted as free.
MakeSpaceTight(b, n) ==
    IF WriteableBytes(b) + b.reader < n THEN Resize(b, b.writer + n) ELSE MoveToFront(b)

MakeSpace(b, n) ==
    IF WriteableBytes(b) + b.reader < n + kPrepend
    THEN Resize(b, b.writer + n) ELSE MoveToFront(b)

EnsureWritableBytes(b, n) == IF WriteableBytes(b) < n THEN MakeSpace(b, n) ELSE b

Write(b, data) ==
    SetIndices(Copy(b, b.writer, data), b.reader, b.writer + Len(data))

AppendTo(b, data) == Write(EnsureWritableBytes(b, Len(data)), data)

Prepend(b, data) ==
    LET at == b.reader - Len(data) IN SetIndices(Copy(b, at, data), at, b.writer)

Shrink(b, reserve) ==
    LET n == ReadableBytes(b) + reserve
    IN  Resize(EnsureWritableBytes(b, n), n + kInitSize)

\* Mutant: what went to the stack is appended before the first block is counted.
ReadFdUncounted(b, data) ==
    LET w == WriteableBytes(b)
    IN  IF Len(data) <= w THEN Write(b, data)
        ELSE AppendTo(Copy(b, b.writer, SubSeq(data, 1, w)), SubSeq(data, w + 1, Len(data)))

\* One readv into the room behind the contents and, if that is short, a block
\* on the stack, which is appended afterwards.
ReadFd(b, data) ==
    LET w == WriteableBytes(b)
    IN  IF Len(data) <= w THEN Write(b, data)
        ELSE AppendTo(Write(b, SubSeq(data, 1, w)), SubSeq(data, w + 1, Len(data)))

----------------------------------------------------------------------------
(* Calls.  The guards are the assertions of the functions.                 *)

\* append, and the appendInt family
CallAppend(data) ==
    /\ Intact(buf)
    /\ buf' = AppendTo(buf, data)
    /\ buf'.size <= MaxSize
    /\ io' = data

\* Mutant: the room in front is not checked.
CallPrependUnchecked(data) ==
    /\ Intact(buf)
    /\ buf' = Prepend(buf, data)
    /\ io' = data

\* hasWritten, of data the caller has put behind beginWrite
CallHasWritten(data) ==
    /\ Intact(buf)
    /\ Len(data) <= WriteableBytes(buf)
    /\ buf' = Write(buf, data)
    /\ io' = data

\* prepend, and the prependInt family
CallPrepend(data) ==
    /\ Intact(buf)
    /\ Len(data) <= buf.reader
    /\ buf' = Prepend(buf, data)
    /\ io' = data

\* readFd, with what the descriptor has
CallReadFd(data) ==
    /\ Intact(buf)
    /\ LET w == WriteableBytes(buf)
       IN  Len(data) <= w + (IF w < ExtraBuf THEN ExtraBuf ELSE 0)
    /\ buf' = ReadFd(buf, data)
    /\ buf'.size <= MaxSize
    /\ io' = data

\* retrieveAsString, and the readInt family: a copy, and then retrieve
CallRead(n) ==
    /\ Intact(buf)
    /\ n <= ReadableBytes(buf)
    /\ io' = SubSeq(Contents(buf), 1, n)
    /\ buf' = Retrieve(buf, n)

\* retrieve, after the bytes have been seen through peek
CallRetrieve(n) ==
    /\ Intact(buf)
    /\ n <= ReadableBytes(buf)
    /\ buf' = Retrieve(buf, n)
    /\ io' = <<>>

CallRetrieveAll == buf' = RetrieveAll(buf) /\ io' = <<>>

\* Subtraction of one size_t from another
Minus(m, n) == IF n <= m THEN m - n ELSE SizeMax - (n - m)

\* unwrite: what is asserted is that n bytes could still be written.
CallUnwrite(n) ==
    /\ Intact(buf)
    /\ n <= WriteableBytes(buf)
    /\ buf' = SetIndices(buf, buf.reader, Minus(buf.writer, n))
    /\ io' = <<>>

CallShrink(reserve) ==
    /\ Intact(buf)
    /\ buf' = Shrink(buf, reserve)
    /\ buf'.size <= MaxSize
    /\ io' = <<>>

Next ==
    \/ \E data \in Data :
          \/ CallAppend(data) \/ CallHasWritten(data)
          \/ CallPrepend(data) \/ CallReadFd(data)
    \/ \E n \in 0..MaxSize : CallRead(n) \/ CallRetrieve(n) \/ CallUnwrite(n)
    \/ CallRetrieveAll
    \/ \E reserve \in Reserves : CallShrink(reserve)

Spec == Init /\ [][Next]_vars

----------------------------------------------------------------------------
(* Properties.                                                             *)

Queue == INSTANCE ByteQueue WITH queue <- Contents(buf)

\* Every call does to the contents what it does to a queue of bytes: whatever
\* was moved, resized, read in two blocks or written in front, no byte is lost,
\* repeated or out of place.  Only two calls can take the indices out of the
\* vector, after which nothing is defined: shrink of a buffer that has been
\* read far (line 209), and unwrite of more than there is (line 120).
ImplementsQueue ==
    Queue!Init /\ [][~Intact(buf) \/ ~Intact(buf)' \/ Queue!Next]_vars

\* The indices leave the vector by shrink and unwrite only, and there is always
\* room for retrieveAll to put them back.
LeavesOnlyBy ==
    [][Intact(buf) /\ ~Intact(buf)' =>
          \/ \E reserve \in Reserves :
                CallShrink(reserve) /\ buf.reader > reserve + kInitSize
          \/ \E n \in 0..MaxSize : CallUnwrite(n) /\ n > ReadableBytes(buf)]_vars

\* The vector grows, but for shrink, only if the contents with the bytes to add
\* do not fit behind kPrepend: room in front is reclaimed first (line 261).
GrowsOnlyWhenFull ==
    [][buf'.size > buf.size /\ ~(\E reserve \in Reserves : CallShrink(reserve))
         => kPrepend + ReadableBytes(buf') > buf.size]_vars
=============================================================================
