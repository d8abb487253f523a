---------------------------- MODULE BufferProofs ----------------------------
(***************************************************************************)
(* Proofs about Buffer, for any sizes and any data.  The lemmas say of each  *)
(* member function what it does to the indices and to the contents; the      *)
(* theorems combine them, one step for each call.                           *)
(***************************************************************************)
EXTENDS Buffer, TLAPS

\* The readable bytes as a sequence.
LEMMA ContentsType ==
    ASSUME NEW b, IsBuffer(b), Intact(b)
    PROVE  /\ ReadableBytes(b) \in Nat
           /\ Contents(b) \in Seq(Byte)
           /\ Len(Contents(b)) = ReadableBytes(b)
           /\ \A i \in 1..ReadableBytes(b) : Contents(b)[i] = b.bytes[b.reader + i - 1]
<1> DEFINE m == ReadableBytes(b)
<1>1. m \in Nat
  BY DEF IsBuffer, Intact, ReadableBytes
<1>2. \A i \in 1..m : b.bytes[b.reader + i - 1] \in Byte
  <2> SUFFICES ASSUME NEW i \in 1..m PROVE b.bytes[b.reader + i - 1] \in Byte
    OBVIOUS
  <2>1. b.reader + i - 1 \in 0..(b.size - 1)
    BY DEF IsBuffer, Intact, ReadableBytes
  <2> QED
    BY <2>1 DEF IsBuffer
<1>3. Contents(b) \in [1..m -> Byte]
  BY <1>2 DEF Contents
<1> QED
  BY <1>1, <1>3 DEF Contents

\* resize keeps what fits.
LEMMA ResizeOK ==
    ASSUME NEW b, IsBuffer(b), NEW n \in Nat, kPrepend <= n
    PROVE  LET r == Resize(b, n)
           IN  /\ IsBuffer(r)
               /\ r.size = n /\ r.reader = b.reader /\ r.writer = b.writer
               /\ \A i \in 0..(n - 1) : i < b.size => r.bytes[i] = b.bytes[i]
<1> DEFINE f == [i \in 0..(n - 1) |-> IF i < b.size THEN b.bytes[i] ELSE Zero]
<1>1. f \in [0..(n - 1) -> Byte]
  BY SizesAssumption DEF IsBuffer
<1>2. Resize(b, n) = [bytes |-> f, size |-> n, reader |-> b.reader, writer |-> b.writer]
  BY DEF Resize, IsBuffer
<1> QED
  BY <1>1, <1>2 DEF IsBuffer

\* std::copy writes the data and nothing else.
LEMMA CopyOK ==
    ASSUME NEW b, IsBuffer(b), NEW at \in Nat, NEW data \in Seq(Byte)
    PROVE  LET c == Copy(b, at, data)
           IN  /\ IsBuffer(c)
               /\ c.size = b.size /\ c.reader = b.reader /\ c.writer = b.writer
               /\ \A i \in 0..(b.size - 1) :
                     c.bytes[i] = IF at <= i /\ i < at + Len(data)
                                  THEN data[i - at + 1] ELSE b.bytes[i]
<1> DEFINE f == [i \in 0..(b.size - 1) |->
                   IF at <= i /\ i < at + Len(data) THEN data[i - at + 1] ELSE b.bytes[i]]
<1>1. f \in [0..(b.size - 1) -> Byte]
  <2> SUFFICES ASSUME NEW i \in 0..(b.size - 1) PROVE f[i] \in Byte
    OBVIOUS
  <2>1. CASE at <= i /\ i < at + Len(data)
    <3>1. i - at + 1 \in 1..Len(data)
      BY <2>1 DEF IsBuffer
    <3> QED
      BY <2>1, <3>1
  <2>2. CASE ~(at <= i /\ i < at + Len(data))
    BY <2>2 DEF IsBuffer
  <2> QED
    BY <2>1, <2>2
<1>2. Copy(b, at, data) = [bytes |-> f, size |-> b.size, reader |-> b.reader, writer |-> b.writer]
  BY DEF Copy, IsBuffer
<1> QED
  BY <1>1, <1>2 DEF IsBuffer

\* Moving the indices moves no byte.
LEMMA SetIndicesOK ==
    ASSUME NEW b, IsBuffer(b), NEW r \in Nat, NEW w \in Nat
    PROVE  LET s == SetIndices(b, r, w)
           IN  /\ IsBuffer(s)
               /\ s.size = b.size /\ s.bytes = b.bytes /\ s.reader = r /\ s.writer = w
BY DEF SetIndices, IsBuffer

----------------------------------------------------------------------------
(* Making room.                                                            *)

\* The readable bytes are moved down to kPrepend.
LEMMA MoveToFrontOK ==
    ASSUME NEW b, IsBuffer(b), Intact(b), kPrepend <= b.reader
    PROVE  LET m == MoveToFront(b)
           IN  /\ IsBuffer(m) /\ Intact(m)
               /\ m.size = b.size /\ m.reader = kPrepend
               /\ ReadableBytes(m) = ReadableBytes(b)
               /\ Contents(m) = Contents(b)
<1> DEFINE c == Copy(b, kPrepend, Contents(b))
           m == MoveToFront(b)
           k == ReadableBytes(b)
<1>0. kPrepend \in Nat
  BY SizesAssumption
<1>1. /\ k \in Nat /\ Contents(b) \in Seq(Byte) /\ Len(Contents(b)) = k
      /\ \A i \in 1..k : Contents(b)[i] = b.bytes[b.reader + i - 1]
  BY ContentsType
<1>2. /\ IsBuffer(c)
      /\ c.size = b.size /\ c.reader = b.reader /\ c.writer = b.writer
      /\ \A i \in 0..(b.size - 1) :
            c.bytes[i] = IF kPrepend <= i /\ i < kPrepend + k
                         THEN Contents(b)[i - kPrepend + 1] ELSE b.bytes[i]
  BY <1>0, <1>1, CopyOK
<1>3. /\ IsBuffer(m)
      /\ m.size = b.size /\ m.bytes = c.bytes
      /\ m.reader = kPrepend /\ m.writer = kPrepend + k
  <2>1. kPrepend + k \in Nat
    BY <1>0, <1>1
  <2> QED
    BY ZenonT(20), <1>0, <2>1, <1>2, SetIndicesOK DEF MoveToFront
<1>4. Intact(m) /\ ReadableBytes(m) = k
  BY <1>0, <1>1, <1>3 DEF Intact, IsBuffer, ReadableBytes
<1>5. ASSUME NEW i \in 1..k PROVE m.bytes[m.reader + i - 1] = b.bytes[b.reader + i - 1]
  <2>1. kPrepend + i - 1 \in 0..(b.size - 1)
    BY <1>0, <1>1 DEF IsBuffer, Intact, ReadableBytes
  <2>2. c.bytes[kPrepend + i - 1] = Contents(b)[i]
    BY <1>0, <1>1, <1>2, <2>1
  <2> QED
    BY <1>1, <1>3, <2>2
<1>6. Contents(m) = Contents(b)
  BY <1>4, <1>5 DEF Contents
<1> QED
  BY <1>3, <1>4, <1>6

\* What a larger vector, or one with its indices elsewhere, has in it.
LEMMA SameContents ==
    ASSUME NEW b, NEW c, IsBuffer(b), Intact(b), IsBuffer(c), Intact(c),
           ReadableBytes(c) = ReadableBytes(b),
           \A i \in 1..ReadableBytes(b) :
               c.bytes[c.reader + i - 1] = b.bytes[b.reader + i - 1]
    PROVE  Contents(c) = Contents(b)
BY DEF Contents

\* A resize beyond the writer keeps the readable bytes.
LEMMA ResizeKeeps ==
    ASSUME NEW b, IsBuffer(b), Intact(b), NEW n \in Nat, kPrepend <= n, b.writer <= n
    PROVE  LET r == Resize(b, n)
           IN  /\ IsBuffer(r) /\ Intact(r)
               /\ r.size = n /\ r.reader = b.reader /\ r.writer = b.writer
               /\ Contents(r) = Contents(b)
<1> DEFINE r == Resize(b, n)
<1>1. /\ IsBuffer(r)
      /\ r.size = n /\ r.reader = b.reader /\ r.writer = b.writer
      /\ \A i \in 0..(n - 1) : i < b.size => r.bytes[i] = b.bytes[i]
  BY ResizeOK
<1>2. Intact(r) /\ ReadableBytes(r) = ReadableBytes(b)
  BY <1>1 DEF Intact, ReadableBytes
<1>3. ASSUME NEW i \in 1..ReadableBytes(b)
      PROVE  r.bytes[r.reader + i - 1] = b.bytes[b.reader + i - 1]
  <2>1. b.reader + i - 1 \in 0..(n - 1) /\ b.reader + i - 1 < b.size
    BY DEF IsBuffer, Intact, ReadableBytes
  <2> QED
    BY <1>1, <2>1
<1> HIDE DEF r
<1>4. Contents(r) = Contents(b)
  BY <1>1, <1>2, <1>3, SameContents
<1> QED
  BY <1>1, <1>2, <1>4 DEF r

\* ensureWritableBytes makes room and changes no readable byte.
LEMMA EnsureOK ==
    ASSUME NEW b, IsBuffer(b), Intact(b), NEW n \in Nat
    PROVE  LET e == EnsureWritableBytes(b, n)
           IN  /\ IsBuffer(e) /\ Intact(e)
               /\ n <= WriteableBytes(e)
               /\ Contents(e) = Contents(b)
               /\ ReadableBytes(e) = ReadableBytes(b)
               /\ e.reader <= b.reader
               /\ e.size # b.size => b.size < kPrepend + ReadableBytes(b) + n
<1> DEFINE e == EnsureWritableBytes(b, n)
<1>0. kPrepend \in Nat
  BY SizesAssumption
<1>1. CASE n <= WriteableBytes(b)
  <2>1. e = b
    BY <1>1 DEF EnsureWritableBytes, WriteableBytes, IsBuffer
  <2> QED
    BY <1>1, <2>1 DEF IsBuffer
<1>2. CASE WriteableBytes(b) < n /\ WriteableBytes(b) + b.reader < n + kPrepend
  <2>1. e = Resize(b, b.writer + n)
    BY <1>2 DEF EnsureWritableBytes, MakeSpace
  <2>2. b.writer + n \in Nat /\ kPrepend <= b.writer + n /\ b.writer <= b.writer + n
    BY <1>0, <1>2 DEF WriteableBytes, IsBuffer
  <2>3. /\ IsBuffer(e) /\ Intact(e)
        /\ e.size = b.writer + n /\ e.reader = b.reader /\ e.writer = b.writer
        /\ Contents(e) = Contents(b)
    BY <2>1, <2>2, ResizeKeeps
  <2> QED
    BY SMTT(15), <1>0, <1>2, <2>3 DEF WriteableBytes, ReadableBytes, IsBuffer
<1>3. CASE WriteableBytes(b) < n /\ ~(WriteableBytes(b) + b.reader < n + kPrepend)
  <2>1. e = MoveToFront(b)
    BY <1>3 DEF EnsureWritableBytes, MakeSpace
  <2>2. kPrepend <= b.reader
    BY <1>0, <1>3 DEF WriteableBytes, IsBuffer
  <2>3. /\ IsBuffer(e) /\ Intact(e)
        /\ e.size = b.size /\ e.reader = kPrepend
        /\ ReadableBytes(e) = ReadableBytes(b)
        /\ Contents(e) = Contents(b)
    BY <2>1, <2>2, MoveToFrontOK
  <2> QED
    BY <1>0, <1>3, <2>2, <2>3 DEF WriteableBytes, ReadableBytes, IsBuffer
<1> QED
  BY <1>1, <1>2, <1>3 DEF WriteableBytes, IsBuffer

----------------------------------------------------------------------------
(* The calls.                                                              *)

\* Joins, place by place.
LEMMA JoinsFromParts ==
    ASSUME NEW r, NEW s, NEW t, Len(r) \in Nat, Len(s) \in Nat, Len(t) = Len(r) + Len(s),
           \A i \in 1..Len(r) : t[i] = r[i],
           \A i \in 1..Len(s) : t[Len(r) + i] = s[i]
    PROVE  Queue!Joins(r, s, t)
<1>1. \A i \in 1..Len(s) : t[Len(t) - Len(s) + i] = s[i]
  <2>1. Len(t) - Len(s) = Len(r)
    OBVIOUS
  <2> QED
    BY <2>1
<1> QED
  BY <1>1 DEF Queue!Joins, Queue!Begins, Queue!Ends

\* The parts of a joined sequence.
LEMMA JoinsParts ==
    ASSUME NEW r, NEW s, NEW t, Len(r) \in Nat, Len(s) \in Nat, Queue!Joins(r, s, t)
    PROVE  /\ Len(t) = Len(r) + Len(s)
           /\ \A i \in 1..Len(r) : t[i] = r[i]
           /\ \A i \in 1..Len(s) : t[Len(r) + i] = s[i]
<1>1. /\ Len(t) = Len(r) + Len(s)
      /\ \A i \in 1..Len(r) : t[i] = r[i]
      /\ \A i \in 1..Len(s) : t[Len(t) - Len(s) + i] = s[i]
  BY DEF Queue!Joins, Queue!Begins, Queue!Ends
<1>2. Len(t) - Len(s) = Len(r)
  BY <1>1
<1> QED
  BY <1>1, <1>2

\* Data that fits goes behind the readable bytes.
LEMMA WriteOK ==
    ASSUME NEW b, IsBuffer(b), Intact(b),
           NEW data \in Seq(Byte), Len(data) <= WriteableBytes(b)
    PROVE  LET w == Write(b, data)
           IN  /\ IsBuffer(w) /\ Intact(w)
               /\ w.size = b.size /\ w.reader = b.reader /\ w.writer = b.writer + Len(data)
               /\ ReadableBytes(w) = ReadableBytes(b) + Len(data)
               /\ Queue!Joins(Contents(b), data, Contents(w))
<1> DEFINE c == Copy(b, b.writer, data)
           w == Write(b, data)
           k == ReadableBytes(b)
           l == Len(data)
<1>0. /\ b.reader \in Nat /\ b.writer \in Nat /\ b.size \in Nat
      /\ l \in Nat /\ b.writer + l \in Nat
      /\ k \in Nat /\ b.writer = b.reader + k /\ b.writer + l <= b.size
  BY DEF IsBuffer, Intact, ReadableBytes, WriteableBytes
<1>1. /\ IsBuffer(c)
      /\ c.size = b.size /\ c.reader = b.reader /\ c.writer = b.writer
      /\ \A i \in 0..(b.size - 1) :
            c.bytes[i] = IF b.writer <= i /\ i < b.writer + Len(data)
                         THEN data[i - b.writer + 1] ELSE b.bytes[i]
  BY <1>0, CopyOK
<1>2. /\ IsBuffer(w)
      /\ w.size = b.size /\ w.bytes = c.bytes
      /\ w.reader = b.reader /\ w.writer = b.writer + l
  <2>1. w = SetIndices(c, b.reader, b.writer + l)
    BY DEF Write
  <2>2. \A x, y \in Nat : IsBuffer(SetIndices(c, x, y))
    BY <1>1, SetIndicesOK
  <2>3. IsBuffer(w)
    BY <1>0, <2>1, <2>2
  <2>4. /\ w.size = c.size /\ w.bytes = c.bytes
        /\ w.reader = b.reader /\ w.writer = b.writer + l
    BY <2>1 DEF SetIndices
  <2> QED
    BY <1>1, <2>3, <2>4
<1>w. w = Write(b, data)
  OBVIOUS
<1> HIDE DEF w, c
<1>3. Intact(w) /\ ReadableBytes(w) = k + l
  BY <1>0, <1>2 DEF Intact, ReadableBytes
<1>4. /\ Len(Contents(b)) = k
      /\ \A i \in 1..k : Contents(b)[i] = b.bytes[b.reader + i - 1]
  BY ContentsType
<1>5. /\ Len(Contents(w)) = k + l
      /\ \A i \in 1..(k + l) : Contents(w)[i] = w.bytes[w.reader + i - 1]
  BY <1>2, <1>3, ContentsType
<1> HIDE DEF k, l
<1>6. ASSUME NEW i \in 1..k PROVE Contents(w)[i] = Contents(b)[i]
  <2>1. /\ b.reader + i - 1 \in 0..(b.size - 1) /\ b.reader + i - 1 < b.writer
        /\ i \in 1..(k + l)
    BY SMTT(15), <1>0
  <2>2. c.bytes[b.reader + i - 1] = b.bytes[b.reader + i - 1]
    <3> DEFINE j == b.reader + i - 1
    <3>1. j \in 0..(b.size - 1) /\ ~(b.writer <= j)
      BY <1>0, <2>1
    <3> HIDE DEF j
    <3>2. c.bytes[j] = b.bytes[j]
      BY <1>1, <3>1
    <3> QED
      BY <3>2 DEF j
  <2> QED
    BY <1>2, <1>4, <1>5, <2>1, <2>2
<1>7. ASSUME NEW i \in 1..l PROVE Contents(w)[k + i] = data[i]
  <2>1. i \in Nat /\ 1 <= i /\ i <= l
    BY <1>0
  <2>2. b.writer + i - 1 \in 0..(b.size - 1) /\ k + i \in 1..(k + l)
    BY SMTT(15), <1>0, <2>1
  <2>3. c.bytes[b.writer + i - 1] = data[(b.writer + i - 1) - b.writer + 1]
    <3>1. b.writer <= b.writer + i - 1 /\ b.writer + i - 1 < b.writer + Len(data)
      BY <1>0, <2>1 DEF l
    <3> QED
      BY <1>1, <2>2, <3>1
  <2>4. (b.writer + i - 1) - b.writer + 1 = i /\ b.reader + (k + i) - 1 = b.writer + i - 1
    BY SMTT(15), <1>0, <2>1
  <2>5. Contents(w)[k + i] = w.bytes[b.reader + (k + i) - 1]
    BY <1>2, <1>5, <2>2
  <2> QED
    BY <1>2, <2>3, <2>4, <2>5
<1>8. Queue!Joins(Contents(b), data, Contents(w))
  BY <1>0, <1>4, <1>5, <1>6, <1>7, JoinsFromParts DEF l
<1> QED
  BY <1>2, <1>3, <1>8, <1>w DEF k, l

\* append.
LEMMA AppendOK ==
    ASSUME NEW b, IsBuffer(b), Intact(b), NEW data \in Seq(Byte)
    PROVE  LET a == AppendTo(b, data)
           IN  /\ IsBuffer(a) /\ Intact(a)
               /\ ReadableBytes(a) = ReadableBytes(b) + Len(data)
               /\ Queue!Joins(Contents(b), data, Contents(a))
               /\ a.size # b.size => b.size < kPrepend + ReadableBytes(a)
<1> DEFINE e == EnsureWritableBytes(b, Len(data))
<1>1. Len(data) \in Nat
  OBVIOUS
<1>2. /\ IsBuffer(e) /\ Intact(e)
      /\ Len(data) <= WriteableBytes(e)
      /\ Contents(e) = Contents(b)
      /\ ReadableBytes(e) = ReadableBytes(b)
      /\ e.size # b.size => b.size < kPrepend + ReadableBytes(b) + Len(data)
  BY <1>1, EnsureOK
<1> HIDE DEF e
<1>3. LET w == Write(e, data)
      IN  /\ IsBuffer(w) /\ Intact(w) /\ w.size = e.size
          /\ ReadableBytes(w) = ReadableBytes(e) + Len(data)
          /\ Queue!Joins(Contents(e), data, Contents(w))
  BY <1>2, WriteOK
<1>4. ReadableBytes(b) \in Nat /\ kPrepend \in Nat /\ b.size \in Nat
  BY ContentsType, SizesAssumption DEF IsBuffer
<1>5. AppendTo(b, data) = Write(e, data)
  BY DEF AppendTo, e
<1> QED
  BY <1>1, <1>2, <1>3, <1>4, <1>5

\* Two pieces, one after the other, are the whole.
LEMMA JoinsInTwo ==
    ASSUME NEW q \in Seq(Byte), NEW q1 \in Seq(Byte), NEW q2 \in Seq(Byte),
           NEW data \in Seq(Byte), NEW n \in Nat, n <= Len(data),
           Queue!Joins(q, SubSeq(data, 1, n), q1),
           Queue!Joins(q1, SubSeq(data, n + 1, Len(data)), q2)
    PROVE  Queue!Joins(q, data, q2)
<1> DEFINE d1 == SubSeq(data, 1, n)
           d2 == SubSeq(data, n + 1, Len(data))
<1>1. /\ Len(d1) = n /\ Len(d2) = Len(data) - n
      /\ \A i \in 1..n : d1[i] = data[i]
      /\ \A i \in 1..(Len(data) - n) : d2[i] = data[n + i]
  OBVIOUS
<1> HIDE DEF d1, d2
<1>2. Len(q) \in Nat /\ Len(q1) \in Nat /\ Len(data) \in Nat
  OBVIOUS
<1>3. /\ Len(q1) = Len(q) + n
      /\ \A i \in 1..Len(q) : q1[i] = q[i]
      /\ \A i \in 1..n : q1[Len(q) + i] = d1[i]
  <2>1. Queue!Joins(q, d1, q1)
    BY DEF d1
  <2> QED
    BY <1>1, <1>2, <2>1, JoinsParts
<1>4. /\ Len(q2) = Len(q1) + (Len(data) - n)
      /\ \A i \in 1..Len(q1) : q2[i] = q1[i]
      /\ \A i \in 1..(Len(data) - n) : q2[Len(q1) + i] = d2[i]
  <2>1. Len(d2) \in Nat
    BY <1>1, <1>2
  <2>2. Queue!Joins(q1, d2, q2)
    BY DEF d2
  <2>3. Len(d2) = Len(data) - n
    BY <1>1
  <2>4. /\ Len(q2) = Len(q1) + Len(d2)
        /\ \A i \in 1..Len(q1) : q2[i] = q1[i]
        /\ \A i \in 1..Len(d2) : q2[Len(q1) + i] = d2[i]
    BY <1>2, <2>1, <2>2, JoinsParts
  <2> QED
    BY <2>3, <2>4
<1>5. Len(q2) = Len(q) + Len(data) /\ \A i \in 1..Len(q) : q2[i] = q[i]
  BY <1>2, <1>3, <1>4
<1>6. ASSUME NEW i \in 1..Len(data) PROVE q2[Len(q) + i] = data[i]
  <2>1. CASE i <= n
    <3>1. i \in 1..n /\ Len(q) + i \in 1..Len(q1)
      BY <1>2, <1>3, <2>1
    <3> QED
      BY <1>1, <1>3, <1>4, <3>1
  <2>2. CASE n < i
    <3>1. i - n \in 1..(Len(data) - n) /\ n + (i - n) = i /\ Len(q1) + (i - n) = Len(q) + i
      BY <1>2, <1>3, <2>2
    <3>2. d2[i - n] = data[i]
      BY <1>1, <3>1
    <3>3. q2[Len(q1) + (i - n)] = d2[i - n]
      BY <1>4, <3>1
    <3> QED
      BY <3>1, <3>2, <3>3
  <2> QED
    BY <2>1, <2>2
<1> QED
  BY <1>2, <1>5, <1>6, JoinsFromParts

\* readFd, with what spills over into the extra buffer.
LEMMA ReadFdOK ==
    ASSUME NEW b, IsBuffer(b), Intact(b), NEW data \in Seq(Byte)
    PROVE  LET r == ReadFd(b, data)
           IN  /\ IsBuffer(r) /\ Intact(r)
               /\ Queue!Joins(Contents(b), data, Contents(r))
               /\ r.size # b.size => b.size < kPrepend + ReadableBytes(r)
<1> DEFINE n == WriteableBytes(b)
           d1 == SubSeq(data, 1, n)
           d2 == SubSeq(data, n + 1, Len(data))
           w == Write(b, d1)
           r == ReadFd(b, data)
<1>0. n \in Nat
  BY DEF IsBuffer, Intact, WriteableBytes
<1>1. CASE Len(data) <= n
  <2>1. r = Write(b, data)
    BY <1>1 DEF ReadFd
  <2>2. /\ IsBuffer(r) /\ Intact(r) /\ r.size = b.size
        /\ Queue!Joins(Contents(b), data, Contents(r))
    BY <1>1, <2>1, WriteOK
  <2> QED
    BY <2>2
<1>2. CASE n < Len(data)
  <2>1. r = AppendTo(w, d2)
    BY <1>0, <1>2 DEF ReadFd
  <2>2. d1 \in Seq(Byte) /\ d2 \in Seq(Byte) /\ Len(d1) = n
    BY <1>0, <1>2
  <2>3. /\ IsBuffer(w) /\ Intact(w) /\ w.size = b.size
        /\ Queue!Joins(Contents(b), d1, Contents(w))
    <3> HIDE DEF d1
    <3> QED
      BY <2>2, WriteOK
  <2>4. /\ IsBuffer(r) /\ Intact(r)
        /\ Queue!Joins(Contents(w), d2, Contents(r))
        /\ r.size # w.size => w.size < kPrepend + ReadableBytes(r)
    <3> HIDE DEF w, d2, r
    <3> QED
      BY <2>1, <2>2, <2>3, AppendOK
  <2>5. Contents(b) \in Seq(Byte) /\ Contents(w) \in Seq(Byte) /\ Contents(r) \in Seq(Byte)
    BY <2>3, <2>4, ContentsType
  <2>6. Queue!Joins(Contents(b), data, Contents(r))
    BY <1>0, <1>2, <2>3, <2>4, <2>5, JoinsInTwo
  <2> QED
    BY <2>3, <2>4, <2>6
<1> QED
  BY <1>0, <1>1, <1>2

\* prepend puts the data in front.
LEMMA PrependOK ==
    ASSUME NEW b, IsBuffer(b), Intact(b),
           NEW data \in Seq(Byte), Len(data) <= b.reader
    PROVE  LET p == Prepend(b, data)
           IN  /\ IsBuffer(p) /\ Intact(p) /\ p.size = b.size
               /\ Queue!Joins(data, Contents(b), Contents(p))
<1> DEFINE k == ReadableBytes(b)
           l == Len(data)
           at == b.reader - l
           c == Copy(b, at, data)
           p == Prepend(b, data)
<1>0. /\ b.reader \in Nat /\ b.writer \in Nat /\ b.size \in Nat /\ l \in Nat
      /\ k \in Nat /\ b.writer = b.reader + k /\ b.writer <= b.size
      /\ at \in Nat /\ b.reader = at + l
  BY DEF IsBuffer, Intact, ReadableBytes
<1>1. /\ IsBuffer(c)
      /\ c.size = b.size /\ c.reader = b.reader /\ c.writer = b.writer
      /\ \A i \in 0..(b.size - 1) :
            c.bytes[i] = IF at <= i /\ i < at + Len(data)
                         THEN data[i - at + 1] ELSE b.bytes[i]
  BY <1>0, CopyOK
<1>2. /\ IsBuffer(p)
      /\ p.size = b.size /\ p.bytes = c.bytes /\ p.reader = at /\ p.writer = b.writer
  <2>1. p = SetIndices(c, at, b.writer)
    BY DEF Prepend
  <2>2. \A x, y \in Nat : IsBuffer(SetIndices(c, x, y))
    BY <1>1, SetIndicesOK
  <2>3. IsBuffer(p)
    BY <1>0, <2>1, <2>2
  <2>4. p.size = c.size /\ p.bytes = c.bytes /\ p.reader = at /\ p.writer = b.writer
    BY <2>1 DEF SetIndices
  <2> QED
    BY <1>1, <2>3, <2>4
<1>p. p = Prepend(b, data)
  OBVIOUS
<1> HIDE DEF p, c, at
<1>3. Intact(p) /\ ReadableBytes(p) = l + k
  BY <1>0, <1>2 DEF Intact, ReadableBytes
<1>4. /\ Len(Contents(b)) = k
      /\ \A i \in 1..k : Contents(b)[i] = b.bytes[b.reader + i - 1]
  BY ContentsType
<1>5. /\ Len(Contents(p)) = l + k
      /\ \A i \in 1..(l + k) : Contents(p)[i] = p.bytes[p.reader + i - 1]
  BY <1>2, <1>3, ContentsType
<1> HIDE DEF k, l
<1>6. ASSUME NEW i \in 1..l PROVE Contents(p)[i] = data[i]
  <2>1. at + i - 1 \in 0..(b.size - 1) /\ i \in 1..(l + k) /\ (at + i - 1) - at + 1 = i
    BY <1>0
  <2>2. at <= at + i - 1 /\ at + i - 1 < at + Len(data)
    BY <1>0 DEF l
  <2>3. c.bytes[at + i - 1] = data[(at + i - 1) - at + 1]
    BY <1>1, <2>1, <2>2
  <2> QED
    BY <1>2, <1>5, <2>1, <2>3
<1>7. ASSUME NEW i \in 1..k PROVE Contents(p)[l + i] = Contents(b)[i]
  <2>1. /\ b.reader + i - 1 \in 0..(b.size - 1) /\ l + i \in 1..(l + k)
        /\ at + (l + i) - 1 = b.reader + i - 1
    BY <1>0
  <2>2. ~(b.reader + i - 1 < at + Len(data))
    BY <1>0 DEF l
  <2>3. c.bytes[b.reader + i - 1] = b.bytes[b.reader + i - 1]
    BY <1>1, <2>1, <2>2
  <2> QED
    BY <1>2, <1>4, <1>5, <2>1, <2>3
<1>8. Queue!Joins(data, Contents(b), Contents(p))
  BY <1>0, <1>4, <1>5, <1>6, <1>7, JoinsFromParts DEF l
<1> QED
  BY <1>2, <1>3, <1>8, <1>p

\* retrieveAll leaves an empty buffer.
LEMMA RetrieveAllOK ==
    ASSUME NEW b, IsBuffer(b)
    PROVE  LET r == RetrieveAll(b)
           IN  /\ IsBuffer(r) /\ Intact(r) /\ r.size = b.size
               /\ ReadableBytes(r) = 0 /\ Contents(r) = <<>>
<1>1. kPrepend \in Nat
  BY SizesAssumption
<1>2. IsBuffer(RetrieveAll(b))
  BY <1>1, SetIndicesOK DEF RetrieveAll
<1>3. /\ RetrieveAll(b).size = b.size
      /\ RetrieveAll(b).reader = kPrepend /\ RetrieveAll(b).writer = kPrepend
  BY DEF RetrieveAll, SetIndices
<1>4. Intact(RetrieveAll(b)) /\ ReadableBytes(RetrieveAll(b)) = 0
  BY <1>1, <1>3 DEF Intact, ReadableBytes, IsBuffer
<1>5. Contents(RetrieveAll(b)) = <<>>
  BY <1>2, <1>4, ContentsType
<1> QED
  BY <1>2, <1>3, <1>4, <1>5

\* What is retrieved and what stays are, one after the other, what was there.
LEMMA RetrieveOK ==
    ASSUME NEW b, IsBuffer(b), Intact(b), NEW n \in Nat, n <= ReadableBytes(b)
    PROVE  LET r == Retrieve(b, n)
           IN  /\ IsBuffer(r) /\ Intact(r) /\ r.size = b.size
               /\ Queue!Joins(SubSeq(Contents(b), 1, n), Contents(r), Contents(b))
<1> DEFINE k == ReadableBytes(b)
           r == Retrieve(b, n)
           d == SubSeq(Contents(b), 1, n)
<1>1. /\ k \in Nat /\ Contents(b) \in Seq(Byte) /\ Len(Contents(b)) = k
      /\ \A i \in 1..k : Contents(b)[i] = b.bytes[b.reader + i - 1]
  BY ContentsType
<1>2. Len(d) = n /\ \A i \in 1..n : d[i] = Contents(b)[i]
  BY <1>1
<1>3. CASE n < k
  <2>1. r = SetIndices(b, b.reader + n, b.writer)
    BY <1>3 DEF Retrieve
  <2>2. \A x, y \in Nat : IsBuffer(SetIndices(b, x, y))
    BY SetIndicesOK
  <2>3. /\ b.reader \in Nat /\ b.writer \in Nat /\ b.reader + n \in Nat
        /\ b.size \in Nat /\ k = b.writer - b.reader /\ b.writer <= b.size
    BY DEF IsBuffer, Intact, ReadableBytes
  <2>4. IsBuffer(r)
    BY <2>1, <2>2, <2>3
  <2>5. /\ r.size = b.size /\ r.bytes = b.bytes
        /\ r.reader = b.reader + n /\ r.writer = b.writer
    BY <2>1 DEF SetIndices
  <2> HIDE DEF r, d
  <2>6. Intact(r) /\ ReadableBytes(r) = k - n
    BY <1>1, <1>3, <2>3, <2>5 DEF Intact, ReadableBytes
  <2>7. /\ Len(Contents(r)) = k - n
        /\ \A i \in 1..(k - n) : Contents(r)[i] = r.bytes[r.reader + i - 1]
    BY <2>4, <2>6, ContentsType
  <2> HIDE DEF k
  <2>8. ASSUME NEW i \in 1..(k - n) PROVE Contents(b)[n + i] = Contents(r)[i]
    <3>0. k \in Nat /\ b.reader \in Nat
      BY <1>1, <2>3
    <3>1. n + i \in 1..k /\ b.reader + (n + i) - 1 = (b.reader + n) + i - 1
      BY <1>3, <3>0
    <3> QED
      BY <1>1, <2>5, <2>7, <3>1
  <2>9. Queue!Joins(d, Contents(r), Contents(b))
    <3>1. k - n \in Nat /\ k = n + (k - n)
      BY <1>1, <1>3
    <3> QED
      BY <1>1, <1>2, <2>7, <2>8, <3>1, JoinsFromParts
  <2> QED
    BY <2>4, <2>5, <2>6, <2>9 DEF r, d
<1>4. CASE n = k
  <2>1. r = RetrieveAll(b)
    BY <1>1, <1>4 DEF Retrieve
  <2>2. IsBuffer(r) /\ Intact(r) /\ r.size = b.size /\ Contents(r) = <<>>
    BY <2>1, RetrieveAllOK
  <2>3. Len(Contents(r)) = 0
    BY <2>2
  <2> HIDE DEF r, d
  <2>4. Queue!Joins(d, Contents(r), Contents(b))
    BY <1>1, <1>2, <1>4, <2>3, JoinsFromParts
  <2> QED
    BY <2>2, <2>4 DEF r, d
<1> QED
  BY <1>1, <1>3, <1>4

\* unwrite takes back no more than is readable, or breaks the buffer.
LEMMA UnwriteOK ==
    ASSUME NEW b, IsBuffer(b), Intact(b), b.size <= MaxSize, NEW n \in 0..MaxSize
    PROVE  LET u == SetIndices(b, b.reader, Minus(b.writer, n))
           IN  /\ IsBuffer(u) /\ u.size = b.size
               /\ n <= ReadableBytes(b) =>
                     Intact(u) /\ Queue!Begins(Contents(u), Contents(b))
               /\ n > ReadableBytes(b) => ~Intact(u)
<1> DEFINE u == SetIndices(b, b.reader, Minus(b.writer, n))
           w == Minus(b.writer, n)
<1>0. /\ b.reader \in Nat /\ b.writer \in Nat /\ b.size \in Nat /\ n \in Nat
      /\ b.reader <= b.writer /\ b.writer <= b.size /\ b.size <= MaxSize /\ n <= MaxSize
      /\ MaxSize \in Nat /\ SizeMax \in Nat /\ 2 * MaxSize < SizeMax
  BY SizesAssumption DEF IsBuffer, Intact
<1>1. /\ b.reader \in Nat /\ b.writer \in Nat /\ b.size \in Nat /\ w \in Nat
      /\ b.reader <= b.writer /\ b.writer <= b.size
      /\ n <= b.writer => w = b.writer - n
      /\ n > b.writer => w > b.size
  BY ONLY <1>0 DEF Minus
<1> HIDE DEF w
<1>2. IsBuffer(u)
  <2>1. \A x, y \in Nat : IsBuffer(SetIndices(b, x, y))
    BY SetIndicesOK
  <2> QED
    BY <1>1, <2>1 DEF w
<1>3. /\ u.size = b.size /\ u.bytes = b.bytes
      /\ u.reader = b.reader /\ u.writer = w
  BY DEF SetIndices, w
<1> HIDE DEF u
<1>4. ASSUME n <= ReadableBytes(b)
      PROVE  Intact(u) /\ Queue!Begins(Contents(u), Contents(b))
  <2>1. Intact(u) /\ ReadableBytes(u) \in Nat /\ ReadableBytes(u) <= ReadableBytes(b)
    BY <1>0, <1>1, <1>3, <1>4 DEF Intact, ReadableBytes
  <2>2. /\ Len(Contents(u)) = ReadableBytes(u)
        /\ \A i \in 1..ReadableBytes(u) : Contents(u)[i] = u.bytes[u.reader + i - 1]
    BY <1>2, <2>1, ContentsType
  <2>3. /\ ReadableBytes(b) \in Nat /\ Len(Contents(b)) = ReadableBytes(b)
        /\ \A i \in 1..ReadableBytes(b) : Contents(b)[i] = b.bytes[b.reader + i - 1]
    BY ContentsType
  <2>4. ASSUME NEW i \in 1..ReadableBytes(u) PROVE Contents(b)[i] = Contents(u)[i]
    <3>1. i \in 1..ReadableBytes(b)
      BY <2>1, <2>3
    <3> QED
      BY <1>3, <2>2, <2>3, <3>1
  <2> QED
    BY <2>1, <2>2, <2>3, <2>4 DEF Queue!Begins
<1>5. n > ReadableBytes(b) => ~Intact(u)
  BY <1>0, <1>1, <1>3 DEF Intact, ReadableBytes
<1> QED
  BY <1>2, <1>3, <1>4, <1>5 DEF u

\* shrink keeps the contents unless the indices do not fit the new size.
LEMMA ShrinkOK ==
    ASSUME NEW b, IsBuffer(b), Intact(b), NEW reserve \in Nat
    PROVE  LET s == Shrink(b, reserve)
           IN  /\ IsBuffer(s)
               /\ Intact(s) => Contents(s) = Contents(b)
               /\ ~Intact(s) => b.reader > reserve + kInitSize
<1> DEFINE k == ReadableBytes(b)
           n == k + reserve
           e == EnsureWritableBytes(b, n)
           s == Shrink(b, reserve)
<1>0. /\ kPrepend \in Nat /\ kInitSize \in Nat /\ kPrepend <= kInitSize
      /\ k \in Nat /\ n \in Nat /\ n + kInitSize \in Nat /\ b.reader \in Nat
  <2>1. /\ kPrepend \in Nat /\ kInitSize \in Nat /\ kPrepend <= kInitSize
        /\ b.reader \in Nat
    BY SizesAssumption DEF IsBuffer
  <2>2. k \in Nat
    BY ContentsType
  <2> HIDE DEF k
  <2> QED
    BY ONLY <2>1, <2>2, reserve \in Nat
<1>1. /\ IsBuffer(e) /\ Intact(e)
      /\ Contents(e) = Contents(b) /\ ReadableBytes(e) = k /\ e.reader <= b.reader
  BY <1>0, EnsureOK
<1>2. s = Resize(e, n + kInitSize)
  BY DEF Shrink
<1> HIDE DEF e, s
<1>3. kPrepend <= n + kInitSize
  BY <1>0
<1>4. IsBuffer(s) /\ s.size = n + kInitSize /\ s.reader = e.reader /\ s.writer = e.writer
  BY <1>0, <1>1, <1>2, <1>3, ResizeOK
<1>5. CASE e.writer <= n + kInitSize
  <2>1. Intact(s) /\ Contents(s) = Contents(e)
    BY <1>0, <1>1, <1>2, <1>3, <1>5, ResizeKeeps
  <2> QED
    BY <1>1, <1>4, <2>1 DEF s
<1>6. CASE ~(e.writer <= n + kInitSize)
  <2>1. e.reader \in Nat /\ e.writer \in Nat /\ e.writer = e.reader + k
    BY <1>0, <1>1 DEF IsBuffer, Intact, ReadableBytes
  <2>2. ~Intact(s)
    BY <1>4, <1>6 DEF Intact
  <2>3. b.reader > reserve + kInitSize
    BY <1>0, <1>1, <1>6, <2>1
  <2> QED
    BY <1>4, <2>2, <2>3 DEF s
<1> QED
  BY <1>5, <1>6

----------------------------------------------------------------------------
(* The theorems.                                                           *)

\* What any call does: the types, and between intact buffers the contents.
LEMMA CallsOK ==
    ASSUME TypeOK, Next
    PROVE  /\ TypeOK'
           /\ Intact(buf) /\ Intact(buf)' => Queue!Next
           /\ Intact(buf) /\ ~Intact(buf)' =>
                 \/ \E reserve \in Reserves :
                       CallShrink(reserve) /\ buf.reader > reserve + kInitSize
                 \/ \E n \in 0..MaxSize : CallUnwrite(n) /\ n > ReadableBytes(buf)
           /\ buf'.size > buf.size =>
                 \/ \E reserve \in Reserves : CallShrink(reserve)
                 \/ kPrepend + ReadableBytes(buf') > buf.size
<1> USE DEF TypeOK
<1>0. /\ buf.size \in Nat /\ kPrepend \in Nat
      /\ Intact(buf) => Contents(buf) \in Seq(Byte) /\ ReadableBytes(buf) \in Nat
  BY ContentsType, SizesAssumption DEF IsBuffer
<1> DEFINE Goal ==
        /\ TypeOK'
        /\ Intact(buf) /\ Intact(buf)' => Queue!Next
        /\ Intact(buf) /\ ~Intact(buf)' =>
              \/ \E reserve \in Reserves :
                    CallShrink(reserve) /\ buf.reader > reserve + kInitSize
              \/ \E n \in 0..MaxSize : CallUnwrite(n) /\ n > ReadableBytes(buf)
        /\ buf'.size > buf.size =>
              \/ \E reserve \in Reserves : CallShrink(reserve)
              \/ kPrepend + ReadableBytes(buf') > buf.size
<1>1. ASSUME NEW data \in Data, CallAppend(data) PROVE Goal
  <2>1. /\ data \in Seq(Byte) /\ Intact(buf) /\ buf' = AppendTo(buf, data) /\ io' = data
        /\ buf'.size <= MaxSize
    BY <1>1, SizesAssumption DEF CallAppend
  <2>2. /\ IsBuffer(buf') /\ Intact(buf')
        /\ Queue!Joins(Contents(buf), io', Contents(buf'))
        /\ buf'.size # buf.size => buf.size < kPrepend + ReadableBytes(buf')
    BY <2>1, AppendOK
  <2> QED
    BY <1>0, <2>1, <2>2 DEF Queue!Next, Queue!Put, IsBuffer
<1>w. ASSUME NEW data \in Data, CallHasWritten(data) PROVE Goal
  <2>1. /\ data \in Seq(Byte) /\ Intact(buf) /\ Len(data) <= WriteableBytes(buf)
        /\ buf' = Write(buf, data) /\ io' = data
    BY <1>w, SizesAssumption DEF CallHasWritten
  <2>2. /\ IsBuffer(buf') /\ Intact(buf') /\ buf'.size = buf.size
        /\ Queue!Joins(Contents(buf), io', Contents(buf'))
    BY <2>1, WriteOK
  <2> QED
    BY <1>0, <2>1, <2>2 DEF Queue!Next, Queue!Put
<1>2. ASSUME NEW data \in Data, CallPrepend(data) PROVE Goal
  <2>1. /\ data \in Seq(Byte) /\ Intact(buf) /\ Len(data) <= buf.reader
        /\ buf' = Prepend(buf, data) /\ io' = data
    BY <1>2, SizesAssumption DEF CallPrepend
  <2>2. /\ IsBuffer(buf') /\ Intact(buf') /\ buf'.size = buf.size
        /\ Queue!Joins(io', Contents(buf), Contents(buf'))
    BY <2>1, PrependOK
  <2> QED
    BY <1>0, <2>1, <2>2 DEF Queue!Next, Queue!PutInFront
<1>3. ASSUME NEW data \in Data, CallReadFd(data) PROVE Goal
  <2>1. /\ data \in Seq(Byte) /\ Intact(buf) /\ buf' = ReadFd(buf, data) /\ io' = data
        /\ buf'.size <= MaxSize
    BY <1>3, SizesAssumption DEF CallReadFd
  <2>2. /\ IsBuffer(buf') /\ Intact(buf')
        /\ Queue!Joins(Contents(buf), io', Contents(buf'))
        /\ buf'.size # buf.size => buf.size < kPrepend + ReadableBytes(buf')
    BY <2>1, ReadFdOK
  <2> QED
    BY <1>0, <2>1, <2>2 DEF Queue!Next, Queue!Put, IsBuffer
<1>4. ASSUME NEW n \in 0..MaxSize, CallRead(n) PROVE Goal
  <2>1. /\ n \in Nat /\ Intact(buf) /\ n <= ReadableBytes(buf)
        /\ io' = SubSeq(Contents(buf), 1, n) /\ buf' = Retrieve(buf, n)
    BY <1>4, SizesAssumption DEF CallRead
  <2>2. /\ IsBuffer(buf') /\ Intact(buf') /\ buf'.size = buf.size
        /\ Queue!Joins(io', Contents(buf'), Contents(buf))
    BY <2>1, RetrieveOK
  <2>3. Len(Contents(buf)) = ReadableBytes(buf)
    BY <2>1, ContentsType
  <2>4. io' \in Seq(Byte)
    BY <1>0, <2>1, <2>3
  <2> QED
    BY <1>0, <2>1, <2>2, <2>4 DEF Queue!Next, Queue!Take
<1>5. ASSUME NEW n \in 0..MaxSize, CallRetrieve(n) PROVE Goal
  <2>1. /\ n \in Nat /\ Intact(buf) /\ n <= ReadableBytes(buf)
        /\ io' = <<>> /\ buf' = Retrieve(buf, n)
    BY <1>5, SizesAssumption DEF CallRetrieve
  <2>2. /\ IsBuffer(buf') /\ Intact(buf') /\ buf'.size = buf.size
        /\ Queue!Joins(SubSeq(Contents(buf), 1, n), Contents(buf'), Contents(buf))
    BY <2>1, RetrieveOK
  <2>3. Queue!Ends(Contents(buf'), Contents(buf))
    BY <2>2 DEF Queue!Joins
  <2> QED
    BY <1>0, <2>1, <2>2, <2>3 DEF Queue!Next, Queue!Drop
<1>6. ASSUME NEW n \in 0..MaxSize, CallUnwrite(n) PROVE Goal
  <2>1. /\ n \in Nat /\ Intact(buf)
        /\ io' = <<>> /\ buf' = SetIndices(buf, buf.reader, Minus(buf.writer, n))
    BY <1>6, SizesAssumption DEF CallUnwrite
  <2>2. /\ IsBuffer(buf') /\ buf'.size = buf.size
        /\ n <= ReadableBytes(buf) =>
              Intact(buf') /\ Queue!Begins(Contents(buf'), Contents(buf))
        /\ n > ReadableBytes(buf) => ~Intact(buf')
    BY <2>1, UnwriteOK
  <2>3. CASE n <= ReadableBytes(buf)
    BY <1>0, <2>1, <2>2, <2>3 DEF Queue!Next, Queue!TakeBack
  <2>4. CASE n > ReadableBytes(buf)
    BY <1>0, <1>6, <2>1, <2>2, <2>4
  <2> QED
    BY <1>0, <2>1, <2>3, <2>4
<1>7. ASSUME CallRetrieveAll PROVE Goal
  <2>1. /\ IsBuffer(buf') /\ Intact(buf') /\ buf'.size = buf.size
        /\ Contents(buf') = <<>> /\ io' = <<>>
    BY <1>7, RetrieveAllOK DEF CallRetrieveAll
  <2>2. Queue!Ends(Contents(buf'), Contents(buf)) \/ ~Intact(buf)
    BY <1>0, <2>1 DEF Queue!Ends
  <2> QED
    BY <1>0, <2>1, <2>2 DEF Queue!Next, Queue!Drop
<1>8. ASSUME NEW reserve \in Reserves, CallShrink(reserve) PROVE Goal
  <2>1. /\ reserve \in Nat /\ Intact(buf) /\ buf' = Shrink(buf, reserve) /\ io' = <<>>
        /\ buf'.size <= MaxSize
    BY <1>8, SizesAssumption DEF CallShrink
  <2>2. /\ IsBuffer(buf')
        /\ Intact(buf') => Contents(buf') = Contents(buf)
        /\ ~Intact(buf') => buf.reader > reserve + kInitSize
    BY <2>1, ShrinkOK
  <2>3. Intact(buf') => Queue!Drop
    BY <1>0, <2>1, <2>2 DEF Queue!Drop, Queue!Ends
  <2> QED
    BY <1>8, <2>1, <2>2, <2>3 DEF Queue!Next
<1> QED
  BY <1>1, <1>w, <1>2, <1>3, <1>4, <1>5, <1>6, <1>7, <1>8 DEF Next

\* A new buffer is an empty queue.
LEMMA InitOK == Init => TypeOK /\ Queue!Init
<1> SUFFICES ASSUME Init PROVE TypeOK /\ Queue!Init
  OBVIOUS
<1>1. /\ kPrepend \in Nat /\ kInitSize \in Nat /\ Zero \in Byte
      /\ kPrepend + kInitSize <= MaxSize
  BY SizesAssumption
<1>2. TypeOK
  BY <1>1 DEF Init, TypeOK, IsBuffer
<1>3. Intact(buf) /\ ReadableBytes(buf) = 0
  BY <1>1 DEF Init, Intact, ReadableBytes
<1>4. Contents(buf) = <<>>
  BY <1>2, <1>3, ContentsType DEF TypeOK
<1> QED
  BY <1>2, <1>4 DEF Queue!Init, Init

\* The vector, its indices and its size keep their types, and it never becomes
\* smaller than the room for headers (Buffer.h:279-281).
THEOREM TypeCorrect == Spec => []TypeOK
<1>1. TypeOK /\ [Next]_vars => TypeOK'
  <2>1. TypeOK /\ Next => TypeOK'
    BY CallsOK
  <2>2. TypeOK /\ UNCHANGED vars => TypeOK'
    BY DEF TypeOK, IsBuffer, vars
  <2> QED
    BY <2>1, <2>2
<1> QED
  BY InitOK, <1>1, PTL DEF Spec

\* The refinement: between intact buffers each call is a step of ByteQueue.
THEOREM BytesKept == Spec => ImplementsQueue
<1>1. TypeOK /\ [Next]_vars => [~Intact(buf) \/ ~Intact(buf)' \/ Queue!Next]_vars
  BY CallsOK
<1> QED
  BY InitOK, TypeCorrect, <1>1, PTL DEF Spec, ImplementsQueue

\* Only shrink after a long read, and unwrite of too much, leave the vector.
THEOREM IndicesSafe == Spec => LeavesOnlyBy
<1>1. TypeOK /\ [Next]_vars =>
        [Intact(buf) /\ ~Intact(buf)' =>
          \/ \E reserve \in Reserves :
                CallShrink(reserve) /\ buf.reader > reserve + kInitSize
          \/ \E n \in 0..MaxSize : CallUnwrite(n) /\ n > ReadableBytes(buf)]_vars
  BY CallsOK
<1> QED
  BY TypeCorrect, <1>1, PTL DEF Spec, LeavesOnlyBy

\* The room in front is reclaimed before the vector grows.
THEOREM RoomReclaimed == Spec => GrowsOnlyWhenFull
<1>1. TypeOK /\ [Next]_vars =>
        [buf'.size > buf.size /\ ~(\E reserve \in Reserves : CallShrink(reserve))
            => kPrepend + ReadableBytes(buf') > buf.size]_vars
  BY CallsOK
<1> QED
  BY TypeCorrect, <1>1, PTL DEF Spec, GrowsOnlyWhenFull
=============================================================================
