------------------------ MODULE TcpConnectionProofs ------------------------
(***************************************************************************)
(* What holds of a TcpConnection for any send buffer, any sizes of buffers *)
(* and files, any number of calls and functors.  The member functions are  *)
(* taken one by one: each keeps ConnOK, what a connection record is, and   *)
(* Intact, the accounting of its bytes; an action then is one of them with *)
(* what it hands over.                                                     *)
(***************************************************************************)
EXTENDS TcpConnection, SequenceTheorems, TLAPS

\* The type, and what the fields of a connection never contradict.
ConnOK(c) ==
    /\ c \in ConnType
    /\ Len(c.sndbuf) <= SndBuf
    /\ c.sendLen <= Len(c.file)
    /\ c.sendLen > 0 => c.sendFile
    /\ c.state \in {"kConnecting", "kDisconnected"} => ~c.isReading /\ ~c.isWriting

\* The connections of which StreamIntact speaks.
Up(c) == c.state # "kDisconnected" /\ ~c.broken /\ ~c.strained

\* The file to send, as long as none of it has been sent.
Unsent(c) == IF c.sendLen > 0 THEN c.file ELSE <<>>

\* All bytes the connection has been given, in the order the peer sees them.
Carried(c, got) == got \o c.sndbuf \o c.outputBuffer \o Unsent(c)

\* Either the whole file is still to be sent or nothing of it.
WholeFile(c) == c.sendLen > 0 => c.offset = 0 /\ c.sendLen = Len(c.file)

\* The accounting of a connection that is up: its peer has read got, and given
\* has been handed over.  That EPOLLOUT is watched exactly when bytes wait is
\* part of it: sendInLoop writes directly when it is not.
Intact(c, got, given) ==
    Up(c) =>
        /\ Carried(c, got) = given
        /\ WholeFile(c)
        /\ c.sendLen > 0 => c.outputBuffer = <<>>
        /\ c.isWriting <=> c.outputBuffer # <<>> \/ c.sendLen > 0
        /\ c.fin => c.state = "kDisconnecting" /\ ~c.isWriting

-----------------------------------------------------------------------------
\* What the fields of a connection are.
LEMMA Fields ==
    ASSUME NEW c \in ConnType
    PROVE  /\ c.state \in States
           /\ c.reading \in BOOLEAN /\ c.isReading \in BOOLEAN /\ c.isWriting \in BOOLEAN
           /\ c.outputBuffer \in Bytes /\ c.file \in Bytes /\ c.sndbuf \in Bytes
           /\ c.sendFile \in BOOLEAN /\ c.offset \in Nat /\ c.sendLen \in Nat
           /\ c.fin \in BOOLEAN /\ c.broken \in BOOLEAN
           /\ c.aborted \in BOOLEAN /\ c.strained \in BOOLEAN
           /\ c.tasks \in Seq({"writeComplete", "forceClose"})
BY DEF ConnType

\* A buffer cut in two is its two parts.
LEMMA FirstRest ==
    ASSUME NEW s \in Bytes, NEW n \in 0..Len(s)
    PROVE  /\ First(s, n) \in Bytes /\ Len(First(s, n)) = n
           /\ Rest(s, n) \in Bytes /\ Len(Rest(s, n)) = Len(s) - n
           /\ First(s, n) \o Rest(s, n) = s
           /\ n = 0 => First(s, n) = <<>> /\ Rest(s, n) = s
           /\ n = Len(s) => First(s, n) = s /\ Rest(s, n) = <<>>
<1>1. /\ First(s, n) \in Bytes /\ Len(First(s, n)) = n
      /\ Rest(s, n) \in Bytes /\ Len(Rest(s, n)) = Len(s) - n
  BY DEF First, Rest, Bytes
<1>2. First(s, n) \o Rest(s, n) = s
  <2>1. /\ s \in Seq(Nat) /\ 1 \in 1..(Len(s) + 1) /\ n \in (1 - 1)..Len(s)
        /\ Len(s) \in n..Len(s)
    BY DEF Bytes
  <2>2. SubSeq(s, 1, n) \o SubSeq(s, n + 1, Len(s)) = SubSeq(s, 1, Len(s))
    BY ONLY <2>1, ConcatAdjacentSubSeq
  <2> QED
    BY <2>2, SubSeqFull DEF First, Rest, Bytes
<1>3. n = 0 => First(s, n) = <<>> /\ Rest(s, n) = s
  BY SubSeqFull, SubSeqEmpty DEF First, Rest, Bytes
<1>4. n = Len(s) => First(s, n) = s /\ Rest(s, n) = <<>>
  BY SubSeqFull, SubSeqEmpty DEF First, Rest, Bytes
<1> QED
  BY <1>1, <1>2, <1>3, <1>4

\* write takes no more than it is given and than fits.
LEMMA AcceptedOK ==
    ASSUME NEW c, ConnOK(c), NEW size \in Nat
    PROVE  /\ Accepted(c, size) \in 0..size
           /\ Len(c.sndbuf) + Accepted(c, size) <= SndBuf
           /\ Fails(c) => Accepted(c, size) = 0
<1>1. Len(c.sndbuf) \in Nat /\ Len(c.sndbuf) <= SndBuf /\ SndBuf \in Nat
  BY Fields, SndBufAssumption DEF ConnOK, Bytes
<1>2. CASE Fails(c)
  BY <1>1, <1>2 DEF Accepted
<1>3. CASE ~Fails(c)
  <2> DEFINE room == SndBuf - Len(c.sndbuf)
             a == Least(size, room)
  <2>1. room \in Nat /\ Len(c.sndbuf) + room = SndBuf
    BY <1>1
  <2>2. Accepted(c, size) = a
    BY <1>3 DEF Accepted
  <2> HIDE DEF room
  <2>3. a \in 0..size /\ a <= room
    BY <2>1 DEF Least
  <2> HIDE DEF a
  <2>4. a \in 0..size /\ Len(c.sndbuf) + a <= SndBuf
    BY <1>1, <2>1, <2>3
  <2> QED
    BY <1>3, <2>2, <2>4
<1> QED
  BY <1>2, <1>3

\* sendfile takes no more than is left, of the file and of the room.
LEMMA FileAcceptedOK ==
    ASSUME NEW c, ConnOK(c)
    PROVE  /\ FileAccepted(c) \in 0..c.sendLen
           /\ c.offset + FileAccepted(c) <= Len(c.file) \/ FileAccepted(c) = 0
           /\ Len(c.sndbuf) + FileAccepted(c) <= SndBuf
           /\ Fails(c) => FileAccepted(c) = 0
<1>1. /\ c.offset \in Nat /\ c.sendLen \in Nat /\ Len(c.file) \in Nat
      /\ Len(c.sndbuf) <= SndBuf
  BY Fields DEF ConnOK, Bytes
<1>2. CASE c.offset >= Len(c.file)
  BY <1>1, <1>2 DEF FileAccepted
<1>3. CASE c.offset < Len(c.file)
  <2> DEFINE m == Least(c.sendLen, Len(c.file) - c.offset)
  <2>1. m \in Nat /\ m <= c.sendLen /\ c.offset + m <= Len(c.file)
    BY <1>1, <1>3 DEF Least
  <2>2. FileAccepted(c) = Accepted(c, m)
    BY <1>1, <1>3 DEF FileAccepted
  <2> HIDE DEF m
  <2>3. /\ Accepted(c, m) \in 0..m /\ Len(c.sndbuf) + Accepted(c, m) <= SndBuf
        /\ Fails(c) => Accepted(c, m) = 0
    BY <2>1, AcceptedOK
  <2> QED
    BY <1>1, <2>1, <2>2, <2>3
<1> QED
  BY <1>1, <1>2, <1>3

\* What the connection carries does not depend on where the parts meet.
LEMMA ConcatBytes ==
    ASSUME NEW a \in Bytes, NEW b \in Bytes
    PROVE  /\ a \o b \in Bytes /\ Len(a \o b) = Len(a) + Len(b)
           /\ a \o <<>> = a /\ <<>> \o a = a
           /\ <<>> \in Bytes /\ Len(<<>>) = 0
BY ConcatProperties, ConcatEmptySeq, EmptySeq DEF Bytes

\* Nor does what comes first matter to how the parts are put together.
LEMMA Assoc ==
    ASSUME NEW a \in Bytes, NEW b \in Bytes, NEW x \in Bytes
    PROVE  (a \o b) \o x = a \o (b \o x)
<1>1. a \in Seq(Nat) /\ b \in Seq(Nat) /\ x \in Seq(Nat)
  BY DEF Bytes
<1> QED
  BY ONLY SMTT(20), <1>1, ConcatAssociative

-----------------------------------------------------------------------------
\* Queueing a functor changes the queue alone.
LEMMA QueueOK ==
    ASSUME NEW c \in ConnType, NEW task \in {"writeComplete", "forceClose"}
    PROVE  /\ Queue(c, task) \in ConnType
           /\ Queue(c, task) = [c EXCEPT !.tasks = Append(c.tasks, task)]
<1>1. Append(c.tasks, task) \in Seq({"writeComplete", "forceClose"})
  BY Fields
<1> QED
  BY <1>1 DEF ConnType, Queue

\* Connections that differ in their functors only.
Alike(c, d) ==
    /\ d \in ConnType
    /\ d.state = c.state /\ d.isReading = c.isReading /\ d.isWriting = c.isWriting
    /\ d.outputBuffer = c.outputBuffer /\ d.sndbuf = c.sndbuf
    /\ d.sendFile = c.sendFile /\ d.file = c.file
    /\ d.offset = c.offset /\ d.sendLen = c.sendLen
    /\ d.fin = c.fin /\ d.broken = c.broken /\ d.strained = c.strained

\* So does queueing writeCompleteCallback_, set or not.
LEMMA QueueWriteCompleteOK ==
    ASSUME NEW c \in ConnType
    PROVE  Alike(c, QueueWriteComplete(c))
<1>1. CASE WriteCompleteCallback
  <2>1. QueueWriteComplete(c) = [c EXCEPT !.tasks = Append(c.tasks, "writeComplete")]
        /\ QueueWriteComplete(c) \in ConnType
    BY <1>1, QueueOK DEF QueueWriteComplete
  <2> QED
    BY <2>1 DEF Alike, ConnType
<1>2. CASE ~WriteCompleteCallback
  BY <1>2 DEF QueueWriteComplete, Alike
<1> QED
  BY <1>1, <1>2

\* The functors are of no concern to the bytes.
LEMMA AlikeOK ==
    ASSUME NEW c, NEW d, Alike(c, d), ConnOK(c)
    PROVE  /\ ConnOK(d)
           /\ \A got, given : Intact(c, got, given) => Intact(d, got, given)
BY DEF Alike, ConnOK, Intact, Up, Carried, Unsent, WholeFile

\* One sendfile of a file that has not been started sends all of it or nothing,
\* or else the connection counts as strained from now on.
LEMMA SentFileOK ==
    ASSUME NEW c, ConnOK(c)
    PROVE  LET r == SentFile(c)
               n == FileAccepted(c)
           IN  /\ ConnOK(r)
               /\ r.sndbuf = c.sndbuf \o SubSeq(c.file, c.offset + 1, c.offset + n)
               /\ r.sendLen = c.sendLen - n /\ r.offset = c.offset + n + n
               /\ r.strained <=> c.strained \/ (0 < n /\ n < c.sendLen)
               /\ r.state = c.state /\ r.isReading = c.isReading /\ r.isWriting = c.isWriting
               /\ r.outputBuffer = c.outputBuffer /\ r.sendFile = c.sendFile
               /\ r.file = c.file /\ r.fin = c.fin /\ r.broken = c.broken
               /\ r.tasks = c.tasks /\ r.aborted = c.aborted
<1> DEFINE r == SentFile(c)
           n == FileAccepted(c)
           s == SubSeq(c.file, c.offset + 1, c.offset + n)
           b == c.sndbuf \o s
           o == c.offset + n + n
           l == c.sendLen - n
           t == c.strained \/ (0 < n /\ n < c.sendLen)
<1>1. /\ c \in ConnType /\ c.offset \in Nat /\ c.sendLen \in Nat /\ c.file \in Bytes
      /\ c.sndbuf \in Bytes /\ c.strained \in BOOLEAN
  BY Fields DEF ConnOK
<1>2. n \in 0..c.sendLen /\ Len(c.sndbuf) + n <= SndBuf /\ (c.offset + n <= Len(c.file) \/ n = 0)
  BY FileAcceptedOK
<1>3. r = [c EXCEPT !.strained = t, !.sndbuf = b, !.offset = o, !.sendLen = l]
  BY <1>1 DEF SentFile, Strain, ConnType
<1> HIDE DEF n, r
<1>4. s \in Bytes /\ Len(s) = n
  <2>1. Len(c.file) \in Nat /\ \A i \in 1..Len(c.file) : c.file[i] \in Nat
    BY <1>1 DEF Bytes
  <2>2. /\ c.offset + 1 \in Int /\ c.offset + n \in Int
        /\ (c.offset + n) - (c.offset + 1) + 1 = n
        /\ c.offset + 1 <= c.offset + n <=> n # 0
    BY <1>1, <1>2
  <2>3. \A i \in (c.offset + 1)..(c.offset + n) : i \in 1..Len(c.file)
    BY <1>1, <1>2, <2>1
  <2>4. \A i \in (c.offset + 1)..(c.offset + n) : c.file[i] \in Nat
    BY <2>1, <2>3
  <2>5. /\ s \in Seq(Nat)
        /\ Len(s) = IF c.offset + 1 <= c.offset + n
                    THEN (c.offset + n) - (c.offset + 1) + 1 ELSE 0
    BY <2>2, <2>4, SubSeqProperties
  <2> QED
    BY <1>2, <2>2, <2>5 DEF Bytes
<1> HIDE DEF s
<1>5. b \in Bytes /\ Len(b) = Len(c.sndbuf) + n
  BY <1>1, <1>4, ConcatBytes
<1>6. o \in Nat /\ l \in Nat /\ l <= c.sendLen /\ t \in BOOLEAN
  BY <1>1, <1>2
<1> HIDE DEF b, o, l, t
<1>7. r \in ConnType
  BY <1>1, <1>3, <1>5, <1>6 DEF ConnType
<1>8. /\ r.sndbuf = b /\ r.sendLen = l /\ r.offset = o /\ r.strained = t
      /\ r.state = c.state /\ r.isReading = c.isReading /\ r.isWriting = c.isWriting
      /\ r.outputBuffer = c.outputBuffer /\ r.sendFile = c.sendFile
      /\ r.file = c.file /\ r.fin = c.fin /\ r.broken = c.broken
      /\ r.tasks = c.tasks /\ r.aborted = c.aborted
  BY <1>1, <1>3 DEF ConnType
<1>9. ConnOK(r)
  <2>1. Len(b) <= SndBuf
    BY <1>2, <1>5
  <2>2. l <= Len(c.file) /\ (l > 0 => c.sendFile)
    BY <1>1, <1>6 DEF ConnOK, Bytes
  <2> QED
    BY <1>7, <1>8, <2>1, <2>2 DEF ConnOK
<1>10. r.strained <=> t
  BY <1>8
<1> QED
  BY <1>8, <1>9, <1>10 DEF r, n, s, b, o, l, t

\* One sendfile moves bytes of the file to the kernel, and nothing else.
LEMMA SentFileIntact ==
    ASSUME NEW c, ConnOK(c), WholeFile(c), c.outputBuffer = <<>>, NEW got \in Bytes,
           ~SentFile(c).strained
    PROVE  LET r == SentFile(c)
           IN  /\ Carried(r, got) = Carried(c, got)
               /\ WholeFile(r)
<1> DEFINE r == SentFile(c)
           n == FileAccepted(c)
           s == SubSeq(c.file, c.offset + 1, c.offset + n)
<1>1. /\ c.offset \in Nat /\ c.sendLen \in Nat /\ c.file \in Bytes /\ c.sndbuf \in Bytes
      /\ Len(c.file) \in Nat
  BY Fields DEF ConnOK, Bytes
<1>2. n \in 0..c.sendLen
  BY FileAcceptedOK
<1>3. /\ r.sndbuf = c.sndbuf \o s /\ r.outputBuffer = <<>> /\ r.file = c.file
      /\ r.sendLen = c.sendLen - n /\ r.offset = c.offset + n + n
      /\ r.strained <=> c.strained \/ (0 < n /\ n < c.sendLen)
  BY SentFileOK
<1>4. n = 0 \/ n = c.sendLen
  <2>1. ~(0 < n /\ n < c.sendLen)
    BY <1>3
  <2> QED
    BY <1>1, <1>2, <2>1
<1> HIDE DEF r, n
<1>5. CASE n = 0
  <2>1. s = <<>>
    BY <1>1, <1>5, SubSeqEmpty
  <2> HIDE DEF s
  <2>2. r.sndbuf = c.sndbuf
    BY <1>1, <1>3, <2>1, ConcatBytes
  <2>3. r.sendLen = c.sendLen /\ r.offset = c.offset
    BY <1>1, <1>3, <1>5
  <2> QED
    BY <1>3, <2>2, <2>3 DEF Carried, Unsent, WholeFile, r
<1>6. CASE n = c.sendLen /\ n > 0
  <2>1. c.offset = 0 /\ n = Len(c.file) /\ Unsent(c) = c.file
    BY <1>1, <1>6 DEF WholeFile, Unsent
  <2>2. s = c.file
    <3>1. s = SubSeq(c.file, 1, Len(c.file))
      BY <1>1, <2>1
    <3> QED
      BY <1>1, <3>1, SubSeqFull DEF Bytes
  <2> HIDE DEF s
  <2>3. r.sendLen = 0 /\ r.sndbuf = c.sndbuf \o c.file
    <3>1. r.sendLen = 0
      BY <1>1, <1>3, <1>6
    <3> QED
      BY <1>3, <2>2, <3>1
  <2>4. Carried(r, got) = got \o (c.sndbuf \o c.file) \o <<>> \o <<>>
    <3>1. Unsent(r) = <<>>
      BY <2>3 DEF Unsent
    <3> QED
      BY <1>3, <2>3, <3>1 DEF Carried
  <2>5. Carried(c, got) = got \o c.sndbuf \o <<>> \o c.file
    BY <2>1 DEF Carried
  <2>6. got \o (c.sndbuf \o c.file) \o <<>> \o <<>> = got \o (c.sndbuf \o c.file)
    <3>1. c.sndbuf \o c.file \in Bytes
      BY <1>1, ConcatBytes
    <3>2. got \o (c.sndbuf \o c.file) \in Bytes
      BY <3>1, ConcatBytes
    <3> QED
      BY <3>2, ConcatBytes
  <2>7. got \o c.sndbuf \o <<>> \o c.file = got \o (c.sndbuf \o c.file)
    <3>1. got \o c.sndbuf \in Bytes
      BY <1>1, ConcatBytes
    <3>2. got \o c.sndbuf \o <<>> = got \o c.sndbuf
      BY <3>1, ConcatBytes
    <3>3. (got \o c.sndbuf) \o c.file = got \o (c.sndbuf \o c.file)
      BY <1>1, Assoc
    <3> QED
      BY <3>2, <3>3
  <2>8. Carried(r, got) = Carried(c, got)
    BY <2>4, <2>5, <2>6, <2>7
  <2>9. WholeFile(r)
    BY <2>3 DEF WholeFile
  <2> QED
    BY <2>8, <2>9 DEF r
<1> QED
  BY <1>1, <1>2, <1>4, <1>5, <1>6

\* Giving up a file that is sent loses nothing.
LEMMA SendFileResetOK ==
    ASSUME NEW c, ConnOK(c)
    PROVE  LET r == SendFileReset(c)
           IN  /\ ConnOK(r)
               /\ r.sendLen = 0
               /\ r.strained <=> c.strained \/ c.sendLen > 0
               /\ r.state = c.state /\ r.isWriting = c.isWriting /\ r.isReading = c.isReading
               /\ r.outputBuffer = c.outputBuffer /\ r.sndbuf = c.sndbuf
               /\ r.fin = c.fin /\ r.broken = c.broken
               /\ r.tasks = c.tasks /\ r.aborted = c.aborted
               /\ \A got : ~r.strained => Carried(r, got) = Carried(c, got)
               /\ \A got, given : Intact(c, got, given) => Intact(r, got, given)
<1> DEFINE r == SendFileReset(c)
           t == c.strained \/ c.sendLen > 0
<1>1. c \in ConnType /\ c.sendLen \in Nat /\ t \in BOOLEAN /\ <<>> \in Bytes /\ Len(<<>>) = 0
  BY Fields, ConcatBytes, EmptySeq DEF ConnOK, Bytes
<1>2. r = [c EXCEPT !.strained = t, !.sendFile = FALSE, !.file = <<>>, !.offset = 0,
                    !.sendLen = 0]
  BY <1>1 DEF SendFileReset, Strain, ConnType
<1> HIDE DEF r
<1>3. /\ r.strained = t /\ r.file = <<>> /\ r.offset = 0 /\ r.sendLen = 0
      /\ r.state = c.state /\ r.isWriting = c.isWriting /\ r.isReading = c.isReading
      /\ r.outputBuffer = c.outputBuffer /\ r.sndbuf = c.sndbuf
      /\ r.fin = c.fin /\ r.broken = c.broken
      /\ r.tasks = c.tasks /\ r.aborted = c.aborted
  BY <1>1, <1>2 DEF ConnType
<1> HIDE DEF t
<1>4. r \in ConnType
  BY <1>1, <1>2 DEF ConnType
<1>5. ConnOK(r)
  BY <1>1, <1>3, <1>4 DEF ConnOK
<1>t. r.strained <=> t
  BY <1>3
<1>6. ~r.strained => c.sendLen = 0 /\ ~c.strained
  BY <1>1, <1>t DEF t
<1>7. \A got : ~r.strained => Carried(r, got) = Carried(c, got)
  <2>1. ~r.strained => Unsent(r) = Unsent(c)
    BY <1>1, <1>3, <1>6 DEF Unsent
  <2> QED
    BY <1>3, <2>1 DEF Carried
<1>8. \A got, given : Intact(c, got, given) => Intact(r, got, given)
  BY <1>1, <1>3, <1>6, <1>7 DEF Intact, Up, WholeFile
<1> QED
  BY <1>3, <1>5, <1>7, <1>8, <1>t DEF r, t

\* The file that follows a buffer goes out, or waits for EPOLLOUT.
LEMMA SendFileInLoopOK ==
    ASSUME NEW c, ConnOK(c), c.state \notin {"kConnecting", "kDisconnected"},
           c.outputBuffer = <<>>, ~c.isWriting,
           NEW got \in Bytes, NEW given,
           Up(c) => /\ Carried(c, got) = given
                    /\ WholeFile(c)
                    /\ c.fin => c.state = "kDisconnecting" /\ c.sendLen = 0
    PROVE  LET r == SendFileInLoop(c)
           IN  /\ ConnOK(r) /\ Intact(r, got, given)
               /\ Fails(c) => r.sndbuf = c.sndbuf
               /\ r.state = c.state /\ r.fin = c.fin /\ r.broken = c.broken
               /\ r.outputBuffer = <<>> /\ r.aborted = c.aborted
               /\ c.strained => r.strained
               /\ r.tasks # c.tasks => r.sendLen = 0
               /\ c.sendLen = 0 => r.sendLen = 0
<1> DEFINE r == SendFileInLoop(c)
           s == SentFile(c)
<1>1. /\ c \in ConnType /\ c.sendLen \in Nat /\ c.fin \in BOOLEAN /\ c.broken \in BOOLEAN
      /\ c.strained \in BOOLEAN
  BY Fields DEF ConnOK
<1>2. CASE Fails(c) /\ c.offset < Len(c.file)
  <2>1. r = c
    BY <1>2 DEF SendFileInLoop
  <2>2. Intact(c, got, given)
    BY <1>1, <1>2 DEF Intact, Up, Fails
  <2> QED
    BY <2>1, <2>2
<1>3. CASE ~(Fails(c) /\ c.offset < Len(c.file))
  <2>1. /\ ConnOK(s) /\ s \in ConnType /\ s.sendLen \in Nat
        /\ s.sendLen <= c.sendLen
        /\ c.strained => s.strained
        /\ s.state = c.state /\ s.isWriting = c.isWriting
        /\ s.outputBuffer = <<>> /\ s.fin = c.fin /\ s.broken = c.broken
        /\ s.tasks = c.tasks /\ s.aborted = c.aborted
    <3>1. FileAccepted(c) \in 0..c.sendLen
      BY FileAcceptedOK
    <3> QED
      BY <1>1, <3>1, SentFileOK, Fields DEF ConnOK
  <2>f. Fails(c) => s.sndbuf = c.sndbuf
    <3> SUFFICES ASSUME Fails(c) PROVE s.sndbuf = c.sndbuf
      OBVIOUS
    <3>1. /\ c.offset \in Nat /\ c.file \in Bytes /\ c.sndbuf \in Bytes
          /\ FileAccepted(c) = 0
      BY <1>1, FileAcceptedOK, Fields
    <3>2. s.sndbuf = c.sndbuf \o SubSeq(c.file, c.offset + 1, c.offset + 0)
      BY <3>1, SentFileOK
    <3>3. SubSeq(c.file, c.offset + 1, c.offset + 0) = <<>>
      BY <3>1, SubSeqEmpty DEF Bytes
    <3> QED
      BY <3>1, <3>2, <3>3, ConcatBytes
  <2>2. Up(s) => Carried(s, got) = given /\ WholeFile(s)
    BY <2>1, SentFileIntact DEF Up
  <2>3. Up(s) /\ s.fin => s.state = "kDisconnecting" /\ c.sendLen = 0
    BY <1>1, <2>1 DEF Up
  <2> HIDE DEF s
  <2>4. CASE s.sendLen > 0
    <3>1. r = [s EXCEPT !.isWriting = TRUE]
      BY <1>3, <2>4 DEF SendFileInLoop, s
    <3> HIDE DEF r
    <3>2. /\ r \in ConnType /\ r.isWriting = TRUE /\ r.state = s.state
          /\ r.isReading = s.isReading /\ r.outputBuffer = s.outputBuffer
          /\ r.sndbuf = s.sndbuf /\ r.file = s.file /\ r.offset = s.offset
          /\ r.sendFile = s.sendFile /\ r.sendLen = s.sendLen /\ r.fin = s.fin
          /\ r.broken = s.broken /\ r.strained = s.strained /\ r.tasks = s.tasks
          /\ r.aborted = s.aborted
      BY <2>1, <3>1 DEF ConnType
    <3>3. ConnOK(r)
      BY <2>1, <3>2 DEF ConnOK
    <3>f. Up(s) => ~s.fin
      BY <1>1, <2>1, <2>3, <2>4
    <3>4. Intact(r, got, given)
      BY <2>1, <2>2, <3>f, <2>4, <3>2 DEF Intact, Up, Carried, Unsent, WholeFile
    <3> QED
      BY <1>1, <2>1, <2>f, <2>4, <3>2, <3>3, <3>4 DEF r
  <2>5. CASE s.sendLen = 0
    <3>1. Intact(s, got, given)
      BY <2>1, <2>2, <2>3, <2>5 DEF Intact, Up
    <3>2. CASE WriteCompleteCallback
      <4> DEFINE t == SendFileReset(s)
      <4>1. r = QueueWriteComplete(t)
        BY <1>3, <2>5, <3>2 DEF SendFileInLoop, s
      <4>2. /\ ConnOK(t) /\ t \in ConnType /\ Intact(t, got, given) /\ t.sendLen = 0
            /\ s.strained => t.strained
            /\ t.state = s.state /\ t.outputBuffer = s.outputBuffer /\ t.fin = s.fin
            /\ t.broken = s.broken /\ t.aborted = s.aborted /\ t.sndbuf = s.sndbuf
        BY <2>1, <3>1, SendFileResetOK DEF ConnOK
      <4> HIDE DEF t, r
      <4>3. Alike(t, r)
        BY <4>1, <4>2, QueueWriteCompleteOK
      <4>4. ConnOK(r) /\ Intact(r, got, given)
        BY <4>2, <4>3, AlikeOK
      <4>5. r.aborted = t.aborted
        BY <4>1, <4>2 DEF QueueWriteComplete, Queue, ConnType
      <4> QED
        BY <2>1, <2>f, <4>2, <4>3, <4>4, <4>5 DEF Alike, r
    <3>3. CASE ~WriteCompleteCallback
      <4>1. r = s
        BY <1>3, <2>5, <3>3 DEF SendFileInLoop, s
      <4> QED
        BY <2>1, <2>f, <2>5, <3>1, <4>1
    <3> QED
      BY <3>2, <3>3
  <2> QED
    BY <2>1, <2>4, <2>5
<1> QED
  BY <1>2, <1>3

-----------------------------------------------------------------------------
(* sendInLoop.                                                             *)

\* Its outcome r for data, on a connection c that has carried what is before.
SendOutcome(c, data, r, got, before) ==
    /\ ConnOK(r)
    /\ r.state = c.state /\ r.fin = c.fin /\ r.broken = c.broken /\ r.aborted = c.aborted
    /\ c.strained => r.strained
    /\ Fails(c) \/ c.state = "kDisconnected" => r.sndbuf = c.sndbuf
    /\ Intact(r, got, IF c.fin THEN before ELSE before \o data \o Unsent(c))
    /\ r.tasks # c.tasks => r.strained \/ (r.outputBuffer = <<>> /\ r.sendLen = 0)
    /\ c.isWriting /\ c.sendLen > 0 => r.strained

\* What is put into the output buffer comes after all that is there.
LEMMA BufferedOK ==
    ASSUME NEW c, ConnOK(c), c.state \notin {"kConnecting", "kDisconnected"},
           NEW rest \in Bytes, rest # <<>>, NEW got \in Bytes,
           Up(c) => WholeFile(c) /\ ~c.fin
    PROVE  LET r == Buffered(c, rest)
           IN  /\ ConnOK(r)
               /\ r.state = c.state /\ r.fin = c.fin /\ r.broken = c.broken
               /\ r.sndbuf = c.sndbuf /\ r.tasks = c.tasks /\ r.aborted = c.aborted
               /\ r.strained <=> c.strained \/ c.sendLen > 0
               /\ Intact(r, got, got \o c.sndbuf \o (c.outputBuffer \o rest))
<1> DEFINE r == Buffered(c, rest)
           b == c.outputBuffer \o rest
           t == c.strained \/ c.sendLen > 0
<1>1. /\ c \in ConnType /\ c.outputBuffer \in Bytes /\ c.sndbuf \in Bytes
      /\ c.sendLen \in Nat /\ t \in BOOLEAN
  BY Fields DEF ConnOK
<1>2. b \in Bytes /\ b # <<>>
  <2>1. b \in Bytes
    BY <1>1, ConcatBytes
  <2>2. b = <<>> => rest = <<>>
    BY <1>1, ConcatEqualIffEmpty DEF Bytes
  <2> QED
    BY <2>1, <2>2
<1>3. r = [c EXCEPT !.strained = t, !.outputBuffer = b, !.isWriting = TRUE]
  BY <1>1 DEF Buffered, Strain, ConnType
<1> HIDE DEF r, b
<1>4. /\ r.strained = t /\ r.outputBuffer = b /\ r.isWriting = TRUE
      /\ r.state = c.state /\ r.isReading = c.isReading
      /\ r.sndbuf = c.sndbuf /\ r.file = c.file /\ r.offset = c.offset
      /\ r.sendFile = c.sendFile /\ r.sendLen = c.sendLen
      /\ r.fin = c.fin /\ r.broken = c.broken /\ r.tasks = c.tasks
      /\ r.aborted = c.aborted
  BY <1>1, <1>3 DEF ConnType
<1> HIDE DEF t
<1>5. r \in ConnType
  BY <1>1, <1>2, <1>3 DEF ConnType
<1>6. ConnOK(r)
  BY <1>4, <1>5 DEF ConnOK
<1>7. r.strained <=> t
  BY <1>4
<1>8. Intact(r, got, got \o c.sndbuf \o b)
  <2> SUFFICES ASSUME Up(r) PROVE /\ Carried(r, got) = got \o c.sndbuf \o b
                                  /\ WholeFile(r) /\ r.sendLen = 0 /\ ~r.fin
    BY <1>2, <1>4 DEF Intact
  <2>1. Up(c) /\ c.sendLen = 0
    BY <1>1, <1>4, <1>7 DEF Up, t
  <2>2. r.sendLen = 0 /\ WholeFile(r) /\ ~r.fin /\ Unsent(r) = <<>>
    BY <1>4, <2>1 DEF WholeFile, Unsent
  <2>3. got \o c.sndbuf \o b \in Bytes
    <3>1. got \o c.sndbuf \in Bytes
      BY <1>1, ConcatBytes
    <3> QED
      BY <1>2, <3>1, ConcatBytes
  <2>4. Carried(r, got) = got \o c.sndbuf \o b \o <<>>
    BY <1>4, <2>2 DEF Carried
  <2>5. Carried(r, got) = got \o c.sndbuf \o b
    BY <2>3, <2>4, ConcatBytes
  <2> QED
    BY <2>2, <2>5
<1> QED
  BY <1>4, <1>6, <1>7, <1>8 DEF r, b, t

\* A connection c after a direct write of what was accepted of data.
LEMMA WrittenOK ==
    ASSUME NEW c, ConnOK(c), NEW b \in Bytes, Len(b) <= SndBuf
    PROVE  LET r == [c EXCEPT !.sndbuf = b]
           IN  /\ ConnOK(r) /\ r.sndbuf = b
               /\ r.state = c.state /\ r.isReading = c.isReading /\ r.isWriting = c.isWriting
               /\ r.outputBuffer = c.outputBuffer /\ r.sendFile = c.sendFile
               /\ r.file = c.file /\ r.offset = c.offset /\ r.sendLen = c.sendLen
               /\ r.fin = c.fin /\ r.broken = c.broken /\ r.strained = c.strained
               /\ r.tasks = c.tasks /\ r.aborted = c.aborted
BY DEF ConnOK, ConnType

\* Queueing a functor aborts nothing.
LEMMA QueuedAborted ==
    ASSUME NEW c \in ConnType
    PROVE  QueueWriteComplete(c).aborted = c.aborted
BY DEF QueueWriteComplete, Queue, ConnType

\* sendInLoop carries the data after all that waits, before its file.
LEMMA SendInLoopOK ==
    ASSUME NEW c, ConnOK(c), c.state # "kConnecting",
           NEW data \in Bytes, data # <<>>, NEW got \in Bytes, NEW before \in Bytes,
           Up(c) => /\ got \o c.sndbuf \o c.outputBuffer = before
                    /\ WholeFile(c)
                    /\ c.outputBuffer # <<>> => c.isWriting
                    /\ c.isWriting => c.outputBuffer # <<>> \/ c.sendLen > 0
                    /\ c.fin => c.state = "kDisconnecting" /\ c.sendLen = 0 /\ ~c.isWriting
    PROVE  SendOutcome(c, data, SendInLoop(c, data), got, before)
<1> DEFINE n     == IF Direct(c) THEN Accepted(c, Len(data)) ELSE 0
           b     == c.sndbuf \o First(data, n)
           fault == Direct(c) /\ Fails(c)
           sent  == [c EXCEPT !.sndbuf = b]
           told  == IF Direct(c) /\ ~fault /\ Finished(c, n, Len(data))
                    THEN QueueWriteComplete(sent) ELSE sent
           r     == SendInLoop(c, data)
           after == before \o data \o Unsent(c)
<1>1. /\ c \in ConnType /\ c.outputBuffer \in Bytes /\ c.sndbuf \in Bytes /\ c.file \in Bytes
      /\ c.sendLen \in Nat /\ c.fin \in BOOLEAN /\ c.broken \in BOOLEAN
      /\ c.strained \in BOOLEAN /\ c.isWriting \in BOOLEAN
      /\ Len(data) \in Nat /\ Len(data) > 0
  <2>1. Len(data) \in Nat /\ Len(data) > 0
    BY EmptySeq DEF Bytes
  <2> QED
    BY <2>1, Fields DEF ConnOK
<1>2. r = IF c.state = "kDisconnected" THEN c
          ELSE IF ~fault /\ n < Len(data) THEN Buffered(told, Rest(data, n))
          ELSE IF c.sendFile THEN SendFileInLoop(told) ELSE told
  BY <1>1 DEF SendInLoop, ConnType
<1>3. /\ n \in 0..Len(data) /\ Len(c.sndbuf) + n <= SndBuf
      /\ Fails(c) => n = 0
      /\ ~Direct(c) => n = 0
  <2>1. Len(c.sndbuf) <= SndBuf /\ Len(c.sndbuf) \in Nat
    BY <1>1 DEF ConnOK, Bytes
  <2>2. CASE Direct(c)
    <3>1. n = Accepted(c, Len(data))
      BY <2>2
    <3> HIDE DEF n
    <3> QED
      BY <1>1, <2>2, <3>1, AcceptedOK
  <2>3. CASE ~Direct(c)
    <3>1. n = 0
      BY <2>3
    <3>2. 0 \in 0..Len(data) /\ Len(c.sndbuf) + 0 <= SndBuf
      BY <1>1, <2>1
    <3> HIDE DEF n
    <3> QED
      BY <2>3, <3>1, <3>2
  <2> QED
    BY <2>2, <2>3
<1> HIDE DEF n, r
<1>4. /\ First(data, n) \in Bytes /\ Len(First(data, n)) = n
      /\ Rest(data, n) \in Bytes /\ Len(Rest(data, n)) = Len(data) - n
      /\ First(data, n) \o Rest(data, n) = data
      /\ n = 0 => First(data, n) = <<>> /\ Rest(data, n) = data
      /\ n = Len(data) => First(data, n) = data
  BY <1>3, FirstRest
<1>5. /\ b \in Bytes /\ Len(b) <= SndBuf
      /\ n = 0 => b = c.sndbuf
  <2>1. b \in Bytes /\ Len(b) = Len(c.sndbuf) + n
    BY SMTT(15), <1>1, <1>4, ConcatBytes
  <2>2. n = 0 => b = c.sndbuf
    BY <1>1, <1>4, ConcatBytes
  <2> QED
    BY <1>3, <2>1, <2>2
<1>6. /\ ConnOK(sent) /\ sent \in ConnType /\ sent.sndbuf = b
      /\ sent.state = c.state /\ sent.isReading = c.isReading /\ sent.isWriting = c.isWriting
      /\ sent.outputBuffer = c.outputBuffer /\ sent.sendFile = c.sendFile
      /\ sent.file = c.file /\ sent.offset = c.offset /\ sent.sendLen = c.sendLen
      /\ sent.fin = c.fin /\ sent.broken = c.broken /\ sent.strained = c.strained
      /\ sent.tasks = c.tasks /\ sent.aborted = c.aborted
  <2> HIDE DEF b
  <2> QED
    BY <1>5, WrittenOK DEF ConnOK
<1> HIDE DEF b, sent
<1>7. Alike(sent, told) /\ told.aborted = c.aborted
  <2>1. Alike(sent, sent)
    BY <1>6 DEF Alike
  <2>2. Alike(sent, QueueWriteComplete(sent)) /\ QueueWriteComplete(sent).aborted = sent.aborted
    BY <1>6, QueueWriteCompleteOK, QueuedAborted
  <2> QED
    BY <1>6, <2>1, <2>2
<1>8. /\ ConnOK(told) /\ told.sndbuf = b
      /\ told.state = c.state /\ told.isReading = c.isReading /\ told.isWriting = c.isWriting
      /\ told.outputBuffer = c.outputBuffer /\ told.sendFile = c.sendFile
      /\ told.file = c.file /\ told.offset = c.offset /\ told.sendLen = c.sendLen
      /\ told.fin = c.fin /\ told.broken = c.broken /\ told.strained = c.strained
      /\ told.aborted = c.aborted
  BY <1>6, <1>7, AlikeOK DEF Alike
<1>9. told.tasks # c.tasks => Direct(c) /\ ~fault /\ Finished(c, n, Len(data))
  BY <1>6
<1>10. Direct(c) <=> (~c.isWriting /\ c.outputBuffer = <<>>)
  BY DEF Direct
<1>11. (Fails(c) <=> c.broken \/ c.fin) /\ (Fails(told) <=> Fails(c))
  BY <1>1, <1>8 DEF Fails
<1> HIDE DEF told
<1>12. CASE c.state = "kDisconnected"
  <2>1. r = c
    BY <1>2, <1>12
  <2> QED
    BY <1>12, <2>1 DEF SendOutcome, Intact, Up, ConnOK, r
<1>13. CASE c.state # "kDisconnected" /\ ~fault /\ n < Len(data)
  <2> DEFINE rest == Rest(data, n)
  <2>1. r = Buffered(told, rest)
    BY <1>2, <1>13
  <2>2. rest \in Bytes /\ rest # <<>>
    BY <1>3, <1>4, <1>13, ConcatBytes
  <2>3. Up(told) => WholeFile(told) /\ ~told.fin
    BY <1>8, <1>10, <1>11, <1>13 DEF Up, WholeFile
  <2> HIDE DEF rest
  <2>4. /\ ConnOK(r)
        /\ r.state = told.state /\ r.fin = told.fin /\ r.broken = told.broken
        /\ r.sndbuf = told.sndbuf /\ r.tasks = told.tasks /\ r.aborted = told.aborted
        /\ r.strained <=> told.strained \/ told.sendLen > 0
        /\ Intact(r, got, got \o told.sndbuf \o (told.outputBuffer \o rest))
    <3>1. told.state \notin {"kConnecting", "kDisconnected"}
      BY <1>8, <1>13
    <3> QED
      BY <1>8, <2>1, <2>2, <2>3, <3>1, BufferedOK
  <2>5. Up(r) => ~c.fin /\ c.sendLen = 0 /\ Up(c)
    BY <1>1, <1>8, <2>3, <2>4 DEF Up
  <2>6. Up(r) => got \o b \o (c.outputBuffer \o rest) = after
    <3> SUFFICES ASSUME Up(r) PROVE got \o b \o (c.outputBuffer \o rest) = after
      OBVIOUS
    <3>1. after = before \o data \o <<>>
      <4>1. Unsent(c) = <<>>
        BY <2>5 DEF Unsent
      <4> QED
        BY <4>1
    <3>2. before \o data \in Bytes
      BY ConcatBytes
    <3>3. after = before \o data
      BY <3>1, <3>2, ConcatBytes
    <3>4. before = got \o c.sndbuf \o c.outputBuffer
      BY <2>5
    <3>5. CASE Direct(c)
      <4>1. /\ c.outputBuffer = <<>> /\ before = got \o c.sndbuf
            /\ c.outputBuffer \o rest = rest
        <5>1. c.outputBuffer = <<>>
          BY <1>10, <3>5
        <5>2. got \o c.sndbuf \in Bytes
          BY <1>1, ConcatBytes
        <5> QED
          BY <2>2, <3>4, <5>1, <5>2, ConcatBytes
      <4> DEFINE f == First(data, n)
      <4>2. f \in Bytes /\ f \o rest = data /\ b = c.sndbuf \o f
        BY <1>4 DEF b, rest
      <4> HIDE DEF f
      <4>3. got \o b = before \o f
        <5>1. (got \o c.sndbuf) \o f = got \o (c.sndbuf \o f)
          <6>1. c.sndbuf \in Bytes /\ f \in Bytes
            BY <1>1, <4>2
          <6> QED
            BY ONLY <6>1, got \in Bytes, Assoc
        <5> QED
          BY <4>1, <4>2, <5>1
      <4>4. (before \o f) \o rest = before \o (f \o rest)
        BY <2>2, <4>2, Assoc
      <4> QED
        BY <3>3, <4>1, <4>2, <4>3, <4>4
    <3>6. CASE ~Direct(c)
      <4>1. b = c.sndbuf /\ rest = data
        BY <1>3, <1>4, <1>5, <3>6 DEF rest
      <4>2. got \o c.sndbuf \in Bytes
        BY <1>1, ConcatBytes
      <4>3. (got \o c.sndbuf) \o (c.outputBuffer \o data) = ((got \o c.sndbuf) \o c.outputBuffer) \o data
        BY <1>1, <4>2, Assoc
      <4> QED
        BY <3>3, <3>4, <4>1, <4>3
    <3> QED
      BY <3>5, <3>6
  <2>7. Intact(r, got, IF c.fin THEN before ELSE after)
    <3>1. CASE Up(r)
      BY <1>8, <2>4, <2>5, <2>6, <3>1
    <3>2. CASE ~Up(r)
      BY <3>2 DEF Intact
    <3> QED
      BY <3>1, <3>2
  <2>8. r.tasks = c.tasks
    BY <1>3, <1>8, <1>9, <1>13, <2>4 DEF Finished
  <2>9. Fails(c) => r.sndbuf = c.sndbuf
    BY <1>3, <1>5, <1>8, <2>4
  <2> HIDE DEF after
  <2> QED
    BY <1>1, <1>8, <1>13, <2>4, <2>7, <2>8, <2>9 DEF SendOutcome, r, after
<1>14. CASE c.state # "kDisconnected" /\ (fault \/ n = Len(data))
  <2>1. Direct(c)
    BY <1>1, <1>3, <1>14
  <2>2. ~c.isWriting /\ c.outputBuffer = <<>>
    BY <1>10, <2>1
  <2> DEFINE given == IF c.fin THEN before ELSE after
  <2>3. Up(told) => /\ Carried(told, got) = given
                    /\ WholeFile(told)
                    /\ told.fin => told.state = "kDisconnecting" /\ told.sendLen = 0
    <3> SUFFICES ASSUME Up(told)
                 PROVE  /\ Carried(told, got) = given
                        /\ WholeFile(told)
                        /\ told.fin => told.state = "kDisconnecting" /\ told.sendLen = 0
      OBVIOUS
    <3>1. Up(c)
      BY <1>8 DEF Up
    <3>2. /\ WholeFile(told)
          /\ told.fin => told.state = "kDisconnecting" /\ told.sendLen = 0
      BY <1>8, <3>1 DEF WholeFile
    <3>3. Unsent(told) = Unsent(c) /\ Unsent(c) \in Bytes
      BY <1>1, <1>8, ConcatBytes DEF Unsent
    <3>4. Carried(told, got) = got \o b \o <<>> \o Unsent(c)
      BY <1>8, <2>2, <3>3 DEF Carried
    <3>5. got \o b \o <<>> = got \o b /\ got \o c.sndbuf \o <<>> = got \o c.sndbuf
      <4>1. got \o b \in Bytes /\ got \o c.sndbuf \in Bytes
        BY <1>1, <1>5, ConcatBytes
      <4> QED
        BY <4>1, ConcatBytes
    <3>6. before = got \o c.sndbuf
      BY <2>2, <3>1, <3>5
    <3>7. CASE c.fin
      <4>1. b = c.sndbuf /\ Unsent(c) = <<>>
        BY <1>3, <1>5, <1>8, <1>11, <3>2, <3>7 DEF Unsent
      <4> QED
        BY <3>2, <3>4, <3>5, <3>6, <3>7, <4>1, ConcatBytes
    <3>8. CASE ~c.fin
      <4>1. n = Len(data) /\ b = c.sndbuf \o data
        BY <1>4, <1>8, <1>11, <1>14, <3>8 DEF b, Up
      <4>2. got \o b = before \o data
        BY ZenonT(20), <1>1, <3>6, <4>1, Assoc
      <4> QED
        BY <3>2, <3>4, <3>5, <3>8, <4>2
    <3> QED
      BY <1>1, <3>7, <3>8
  <2> HIDE DEF given, after
  <2>4. told.tasks # c.tasks => c.sendLen = 0
    <3>1. told.tasks # c.tasks => (c.sendFile => c.sendLen = 0)
      BY <1>9 DEF Finished
    <3> QED
      BY <1>1, <3>1 DEF ConnOK
  <2>5. CASE c.sendFile
    <3>1. r = SendFileInLoop(told)
      BY <1>2, <1>14, <2>5
    <3>2. told.state \notin {"kConnecting", "kDisconnected"}
      BY <1>8, <1>14
    <3>3. /\ ConnOK(r) /\ Intact(r, got, given)
          /\ Fails(told) => r.sndbuf = told.sndbuf
          /\ r.state = told.state /\ r.fin = told.fin /\ r.broken = told.broken
          /\ r.outputBuffer = <<>> /\ r.aborted = told.aborted
          /\ told.strained => r.strained
          /\ r.tasks # told.tasks => r.sendLen = 0
          /\ told.sendLen = 0 => r.sendLen = 0
      BY <1>8, <2>2, <2>3, <3>1, <3>2, SendFileInLoopOK
    <3>4. r.tasks # c.tasks => r.sendLen = 0
      BY <1>8, <2>4, <3>3
    <3>5. Fails(c) => r.sndbuf = c.sndbuf
      BY <1>3, <1>5, <1>8, <1>11, <3>3
    <3> QED
      BY <1>8, <1>14, <2>2, <3>3, <3>4, <3>5 DEF SendOutcome, given, after, r
  <2>6. CASE ~c.sendFile
    <3>1. r = told
      BY <1>2, <1>14, <2>6
    <3>2. told.sendLen = 0 /\ told.outputBuffer = <<>> /\ ~told.isWriting
      BY <1>1, <1>8, <2>2, <2>6 DEF ConnOK
    <3>3. Intact(told, got, given)
      BY <2>3, <3>2 DEF Intact
    <3>4. Fails(c) => told.sndbuf = c.sndbuf
      BY <1>3, <1>5, <1>8
    <3> QED
      BY <1>8, <1>14, <2>2, <3>1, <3>2, <3>3, <3>4 DEF SendOutcome, given, after, r
  <2> QED
    BY <1>1, <2>5, <2>6, Fields DEF ConnOK
<1> QED
  BY <1>1, <1>3, <1>12, <1>13, <1>14

-----------------------------------------------------------------------------
(* handleWrite, shutdown and the others.                                   *)

\* The FIN is sent now, or waits until nothing is watched for writing.
LEMMA ShutdownInLoopOK ==
    ASSUME NEW c, ConnOK(c), c.state = "kDisconnecting",
           NEW got, NEW given, Intact(c, got, given)
    PROVE  LET r == ShutdownInLoop(c)
           IN  /\ ConnOK(r) /\ Intact(r, got, given)
               /\ r.state = c.state /\ r.isWriting = c.isWriting
               /\ r.outputBuffer = c.outputBuffer /\ r.sndbuf = c.sndbuf
               /\ r.sendLen = c.sendLen /\ r.broken = c.broken /\ r.strained = c.strained
               /\ r.tasks = c.tasks /\ r.aborted = c.aborted
<1> DEFINE r == ShutdownInLoop(c)
<1>1. CASE c.isWriting
  BY <1>1 DEF ShutdownInLoop
<1>2. CASE ~c.isWriting
  <2>1. r = [c EXCEPT !.fin = TRUE] /\ c \in ConnType
    BY <1>2 DEF ShutdownInLoop, ConnOK
  <2> HIDE DEF r
  <2>2. /\ r \in ConnType /\ r.fin = TRUE
        /\ r.state = c.state /\ r.isReading = c.isReading /\ r.isWriting = c.isWriting
        /\ r.outputBuffer = c.outputBuffer /\ r.sndbuf = c.sndbuf /\ r.file = c.file
        /\ r.offset = c.offset /\ r.sendFile = c.sendFile /\ r.sendLen = c.sendLen
        /\ r.broken = c.broken /\ r.strained = c.strained
        /\ r.tasks = c.tasks /\ r.aborted = c.aborted
    BY <2>1 DEF ConnType
  <2>3. ConnOK(r) /\ Intact(r, got, given)
    BY <1>2, <2>2 DEF ConnOK, Intact, Up, Carried, Unsent, WholeFile
  <2> QED
    BY <2>2, <2>3 DEF r
<1> QED
  BY <1>1, <1>2

\* shutdown() disturbs no byte.
LEMMA ShutdownOK ==
    ASSUME NEW c, ConnOK(c), NEW got, NEW given, Intact(c, got, given)
    PROVE  LET r == Shutdown(c)
           IN  /\ ConnOK(r) /\ Intact(r, got, given)
               /\ r.sndbuf = c.sndbuf /\ r.broken = c.broken /\ r.strained = c.strained
               /\ r.tasks = c.tasks /\ r.aborted = c.aborted
               /\ c.state # "kDisconnected" => r.state # "kDisconnected"
<1> DEFINE d == [c EXCEPT !.state = "kDisconnecting"]
<1>1. CASE c.state = "kConnected"
  <2>1. c \in ConnType /\ Shutdown(c) = ShutdownInLoop(d)
    BY <1>1 DEF Shutdown, ConnOK
  <2>2. /\ d \in ConnType /\ d.state = "kDisconnecting"
        /\ d.isReading = c.isReading /\ d.isWriting = c.isWriting
        /\ d.outputBuffer = c.outputBuffer /\ d.sndbuf = c.sndbuf /\ d.file = c.file
        /\ d.offset = c.offset /\ d.sendFile = c.sendFile /\ d.sendLen = c.sendLen
        /\ d.broken = c.broken /\ d.strained = c.strained /\ d.fin = c.fin
        /\ d.tasks = c.tasks /\ d.aborted = c.aborted
    BY <2>1 DEF ConnType, States
  <2> HIDE DEF d
  <2>3. ConnOK(d) /\ Intact(d, got, given)
    BY <1>1, <2>2 DEF ConnOK, Intact, Up, Carried, Unsent, WholeFile
  <2> QED
    BY <1>1, <2>1, <2>2, <2>3, ShutdownInLoopOK
<1>2. CASE c.state # "kConnected"
  BY <1>2 DEF Shutdown
<1> QED
  BY <1>1, <1>2

\* The end of handleWrite when everything has been written: the write interest
\* goes, a pending shutdown is done, and writeComplete is queued.
LEMMA DrainedOK ==
    ASSUME NEW c, ConnOK(c), c.outputBuffer = <<>>, NEW got, NEW given,
           Up(c) => /\ Carried(c, got) = given
                    /\ c.sendLen = 0
                    /\ c.fin => c.state = "kDisconnecting"
    PROVE  LET r == Drained(c)
           IN  /\ ConnOK(r) /\ Intact(r, got, given)
               /\ r.state = c.state /\ r.broken = c.broken /\ r.strained = c.strained
               /\ r.sndbuf = c.sndbuf /\ r.outputBuffer = <<>> /\ r.sendLen = c.sendLen
               /\ r.aborted = c.aborted
<1> DEFINE e == [c EXCEPT !.isWriting = FALSE]
           d == QueueWriteComplete(e)
           r == Drained(c)
<1>1. /\ e \in ConnType /\ e.isWriting = FALSE
      /\ e.state = c.state /\ e.isReading = c.isReading
      /\ e.outputBuffer = c.outputBuffer /\ e.sndbuf = c.sndbuf /\ e.file = c.file
      /\ e.offset = c.offset /\ e.sendFile = c.sendFile /\ e.sendLen = c.sendLen
      /\ e.broken = c.broken /\ e.strained = c.strained /\ e.fin = c.fin
      /\ e.tasks = c.tasks /\ e.aborted = c.aborted
  BY DEF ConnOK, ConnType
<1> HIDE DEF e
<1>2. ConnOK(e) /\ Intact(e, got, given)
  <2>1. ConnOK(e)
    BY <1>1 DEF ConnOK
  <2>2. Up(e) <=> Up(c)
    BY <1>1 DEF Up
  <2>3. Carried(e, got) = Carried(c, got)
    BY <1>1 DEF Carried, Unsent
  <2>4. Up(c) => WholeFile(e) /\ e.sendLen = 0 /\ (e.fin => e.state = "kDisconnecting")
    BY <1>1 DEF WholeFile
  <2>5. Intact(e, got, given)
    BY <1>1, <2>2, <2>3, <2>4 DEF Intact
  <2> QED
    BY <2>1, <2>5
<1>3. ConnOK(d) /\ Intact(d, got, given) /\ Alike(e, d) /\ d.aborted = e.aborted
  BY <1>1, <1>2, QueueWriteCompleteOK, AlikeOK, QueuedAborted
<1>4. r = IF c.state = "kDisconnecting" THEN ShutdownInLoop(d) ELSE d
  BY DEF Drained, e
<1> HIDE DEF d, r
<1>5. CASE c.state = "kDisconnecting"
  <2>1. d.state = "kDisconnecting" /\ r = ShutdownInLoop(d)
    BY <1>1, <1>3, <1>4, <1>5 DEF Alike
  <2> QED
    BY <1>1, <1>3, <2>1, ShutdownInLoopOK DEF Alike, r
<1>6. CASE c.state # "kDisconnecting"
  BY <1>1, <1>3, <1>4, <1>6 DEF Alike, r
<1> QED
  BY <1>5, <1>6

\* The output buffer, or else the file, is written when epoll says so.
LEMMA HandleWriteOK ==
    ASSUME NEW c, ConnOK(c), c.isWriting, ~c.broken,
           NEW got \in Bytes, NEW given, Intact(c, got, given)
    PROVE  LET r == HandleWrite(c)
           IN  /\ ConnOK(r) /\ Intact(r, got, given)
               /\ r.state = c.state /\ r.broken = c.broken /\ r.aborted = c.aborted
               /\ c.strained => r.strained
               /\ r.tasks # c.tasks => r.strained \/ (r.outputBuffer = <<>> /\ r.sendLen = 0)
<1> DEFINE n    == Accepted(c, Len(c.outputBuffer))
           b    == c.sndbuf \o First(c.outputBuffer, n)
           q    == Rest(c.outputBuffer, n)
           out  == [c EXCEPT !.sndbuf = b, !.outputBuffer = q]
           file == SentFile(c)
           r    == HandleWrite(c)
<1>1. /\ c \in ConnType /\ c.outputBuffer \in Bytes /\ c.sndbuf \in Bytes
      /\ c.sendLen \in Nat /\ c.strained \in BOOLEAN /\ c.broken \in BOOLEAN
      /\ c.sendFile \in BOOLEAN /\ c.isWriting \in BOOLEAN
      /\ Len(c.outputBuffer) \in Nat /\ c.state # "kDisconnected"
  BY Fields DEF ConnOK, Bytes
<1>2. ~c.strained => /\ Up(c) /\ Carried(c, got) = given /\ WholeFile(c) /\ ~c.fin
                     /\ c.outputBuffer # <<>> => c.sendLen = 0
                     /\ c.outputBuffer = <<>> => c.sendLen > 0
  BY <1>1 DEF Intact, Up
<1>3. CASE c.outputBuffer # <<>>
  <2>1. r = IF n > 0 /\ out.outputBuffer = <<>> THEN Drained(out) ELSE out
    BY <1>1, <1>3 DEF HandleWrite, ConnType
  <2>2. n \in 0..Len(c.outputBuffer) /\ Len(c.sndbuf) + n <= SndBuf
    BY <1>1, AcceptedOK
  <2> HIDE DEF n
  <2>3. /\ First(c.outputBuffer, n) \in Bytes /\ Len(First(c.outputBuffer, n)) = n
        /\ q \in Bytes /\ First(c.outputBuffer, n) \o q = c.outputBuffer
        /\ n = 0 => q = c.outputBuffer
    BY <1>1, <2>2, FirstRest
  <2>4. b \in Bytes /\ Len(b) <= SndBuf
    BY <1>1, <2>2, <2>3, ConcatBytes
  <2>5. got \o b \o q = got \o c.sndbuf \o c.outputBuffer
    <3> DEFINE f == First(c.outputBuffer, n)
    <3>1. f \in Bytes /\ f \o q = c.outputBuffer /\ b = c.sndbuf \o f
      BY <2>3
    <3> HIDE DEF f, q, b
    <3>2. got \o b = (got \o c.sndbuf) \o f /\ got \o c.sndbuf \in Bytes
      <4>1. (got \o c.sndbuf) \o f = got \o (c.sndbuf \o f)
        BY <1>1, <3>1, Assoc
      <4> QED
        BY <1>1, <3>1, <4>1, ConcatBytes
    <3>3. ((got \o c.sndbuf) \o f) \o q = (got \o c.sndbuf) \o (f \o q)
      BY <2>3, <3>1, <3>2, Assoc DEF q
    <3> QED
      BY <3>1, <3>2, <3>3
  <2> HIDE DEF b, q
  <2>6. /\ out \in ConnType /\ out.sndbuf = b /\ out.outputBuffer = q
        /\ out.state = c.state /\ out.isReading = c.isReading /\ out.isWriting = c.isWriting
        /\ out.file = c.file /\ out.offset = c.offset /\ out.sendFile = c.sendFile
        /\ out.sendLen = c.sendLen /\ out.fin = c.fin /\ out.broken = c.broken
        /\ out.strained = c.strained /\ out.tasks = c.tasks /\ out.aborted = c.aborted
    BY <1>1, <2>3, <2>4 DEF ConnType, q
  <2> HIDE DEF out
  <2>7. ConnOK(out)
    BY <2>4, <2>6 DEF ConnOK
  <2>8. Up(out) => /\ Carried(out, got) = given /\ WholeFile(out)
                   /\ ~out.fin /\ out.sendLen = 0
    <3>1. Up(out) => ~c.strained
      BY <2>6 DEF Up
    <3>2. Carried(out, got) = Carried(c, got)
      BY <2>5, <2>6 DEF Carried, Unsent
    <3>3. WholeFile(c) => WholeFile(out)
      BY <2>6 DEF WholeFile
    <3> QED
      BY <1>2, <1>3, <2>6, <3>1, <3>2, <3>3
  <2>9. CASE n > 0 /\ q = <<>>
    <3>1. r = Drained(out)
      BY <2>1, <2>6, <2>9
    <3>2. /\ ConnOK(r) /\ Intact(r, got, given)
          /\ r.state = out.state /\ r.broken = out.broken /\ r.strained = out.strained
          /\ r.outputBuffer = <<>> /\ r.sendLen = out.sendLen /\ r.aborted = out.aborted
      BY <2>6, <2>7, <2>8, <2>9, <3>1, DrainedOK
    <3>3. r.strained \/ r.sendLen = 0
      BY <1>2, <1>3, <2>6, <3>2
    <3> QED
      BY <2>6, <3>2, <3>3
  <2>10. CASE ~(n > 0 /\ q = <<>>)
    <3>1. r = out
      BY <2>1, <2>6, <2>10
    <3>2. q # <<>>
      BY <1>3, <2>2, <2>3, <2>10 DEF q
    <3>3. Intact(out, got, given)
      BY <2>6, <2>8, <3>2 DEF Intact
    <3> QED
      BY <2>6, <2>7, <3>1, <3>3
  <2> QED
    BY <2>9, <2>10
<1>4. CASE c.outputBuffer = <<>> /\ c.sendFile
  <2>1. r = IF file.sendLen < c.sendLen /\ file.sendLen = 0
            THEN Drained(SendFileReset(file)) ELSE file
    BY <1>4 DEF HandleWrite
  <2>2. /\ ConnOK(file)
        /\ file.sendLen = c.sendLen - FileAccepted(c) /\ FileAccepted(c) \in 0..c.sendLen
        /\ file.strained <=> c.strained
                             \/ (0 < FileAccepted(c) /\ FileAccepted(c) < c.sendLen)
        /\ file.state = c.state /\ file.isReading = c.isReading
        /\ file.isWriting = c.isWriting
        /\ file.outputBuffer = c.outputBuffer /\ file.fin = c.fin /\ file.broken = c.broken
        /\ file.tasks = c.tasks /\ file.aborted = c.aborted
    BY SentFileOK, FileAcceptedOK
  <2>3. Up(file) => /\ Carried(file, got) = given /\ WholeFile(file) /\ ~file.fin
                    /\ file.sendLen = 0 \/ file.sendLen = c.sendLen
                    /\ c.sendLen > 0
    <3> SUFFICES ASSUME Up(file)
                 PROVE  /\ Carried(file, got) = given /\ WholeFile(file) /\ ~file.fin
                        /\ file.sendLen = 0 \/ file.sendLen = c.sendLen
                        /\ c.sendLen > 0
      OBVIOUS
    <3>1. ~file.strained /\ ~c.strained
      BY <2>2 DEF Up
    <3>2. Carried(file, got) = Carried(c, got) /\ WholeFile(file)
      BY <1>2, <1>4, <3>1, SentFileIntact
    <3>3. file.sendLen = 0 \/ file.sendLen = c.sendLen
      BY <1>1, <2>2, <3>1
    <3> QED
      BY <1>2, <1>4, <2>2, <3>1, <3>2, <3>3
  <2> HIDE DEF file
  <2>4. CASE file.sendLen < c.sendLen /\ file.sendLen = 0
    <3> DEFINE d == SendFileReset(file)
    <3>1. r = Drained(d)
      BY <2>1, <2>4
    <3>2. /\ ConnOK(d) /\ d.sendLen = 0
          /\ d.strained <=> file.strained \/ file.sendLen > 0
          /\ d.state = file.state /\ d.isWriting = file.isWriting
          /\ d.outputBuffer = file.outputBuffer
          /\ d.fin = file.fin /\ d.broken = file.broken
          /\ d.tasks = file.tasks /\ d.aborted = file.aborted
          /\ ~d.strained => Carried(d, got) = Carried(file, got)
      BY <2>2, SendFileResetOK
    <3> HIDE DEF d
    <3>3. Up(d) => Carried(d, got) = given /\ d.sendLen = 0 /\ ~d.fin
      BY <2>3, <3>2 DEF Up
    <3>4. /\ ConnOK(r) /\ Intact(r, got, given)
          /\ r.state = d.state /\ r.broken = d.broken /\ r.strained = d.strained
          /\ r.outputBuffer = <<>> /\ r.sendLen = d.sendLen /\ r.aborted = d.aborted
      BY <1>4, <2>2, <3>1, <3>2, <3>3, DrainedOK
    <3> QED
      BY <2>2, <3>2, <3>4
  <2>5. CASE ~(file.sendLen < c.sendLen /\ file.sendLen = 0)
    <3>1. r = file
      BY <2>1, <2>5
    <3>2. Up(file) => file.sendLen > 0
      BY <1>1, <2>2, <2>3, <2>5
    <3>3. Intact(file, got, given)
      BY <1>4, <2>2, <2>3, <3>2 DEF Intact
    <3> QED
      BY <2>2, <3>1, <3>3
  <2> QED
    BY <2>4, <2>5
<1>5. CASE c.outputBuffer = <<>> /\ ~c.sendFile
  <2>1. r = c
    BY <1>5 DEF HandleWrite
  <2> QED
    BY <2>1
<1> QED
  BY <1>1, <1>3, <1>4, <1>5

-----------------------------------------------------------------------------
(* What the peer has read and will read of the bytes handed over, also when *)
(* the connection is closed or reset.                                       *)

Delivered(c, got, given) ==
    ~c.strained => \E rest \in Bytes : given = (got \o c.sndbuf) \o rest

Good(c, got, given) == ConnOK(c) /\ Intact(c, got, given) /\ Delivered(c, got, given)

\* The step from c to r queues writeCompleteCallback_ only if nothing is left.
Completes(c, r) ==
    Len(r.tasks) > Len(c.tasks) /\ r.tasks[Len(r.tasks)] = "writeComplete"
        => r.strained \/ (r.outputBuffer = <<>> /\ r.sendLen = 0)

\* A member function that keeps the order of the bytes of a connection that is
\* up, and the kernel's bytes of one that is not, keeps what is promised.
LEMMA DeliveredOK ==
    ASSUME NEW c, NEW r, ConnOK(c), ConnOK(r), NEW got \in Bytes,
           NEW given \in Bytes, NEW more \in Bytes, NEW all, all = given \o more,
           Delivered(c, got, given), Intact(r, got, all),
           c.strained => r.strained,
           ~Up(r) => r.strained \/ r.sndbuf = c.sndbuf
    PROVE  Delivered(r, got, all)
<1> SUFFICES ASSUME ~r.strained
             PROVE  \E rest \in Bytes : all = (got \o r.sndbuf) \o rest
  BY DEF Delivered
<1>1. /\ r.sndbuf \in Bytes /\ r.outputBuffer \in Bytes /\ r.file \in Bytes
      /\ c.sndbuf \in Bytes
  BY Fields DEF ConnOK
<1>2. CASE Up(r)
  <2>1. Unsent(r) \in Bytes
    BY <1>1, ConcatBytes DEF Unsent
  <2>2. all = got \o r.sndbuf \o r.outputBuffer \o Unsent(r)
    BY <1>2 DEF Intact, Carried
  <2>3. got \o r.sndbuf \in Bytes
    BY <1>1, ConcatBytes
  <2>4. all = (got \o r.sndbuf) \o (r.outputBuffer \o Unsent(r))
    BY <1>1, <2>1, <2>2, <2>3, Assoc
  <2> QED
    BY <1>1, <2>1, <2>4, ConcatBytes
<1>3. CASE ~Up(r)
  <2>1. r.sndbuf = c.sndbuf /\ ~c.strained
    BY <1>3
  <2>2. PICK rest \in Bytes : given = (got \o c.sndbuf) \o rest
    BY <2>1 DEF Delivered
  <2>3. got \o c.sndbuf \in Bytes
    BY <1>1, ConcatBytes
  <2>4. all = (got \o c.sndbuf) \o (rest \o more)
    BY <2>2, <2>3, Assoc
  <2> QED
    BY <2>1, <2>4, ConcatBytes
<1> QED
  BY <1>2, <1>3

\* send() of a buffer, with no file given for it.
LEMMA SendOK ==
    ASSUME NEW c, NEW got \in Bytes, NEW given \in Bytes, Good(c, got, given),
           c.state # "kConnecting", NEW data \in Bytes, data # <<>>,
           NEW all \in {given, given \o data},
           Up(c) => all = IF c.fin THEN given ELSE given \o data
    PROVE  LET r == SendInLoop(c, data)
           IN  Good(r, got, all) /\ Completes(c, r) /\ r.broken = c.broken /\ all \in Bytes
<1> DEFINE r      == SendInLoop(c, data)
           before == got \o c.sndbuf \o c.outputBuffer
<1>1. /\ ConnOK(c) /\ Intact(c, got, given) /\ Delivered(c, got, given)
      /\ c.sndbuf \in Bytes /\ c.outputBuffer \in Bytes /\ c.sendLen \in Nat
      /\ c.strained \in BOOLEAN /\ c.broken \in BOOLEAN /\ c.isWriting \in BOOLEAN
  BY Fields DEF Good, ConnOK
<1>2. before \in Bytes
  BY <1>1, ConcatBytes
<1>3. Up(c) /\ c.sendLen = 0 => before = given /\ Unsent(c) = <<>>
  <2>1. c.sendLen = 0 => Unsent(c) = <<>>
    BY <1>1 DEF Unsent
  <2>2. Carried(c, got) = before \o Unsent(c)
    BY DEF Carried
  <2>3. Up(c) => Carried(c, got) = given
    BY <1>1 DEF Intact
  <2> HIDE DEF before
  <2> QED
    BY <1>2, <2>1, <2>2, <2>3, ConcatBytes
<1>4. SendOutcome(c, data, r, got, before)
  <2>1. Up(c) => /\ got \o c.sndbuf \o c.outputBuffer = before
                 /\ WholeFile(c)
                 /\ c.outputBuffer # <<>> => c.isWriting
                 /\ c.isWriting => c.outputBuffer # <<>> \/ c.sendLen > 0
                 /\ c.fin => c.state = "kDisconnecting" /\ c.sendLen = 0 /\ ~c.isWriting
    BY <1>1 DEF Intact
  <2> HIDE DEF before
  <2> QED
    BY <1>1, <1>2, <2>1, SendInLoopOK
<1> HIDE DEF before, r
<1>5. /\ ConnOK(r) /\ r.state = c.state /\ r.fin = c.fin /\ r.broken = c.broken
      /\ c.strained => r.strained
      /\ Fails(c) \/ c.state = "kDisconnected" => r.sndbuf = c.sndbuf
      /\ Completes(c, r)
      /\ c.isWriting /\ c.sendLen > 0 => r.strained
      /\ Intact(r, got, IF c.fin THEN before ELSE before \o data \o Unsent(c))
  BY <1>4 DEF SendOutcome, Completes
<1>6. given \o data \in Bytes
  BY ConcatBytes
<1>7. Intact(r, got, all)
  <2> SUFFICES ASSUME Up(r)
               PROVE  all = IF c.fin THEN before ELSE before \o data \o Unsent(c)
    BY <1>5 DEF Intact
  <2>1. Up(c)
    BY <1>5 DEF Up
  <2>2. c.sendLen = 0
    BY <1>1, <1>5, <2>1 DEF Intact, Up
  <2>3. before \o data = (before \o data) \o Unsent(c)
    BY <1>2, <1>3, <2>1, <2>2, ConcatBytes
  <2>4. c.state # "kDisconnected"
    BY <2>1 DEF Up
  <2> QED
    BY <1>3, <2>1, <2>2, <2>3, <2>4
<1>8. Delivered(r, got, all)
  <2>1. PICK more \in Bytes : all = given \o more
    BY ConcatBytes
  <2>2. ~Up(r) => r.strained \/ r.sndbuf = c.sndbuf
    BY <1>5 DEF Up, Fails
  <2> QED
    BY <1>1, <1>5, <1>7, <2>1, <2>2, DeliveredOK
<1> QED
  BY <1>5, <1>6, <1>7, <1>8 DEF Good, r

\* setSendFile before a send: the file is to be sent from its start.
LEMMA SetSendFileOK ==
    ASSUME NEW c, ConnOK(c), NEW bytes \in Bytes
    PROVE  LET r == SetSendFile(c, bytes)
           IN  /\ ConnOK(r)
               /\ r.strained <=> c.strained \/ c.sendLen > 0 \/ c.state # "kConnected"
               /\ r.sendLen = Len(bytes) /\ r.offset = 0 /\ Unsent(r) = bytes
               /\ r.state = c.state /\ r.isWriting = c.isWriting
               /\ r.outputBuffer = c.outputBuffer /\ r.sndbuf = c.sndbuf
               /\ r.fin = c.fin /\ r.broken = c.broken /\ r.tasks = c.tasks
               /\ WholeFile(r)
<1> DEFINE r == SetSendFile(c, bytes)
           t == c.strained \/ c.sendLen > 0 \/ c.state # "kConnected"
           n == Len(bytes)
<1>1. c \in ConnType /\ c.sendLen \in Nat /\ t \in BOOLEAN /\ n \in Nat
  BY Fields DEF ConnOK, Bytes
<1>2. r = [c EXCEPT !.strained = t, !.sendFile = TRUE, !.file = bytes,
                    !.offset = 0, !.sendLen = n]
  BY <1>1 DEF SetSendFile, Strain, ConnType
<1> HIDE DEF t, r, n
<1>3. /\ r \in ConnType
      /\ r.strained = t /\ r.sendFile = TRUE /\ r.file = bytes /\ r.offset = 0 /\ r.sendLen = n
      /\ r.state = c.state /\ r.isReading = c.isReading /\ r.isWriting = c.isWriting
      /\ r.outputBuffer = c.outputBuffer /\ r.sndbuf = c.sndbuf
      /\ r.fin = c.fin /\ r.broken = c.broken /\ r.tasks = c.tasks
  BY <1>1, <1>2 DEF ConnType
<1>4. r.strained <=> t
  BY <1>3
<1>5. ConnOK(r)
  BY <1>1, <1>3 DEF ConnOK, n
<1>6. Unsent(r) = bytes
  <2>1. n = 0 => bytes = <<>>
    BY EmptySeq DEF n, Bytes
  <2> QED
    BY <1>1, <1>3, <2>1 DEF Unsent
<1>7. WholeFile(r)
  BY <1>3 DEF WholeFile, n
<1> QED
  BY <1>3, <1>4, <1>5, <1>6, <1>7 DEF r, t, n

\* A file that could not be opened, too, but nothing is promised any more.
LEMMA SetLostFileOK ==
    ASSUME NEW c, ConnOK(c), NEW bytes \in Bytes
    PROVE  LET r == SetLostFile(c, bytes)
           IN  /\ ConnOK(r) /\ r.strained
               /\ r.state = c.state /\ r.fin = c.fin /\ r.broken = c.broken
<1> DEFINE r == SetLostFile(c, bytes)
<1>1. PICK d : d = SetSendFile(c, bytes)
  OBVIOUS
<1>2. ConnOK(d) /\ d.state = c.state /\ d.fin = c.fin /\ d.broken = c.broken
  BY <1>1, SetSendFileOK
<1>3. PICK n \in Nat : n = Len(bytes)
  BY DEF Bytes
<1>4. d \in ConnType
  BY <1>2 DEF ConnOK
<1>5. r = [d EXCEPT !.strained = TRUE, !.offset = n]
  BY <1>1, <1>3, <1>4 DEF SetLostFile, Strain, ConnType
<1> HIDE DEF r
<1>6. /\ r \in ConnType /\ r.strained
      /\ r.sndbuf = d.sndbuf /\ r.sendLen = d.sendLen /\ r.file = d.file
      /\ r.sendFile = d.sendFile /\ r.isReading = d.isReading /\ r.isWriting = d.isWriting
      /\ r.state = d.state /\ r.fin = d.fin /\ r.broken = d.broken
  BY <1>4, <1>5 DEF ConnType
<1>7. ConnOK(r)
  BY <1>2, <1>6 DEF ConnOK
<1> QED
  BY <1>2, <1>6, <1>7 DEF r

\* Once strained a connection is good for whatever has been handed over.
LEMMA StrainedGood ==
    ASSUME NEW c, ConnOK(c), c.strained, NEW got, NEW given
    PROVE  Good(c, got, given)
BY DEF Good, Intact, Up, Delivered

\* And it stays so.
LEMMA SendStrainedOK ==
    ASSUME NEW c, ConnOK(c), c.strained, c.state # "kConnecting",
           NEW data \in Bytes, data # <<>>
    PROVE  LET r == SendInLoop(c, data)
           IN  ConnOK(r) /\ r.strained /\ r.broken = c.broken
<1>1. <<>> \in Bytes
  BY EmptySeq DEF Bytes
<1>2. ~Up(c)
  BY DEF Up
<1> QED
  BY <1>1, <1>2, SendInLoopOK DEF SendOutcome

\* setSendFile and the send of the header: the file comes after the header.
LEMMA SendWithFileOK ==
    ASSUME NEW c, NEW got \in Bytes, NEW given \in Bytes, Good(c, got, given),
           c.state = "kConnected",
           NEW data \in Bytes, data # <<>>, NEW bytes \in Bytes
    PROVE  LET r == SendInLoop(SetSendFile(c, bytes), data)
           IN  /\ Good(r, got, given \o (data \o bytes)) /\ Completes(c, r)
               /\ r.broken = c.broken
<1> DEFINE d      == SetSendFile(c, bytes)
           r      == SendInLoop(d, data)
           all    == given \o (data \o bytes)
           before == got \o d.sndbuf \o d.outputBuffer
<1>1. /\ ConnOK(c) /\ Intact(c, got, given) /\ Delivered(c, got, given)
      /\ c.sndbuf \in Bytes /\ c.outputBuffer \in Bytes /\ c.sendLen \in Nat
      /\ c.strained \in BOOLEAN /\ c.broken \in BOOLEAN /\ c.isWriting \in BOOLEAN
  BY Fields DEF Good, ConnOK
<1>2. /\ ConnOK(d)
      /\ d.strained <=> c.strained \/ c.sendLen > 0 \/ c.state # "kConnected"
      /\ d.sendLen = Len(bytes) /\ Unsent(d) = bytes
      /\ d.state = c.state /\ d.isWriting = c.isWriting
      /\ d.outputBuffer = c.outputBuffer /\ d.sndbuf = c.sndbuf
      /\ d.fin = c.fin /\ d.broken = c.broken /\ d.tasks = c.tasks
      /\ WholeFile(d)
  BY <1>1, SetSendFileOK
<1> HIDE DEF d
<1>3. before \in Bytes
  BY <1>1, <1>2, ConcatBytes
<1>4. Up(d) => /\ Up(c) /\ c.sendLen = 0 /\ before = given /\ ~d.fin
               /\ d.outputBuffer # <<>> => d.isWriting
               /\ d.isWriting => d.outputBuffer # <<>>
  <2> SUFFICES ASSUME Up(d)
               PROVE  /\ Up(c) /\ c.sendLen = 0 /\ before = given /\ ~d.fin
                      /\ d.outputBuffer # <<>> => d.isWriting
                      /\ d.isWriting => d.outputBuffer # <<>>
    OBVIOUS
  <2>1. Up(c) /\ c.sendLen = 0
    BY <1>1, <1>2 DEF Up
  <2>2. Carried(c, got) = before \o <<>> /\ Carried(c, got) = given
    <3>1. Unsent(c) = <<>>
      BY <2>1 DEF Unsent
    <3>2. before = got \o c.sndbuf \o c.outputBuffer
      BY <1>2
    <3> HIDE DEF before
    <3> QED
      BY <1>1, <2>1, <3>1, <3>2 DEF Carried, Intact
  <2> HIDE DEF before
  <2>3. before = given
    BY <1>3, <2>2, ConcatBytes
  <2> QED
    BY <1>1, <1>2, <2>1, <2>3 DEF Intact
<1>5. SendOutcome(d, data, r, got, before)
  <2>1. Up(d) => /\ got \o d.sndbuf \o d.outputBuffer = before
                 /\ WholeFile(d)
                 /\ d.outputBuffer # <<>> => d.isWriting
                 /\ d.isWriting => d.outputBuffer # <<>> \/ d.sendLen > 0
                 /\ d.fin => d.state = "kDisconnecting" /\ d.sendLen = 0 /\ ~d.isWriting
    BY <1>2, <1>4
  <2>2. d.state # "kConnecting"
    BY <1>2
  <2> HIDE DEF before
  <2> QED
    BY <1>2, <1>3, <2>1, <2>2, SendInLoopOK
<1> HIDE DEF before, r
<1>6. /\ ConnOK(r) /\ r.state = d.state /\ r.fin = d.fin /\ r.broken = d.broken
      /\ d.strained => r.strained
      /\ Fails(d) \/ d.state = "kDisconnected" => r.sndbuf = d.sndbuf
      /\ Completes(c, r)
      /\ Intact(r, got, IF d.fin THEN before ELSE before \o data \o bytes)
  BY <1>2, <1>5 DEF SendOutcome, Completes
<1>7. data \o bytes \in Bytes /\ all \in Bytes /\ (given \o data) \o bytes = all
  BY ConcatBytes, Assoc
<1>8. Intact(r, got, all)
  <2> SUFFICES ASSUME Up(r)
               PROVE  all = IF d.fin THEN before ELSE before \o data \o bytes
    BY <1>6 DEF Intact
  <2>1. Up(d)
    BY <1>6 DEF Up
  <2> QED
    BY <1>4, <1>7, <2>1
<1>9. Delivered(r, got, all)
  <2>1. ~Up(r) => r.strained \/ r.sndbuf = c.sndbuf
    BY <1>2, <1>6 DEF Up, Fails
  <2>2. c.strained => r.strained
    BY <1>2, <1>6
  <2>3. PICK more \in Bytes : all = given \o more
    BY <1>7
  <2> HIDE DEF all
  <2> QED
    BY <2>3, <1>1, <1>6, <1>7, <1>8, <2>1, <2>2, DeliveredOK
<1> QED
  BY <1>2, <1>6, <1>8, <1>9 DEF Good, r, d

\* The member functions that touch neither the bytes nor the file.
Like(c, r) ==
    /\ r \in ConnType
    /\ r.outputBuffer = c.outputBuffer /\ r.sndbuf = c.sndbuf
    /\ r.sendFile = c.sendFile /\ r.file = c.file
    /\ r.offset = c.offset /\ r.sendLen = c.sendLen
    /\ r.fin = c.fin /\ r.broken = c.broken /\ r.strained = c.strained

\* They keep what is promised if they stop watching only on a close.
LEMMA LikeOK ==
    ASSUME NEW c, NEW r, Like(c, r), NEW got, NEW given, Good(c, got, given),
           r.state \in {"kConnecting", "kDisconnected"} => ~r.isReading /\ ~r.isWriting,
           r.state # "kDisconnected" =>
              r.isWriting = c.isWriting /\ c.state # "kDisconnected",
           r.state # "kDisconnected" /\ Up(c) /\ c.fin => r.state = "kDisconnecting"
    PROVE  Good(r, got, given)
<1>1. ConnOK(c) /\ Intact(c, got, given) /\ Delivered(c, got, given)
  BY DEF Good
<1>2. ConnOK(r)
  BY <1>1 DEF ConnOK, Like
<1>3. Intact(r, got, given)
  <2> SUFFICES ASSUME Up(r)
               PROVE  Intact(r, got, given)
    BY DEF Intact
  <2>1. Up(c)
    BY DEF Up, Like
  <2>2. Carried(r, got) = Carried(c, got)
    BY DEF Carried, Unsent, Like
  <2>3. WholeFile(c) => WholeFile(r)
    BY DEF WholeFile, Like
  <2> QED
    BY <1>1, <2>1, <2>2, <2>3 DEF Intact, Like, Up
<1>4. Delivered(r, got, given)
  BY <1>1 DEF Delivered, Like
<1> QED
  BY <1>2, <1>3, <1>4 DEF Good

\* handleClose, with what calls it.
LEMMA HandleCloseOK ==
    ASSUME NEW c, NEW got, NEW given, Good(c, got, given)
    PROVE  LET r == HandleClose(c)
           IN  Good(r, got, given) /\ r.tasks = c.tasks /\ r.broken = c.broken
<1> DEFINE r == HandleClose(c)
<1>1. c \in ConnType
  BY DEF Good, ConnOK
<1>2. /\ Like(c, r) /\ r.state = "kDisconnected" /\ ~r.isReading /\ ~r.isWriting
      /\ r.tasks = c.tasks
  BY <1>1 DEF HandleClose, ConnType, States, Like
<1> HIDE DEF r
<1>3. Good(r, got, given)
  BY <1>2, LikeOK
<1> QED
  BY <1>2, <1>3 DEF Like, r

\* forceClose marks the connection and queues the close.
LEMMA ForceCloseOK ==
    ASSUME NEW c, NEW got, NEW given, Good(c, got, given),
           c.state \in {"kConnected", "kDisconnecting"}
    PROVE  LET r == ForceClose(c)
           IN  /\ Good(r, got, given) /\ r.broken = c.broken
               /\ r.tasks = Append(c.tasks, "forceClose")
<1> DEFINE r == ForceClose(c)
           f == Append(c.tasks, "forceClose")
<1>1. c \in ConnType /\ f \in Seq({"writeComplete", "forceClose"})
  BY Fields DEF Good, ConnOK
<1>2. r = [c EXCEPT !.state = "kDisconnecting", !.tasks = f]
  BY <1>1 DEF ForceClose, Queue, ConnType
<1> HIDE DEF r, f
<1>3. Like(c, r) /\ r.state = "kDisconnecting" /\ r.isWriting = c.isWriting /\ r.tasks = f
  BY <1>1, <1>2 DEF ConnType, States, Like
<1>4. Good(r, got, given)
  BY <1>3, LikeOK
<1> QED
  BY <1>3, <1>4 DEF Like, r, f

\* startRead and stopRead change what the channel watches, or abort.
LEMMA WatchOK ==
    ASSUME NEW c, NEW got, NEW given, Good(c, got, given), c.state # "kConnecting",
           NEW r \in {StartRead(c), StopRead(c)}
    PROVE  Good(r, got, given) /\ r.tasks = c.tasks /\ r.broken = c.broken
<1>1. c \in ConnType /\ (c.state = "kDisconnected" => ~c.isReading /\ ~c.isWriting)
  BY DEF Good, ConnOK
<1>2. Intact(c, got, given)
  BY DEF Good
<1>3. PICK on \in BOOLEAN : r = Watch(c, on) \/ r = c
  BY DEF StartRead, StopRead
<1>4. CASE r = c
  BY <1>4
<1>5. CASE r = Watch(c, on)
  <2>1. /\ Like(c, r) /\ r.state = c.state /\ r.isWriting = c.isWriting /\ r.tasks = c.tasks
        /\ c.state = "kDisconnected" => r.isReading = c.isReading
    BY <1>1, <1>3, <1>5 DEF Watch, ConnType, States, Like
  <2>2. Up(c) /\ c.fin => c.state = "kDisconnecting"
    BY <1>2 DEF Intact
  <2> QED
    BY <1>1, <2>1, <2>2, LikeOK DEF Like
<1> QED
  BY <1>3, <1>4, <1>5

-----------------------------------------------------------------------------
(* The inductive invariant.                                                 *)

\* What holds of a connection whatever its application is.
ConnInv ==
    /\ Good(conn, received, handed)
    /\ peer \in {"open", "fin", "reset"}
    /\ received \in Bytes
    /\ handed \in Bytes
    /\ conn.broken <=> peer = "reset"

IInv == ConnInv /\ sends \in 0..MaxSends

\* What a step keeps, and what it promises of writeCompleteCallback_.
ConnKept == ConnInv' /\ Completes(conn, conn')

\* Bytes not handed over yet are bytes, as many as were asked for.
LEMMA FreshOK ==
    ASSUME handed \in Bytes, NEW n \in Nat
    PROVE  Fresh(n) \in Bytes /\ Len(Fresh(n)) = n /\ (n > 0 => Fresh(n) # <<>>)
BY DEF Fresh, Bytes

\* A connection as the constructor leaves it carries nothing.
LEMMA InitConnInv == ConnInit => ConnInv
<1> SUFFICES ASSUME ConnInit PROVE ConnInv
  OBVIOUS
<1> DEFINE c == NewConnection
<1>1. <<>> \in Bytes /\ Len(<<>>) = 0 /\ <<>> \in Seq({"writeComplete", "forceClose"})
  BY EmptySeq DEF Bytes
<1>2. conn = c /\ received = <<>> /\ handed = <<>>
  BY DEF ConnInit
<1>3. c \in ConnType
  BY <1>1 DEF NewConnection, ConnType, States
<1>4. /\ c.sndbuf = <<>> /\ c.outputBuffer = <<>> /\ c.sendLen = 0 /\ c.file = <<>>
      /\ ~c.isReading /\ ~c.isWriting /\ ~c.fin /\ ~c.broken
  BY DEF NewConnection
<1> HIDE DEF c
<1>5. ConnOK(c)
  BY <1>1, <1>3, <1>4, SndBufAssumption DEF ConnOK
<1>6. <<>> \o <<>> = <<>>
  BY <1>1, ConcatBytes
<1>7. Intact(c, <<>>, <<>>)
  BY <1>4, <1>6 DEF Intact, Carried, Unsent, WholeFile
<1>8. Delivered(c, <<>>, <<>>)
  BY <1>1, <1>4, <1>6 DEF Delivered
<1> QED
  BY <1>1, <1>2, <1>4, <1>5, <1>7, <1>8 DEF ConnInv, Good, ConnInit

\* A step of the connection alone.
LEMMA ConnStep ==
    ASSUME ConnInv, Good(conn', received, handed), Completes(conn, conn'),
           conn'.broken <=> conn.broken, UNCHANGED <<peer, received, handed>>
    PROVE  ConnKept
BY DEF ConnInv, ConnKept

\* One lemma for each action.
LEMMA ConnectEstablishedStep ==
    ASSUME ConnInv, ConnectEstablished PROVE ConnKept
<1> DEFINE r == [conn EXCEPT !.state = "kConnected", !.isReading = TRUE]
<1>1. /\ conn \in ConnType /\ Good(conn, received, handed) /\ conn.state = "kConnecting"
      /\ Intact(conn, received, handed)
  BY DEF ConnInv, Good, ConnOK, ConnectEstablished
<1>2. /\ Like(conn, r) /\ r.state = "kConnected" /\ r.isWriting = conn.isWriting
      /\ r.tasks = conn.tasks
  BY <1>1 DEF ConnType, States, Like
<1>3. conn' = r
  BY DEF ConnectEstablished
<1> HIDE DEF r
<1>4. Up(conn) => ~conn.fin
  BY <1>1 DEF Intact
<1>5. Good(r, received, handed)
  BY <1>1, <1>2, <1>4, LikeOK
<1>6. Len(conn.tasks) \in Nat
  BY <1>1, Fields
<1> QED
  BY <1>2, <1>3, <1>5, <1>6, ConnStep DEF ConnectEstablished, Like, Completes

\* send of a Buffer, only when the state is kConnected.
LEMMA SendStep ==
    ASSUME ConnInv, NEW n \in Lengths, Send(n) PROVE ConnKept
<1>1. /\ Good(conn, received, handed) /\ received \in Bytes /\ handed \in Bytes
      /\ conn.state = "kConnected" /\ Intact(conn, received, handed)
      /\ n \in Nat /\ n > 0
  BY SizesAssumption DEF ConnInv, Good, Send
<1>2. Fresh(n) \in Bytes /\ Fresh(n) # <<>>
  BY <1>1, FreshOK
<1>3. conn' = SendInLoop(conn, Fresh(n)) /\ handed' = handed \o Fresh(n)
  BY DEF Send, SendBuffer
<1>4. Up(conn) => ~conn.fin
  BY <1>1 DEF Intact
<1>5. Good(conn', received, handed') /\ Completes(conn, conn') /\ conn'.broken = conn.broken
      /\ handed' \in Bytes
  BY <1>1, <1>2, <1>3, <1>4, SendOK
<1> QED
  BY <1>5 DEF ConnInv, ConnKept, Send

\* send of a string_view, which goes to sendInLoop in every state.
LEMMA SendMessageStep ==
    ASSUME ConnInv, NEW n \in Lengths, SendMessage(n) PROVE ConnKept
<1>1. /\ Good(conn, received, handed) /\ received \in Bytes /\ handed \in Bytes
      /\ conn.state # "kConnecting" /\ n \in Nat /\ n > 0
  BY SizesAssumption DEF ConnInv, SendMessage
<1>2. Fresh(n) \in Bytes /\ Fresh(n) # <<>>
  BY <1>1, FreshOK
<1>3. /\ conn' = SendInLoop(conn, Fresh(n))
      /\ handed' = IF conn.state = "kDisconnected" \/ conn.fin
                   THEN handed ELSE handed \o Fresh(n)
  BY DEF SendMessage
<1>4. Up(conn) => handed' = IF conn.fin THEN handed ELSE handed \o Fresh(n)
  BY <1>3 DEF Up
<1>5. Good(conn', received, handed') /\ Completes(conn, conn') /\ conn'.broken = conn.broken
      /\ handed' \in Bytes
  BY <1>1, <1>2, <1>3, <1>4, SendOK
<1> QED
  BY <1>5 DEF ConnInv, ConnKept, SendMessage

\* A response with a file: the header first, the file behind it.
LEMMA SendWithFileStep ==
    ASSUME ConnInv, NEW n \in Lengths, NEW f \in FileLengths, SendWithFile(n, f) PROVE ConnKept
<1> DEFINE bytes == Fresh(n + f)
           data  == First(bytes, n)
           file  == Rest(bytes, n)
           c     == SetSendFile(conn, file)
<1>1. /\ Good(conn, received, handed) /\ received \in Bytes /\ handed \in Bytes
      /\ conn.state = "kConnected" /\ n \in Nat /\ n > 0 /\ f \in Nat
      /\ ConnOK(conn)
  BY SizesAssumption DEF ConnInv, Good, SendWithFile
<1>2. bytes \in Bytes /\ Len(bytes) = n + f
  BY <1>1, FreshOK
<1>3. conn' = SendBuffer(c, data) /\ handed' = handed \o bytes
  BY DEF SendWithFile
<1> HIDE DEF bytes
<1>4. n \in 0..Len(bytes)
  BY <1>1, <1>2
<1>5. data \in Bytes /\ Len(data) = n /\ file \in Bytes /\ data \o file = bytes
  BY <1>2, <1>4, FirstRest
<1> HIDE DEF data, file
<1>6. data # <<>>
  BY <1>1, <1>5, ConcatBytes
<1>7. c.state = "kConnected"
  BY <1>1, <1>5, SetSendFileOK
<1>8. conn' = SendInLoop(c, data)
  BY <1>3, <1>7 DEF SendBuffer
<1>9. /\ Good(conn', received, handed') /\ Completes(conn, conn')
      /\ conn'.broken = conn.broken
  <2> DEFINE w == SendInLoop(c, data)
  <2>1. /\ Good(w, received, handed \o (data \o file)) /\ Completes(conn, w)
        /\ w.broken = conn.broken
    BY <1>1, <1>5, <1>6, SendWithFileOK
  <2>2. conn' = w /\ handed' = handed \o (data \o file)
    BY <1>3, <1>5, <1>8
  <2> HIDE DEF w
  <2> QED
    BY <2>1, <2>2
<1>10. handed' \in Bytes
  BY <1>1, <1>2, <1>3, ConcatBytes
<1> QED
  BY <1>9, <1>10 DEF ConnInv, ConnKept, SendWithFile

\* shutdown.
LEMMA AppShutdownStep ==
    ASSUME ConnInv, AppShutdown PROVE ConnKept
<1>1. /\ ConnOK(conn) /\ Intact(conn, received, handed) /\ Delivered(conn, received, handed)
      /\ conn' = Shutdown(conn)
  BY DEF ConnInv, Good, AppShutdown
<1>2. /\ ConnOK(conn') /\ Intact(conn', received, handed) /\ conn'.sndbuf = conn.sndbuf
      /\ conn'.broken = conn.broken /\ conn'.strained = conn.strained
      /\ conn'.tasks = conn.tasks
  BY <1>1, ShutdownOK
<1>3. Delivered(conn', received, handed)
  BY <1>1, <1>2 DEF Delivered
<1>4. Len(conn.tasks) \in Nat
  BY <1>1, Fields DEF ConnOK
<1> QED
  BY <1>2, <1>3, <1>4, ConnStep DEF AppShutdown, Good, Completes

\* forceClose queues a task.
LEMMA AppForceCloseStep ==
    ASSUME ConnInv, AppForceClose PROVE ConnKept
<1>1. /\ Good(conn, received, handed) /\ conn.state \in {"kConnected", "kDisconnecting"}
      /\ conn' = ForceClose(conn)
  BY DEF ConnInv, AppForceClose
<1>2. /\ Good(conn', received, handed) /\ conn'.broken = conn.broken
      /\ conn'.tasks = Append(conn.tasks, "forceClose")
  BY <1>1, ForceCloseOK
<1>3. conn'.tasks[Len(conn'.tasks)] = "forceClose"
  BY <1>1, <1>2, Fields DEF Good, ConnOK
<1> QED
  BY <1>2, <1>3, ConnStep DEF AppForceClose, Completes

\* startRead and stopRead.
LEMMA AppReadControlStep ==
    ASSUME ConnInv, AppReadControl PROVE ConnKept
<1>1. /\ Good(conn, received, handed) /\ conn.state # "kConnecting"
      /\ conn' \in {StartRead(conn), StopRead(conn)}
  BY DEF ConnInv, AppReadControl
<1>2. /\ Good(conn', received, handed) /\ conn'.broken = conn.broken
      /\ conn'.tasks = conn.tasks
  BY <1>1, WatchOK
<1>3. Len(conn.tasks) \in Nat
  BY <1>1, Fields DEF Good, ConnOK
<1> QED
  BY <1>2, <1>3, ConnStep DEF AppReadControl, Completes

\* The loop runs a task that this connection has queued.
LEMMA RunTaskStep ==
    ASSUME ConnInv, RunTask PROVE ConnKept
<1> DEFINE rest == [conn EXCEPT !.tasks = Tail(conn.tasks)]
<1>1. /\ Good(conn, received, handed) /\ ConnOK(conn) /\ Intact(conn, received, handed)
      /\ conn.tasks # <<>> /\ conn.tasks \in Seq({"writeComplete", "forceClose"})
      /\ conn' = IF Head(conn.tasks) = "forceClose" THEN ForceCloseInLoop(rest) ELSE rest
      /\ conn \in ConnType
  BY Fields DEF ConnInv, Good, ConnOK, RunTask
<1>2. /\ Tail(conn.tasks) \in Seq({"writeComplete", "forceClose"})
      /\ Len(Tail(conn.tasks)) = Len(conn.tasks) - 1 /\ Len(conn.tasks) \in Nat
      /\ Len(Tail(conn.tasks)) \in Nat
  BY <1>1
<1>3. /\ Like(conn, rest) /\ rest.state = conn.state /\ rest.isReading = conn.isReading
      /\ rest.isWriting = conn.isWriting /\ rest.tasks = Tail(conn.tasks)
  BY <1>1, <1>2 DEF ConnType, Like
<1> HIDE DEF rest
<1>4. Good(rest, received, handed) /\ rest.broken = conn.broken
  BY <1>1, <1>3, LikeOK DEF ConnOK, Intact, Like
<1>5. /\ Good(conn', received, handed) /\ conn'.broken = conn.broken
      /\ conn'.tasks = Tail(conn.tasks)
  BY <1>1, <1>3, <1>4, HandleCloseOK DEF ForceCloseInLoop
<1>6. UNCHANGED <<peer, received, handed>>
  BY DEF RunTask
<1>7. Completes(conn, conn')
  <2> DEFINE t == Tail(conn.tasks)
  <2>1. Len(conn'.tasks) < Len(conn.tasks)
    <3>1. conn'.tasks = t /\ Len(t) = Len(conn.tasks) - 1
      BY <1>2, <1>5
    <3> HIDE DEF t
    <3> QED
      BY <1>2, <3>1
  <2>2. Len(conn'.tasks) \in Nat
    BY <1>2, <1>5
  <2> QED
    BY <1>2, <2>1, <2>2 DEF Completes
<1> QED
  BY <1>5, <1>6, <1>7, ConnStep

\* The peer has closed.
LEMMA EventCloseStep ==
    ASSUME ConnInv, EventRead \/ EventHup PROVE ConnKept
<1>1. Good(conn, received, handed) /\ conn' = HandleClose(conn)
  BY DEF ConnInv, EventRead, EventHup
<1>2. /\ Good(conn', received, handed) /\ conn'.tasks = conn.tasks
      /\ conn'.broken = conn.broken
  BY <1>1, HandleCloseOK
<1>3. Len(conn.tasks) \in Nat
  BY <1>1, Fields DEF Good, ConnOK
<1> QED
  BY <1>2, <1>3, ConnStep DEF EventRead, EventHup, Completes

\* The socket can be written again.
LEMMA EventWriteStep ==
    ASSUME ConnInv, EventWrite PROVE ConnKept
<1>1. /\ ConnOK(conn) /\ Intact(conn, received, handed) /\ Delivered(conn, received, handed)
      /\ received \in Bytes /\ handed \in Bytes
      /\ conn.isWriting /\ ~conn.broken /\ conn' = HandleWrite(conn)
      /\ Len(conn.tasks) \in Nat /\ conn.state # "kDisconnected"
  BY Fields DEF ConnInv, Good, ConnOK, EventWrite
<1>2. /\ ConnOK(conn') /\ Intact(conn', received, handed)
      /\ conn'.state = conn.state /\ conn'.broken = conn.broken
      /\ conn.strained => conn'.strained
      /\ conn'.tasks # conn.tasks
            => conn'.strained \/ (conn'.outputBuffer = <<>> /\ conn'.sendLen = 0)
  BY <1>1, HandleWriteOK
<1>3. Delivered(conn', received, handed)
  <2>1. handed = handed \o <<>> /\ <<>> \in Bytes
    BY <1>1, ConcatBytes
  <2>2. ~Up(conn') => conn'.strained
    BY <1>1, <1>2 DEF Up
  <2> QED
    BY <1>1, <1>2, <2>1, <2>2, DeliveredOK
<1> QED
  BY <1>1, <1>2, <1>3, ConnStep DEF EventWrite, Good, Completes

\* The kernel passes on what the socket has taken.
LEMMA DeliverStep ==
    ASSUME ConnInv, Deliver PROVE ConnKept
<1> DEFINE h == Head(conn.sndbuf)
           b == Tail(conn.sndbuf)
           r == [conn EXCEPT !.sndbuf = b]
<1>1. /\ Good(conn, received, handed) /\ ConnOK(conn) /\ Intact(conn, received, handed)
      /\ Delivered(conn, received, handed)
      /\ conn.sndbuf \in Bytes /\ conn.sndbuf # <<>> /\ Len(conn.sndbuf) <= SndBuf
      /\ conn.outputBuffer \in Bytes /\ Len(conn.tasks) \in Nat
      /\ received \in Bytes /\ conn' = r /\ received' = Append(received, h)
  BY Fields DEF ConnInv, Good, ConnOK, Deliver
<1>2. /\ h \in Nat /\ b \in Bytes /\ Len(b) = Len(conn.sndbuf) - 1
      /\ Append(received, h) \in Bytes
  BY <1>1 DEF Bytes
<1>3. Append(received, h) \o b = received \o conn.sndbuf
  <2>1. received \in Seq(Nat) /\ conn.sndbuf \in Seq(Nat)
    BY <1>1 DEF Bytes
  <2>2. <<h>> \in Bytes /\ Append(received, h) = received \o <<h>>
    BY <1>1, <1>2 DEF Bytes
  <2>3. <<h>> \o b = conn.sndbuf
    BY <1>1, <2>1
  <2> HIDE DEF h, b
  <2>4. (received \o <<h>>) \o b = received \o (<<h>> \o b)
    BY <1>1, <1>2, <2>2, Assoc
  <2> QED
    BY <2>2, <2>3, <2>4
<1>4. Len(b) <= SndBuf
  <2>1. Len(conn.sndbuf) \in Nat
    BY <1>1 DEF Bytes
  <2> HIDE DEF b
  <2> QED
    BY <1>1, <1>2, <2>1, SndBufAssumption
<1> HIDE DEF h, b
<1>5. /\ ConnOK(r) /\ r.sndbuf = b
      /\ r.state = conn.state /\ r.isReading = conn.isReading /\ r.isWriting = conn.isWriting
      /\ r.outputBuffer = conn.outputBuffer /\ r.sendFile = conn.sendFile
      /\ r.file = conn.file /\ r.offset = conn.offset /\ r.sendLen = conn.sendLen
      /\ r.fin = conn.fin /\ r.broken = conn.broken /\ r.strained = conn.strained
      /\ r.tasks = conn.tasks /\ r.aborted = conn.aborted
  BY <1>1, <1>2, <1>4, WrittenOK
<1> HIDE DEF r
<1>6. Intact(r, received', handed)
  <2>1. Carried(r, received') = Carried(conn, received)
    BY <1>1, <1>3, <1>5 DEF Carried, Unsent
  <2>2. (Up(r) <=> Up(conn)) /\ (WholeFile(r) <=> WholeFile(conn))
    BY <1>5 DEF Up, WholeFile
  <2> QED
    BY <1>1, <1>5, <2>1, <2>2 DEF Intact
<1>7. Delivered(r, received', handed)
  BY <1>1, <1>3, <1>5 DEF Delivered
<1>8. Good(conn', received', handed') /\ conn'.broken = conn.broken
  BY <1>1, <1>5, <1>6, <1>7 DEF Good, Deliver
<1>9. Completes(conn, conn')
  BY <1>1, <1>5 DEF Completes
<1>10. received' \in Bytes
  BY <1>1, <1>2
<1> QED
  BY <1>8, <1>9, <1>10 DEF ConnInv, ConnKept, Deliver

\* A reset throws away what the socket has taken.
LEMMA PeerResetStep ==
    ASSUME ConnInv, PeerReset PROVE ConnKept
<1> DEFINE r == [conn EXCEPT !.broken = TRUE, !.sndbuf = <<>>]
<1>1. /\ ConnOK(conn) /\ Delivered(conn, received, handed) /\ conn \in ConnType
      /\ conn.sndbuf \in Bytes /\ received \in Bytes /\ handed \in Bytes
      /\ conn' = r /\ <<>> \in Bytes /\ Len(<<>>) = 0 /\ Len(conn.tasks) \in Nat
  BY Fields, EmptySeq DEF ConnInv, Good, ConnOK, PeerReset, Bytes
<1>2. /\ r \in ConnType /\ r.broken = TRUE /\ r.sndbuf = <<>>
      /\ r.state = conn.state /\ r.isReading = conn.isReading /\ r.isWriting = conn.isWriting
      /\ r.sendFile = conn.sendFile /\ r.file = conn.file /\ r.sendLen = conn.sendLen
      /\ r.strained = conn.strained /\ r.tasks = conn.tasks
  BY <1>1 DEF ConnType
<1> HIDE DEF r
<1>3. ConnOK(r)
  BY <1>1, <1>2, SndBufAssumption DEF ConnOK
<1>4. Intact(r, received, handed)
  BY <1>2 DEF Intact, Up
<1>5. Delivered(r, received, handed)
  <2> SUFFICES ASSUME ~r.strained
               PROVE  \E rest \in Bytes : handed = (received \o r.sndbuf) \o rest
    BY DEF Delivered
  <2>1. PICK rest \in Bytes : handed = (received \o conn.sndbuf) \o rest
    BY <1>1, <1>2 DEF Delivered
  <2>2. (received \o conn.sndbuf) \o rest = received \o (conn.sndbuf \o rest)
    BY ZenonT(20), <1>1, Assoc
  <2>3. conn.sndbuf \o rest \in Bytes
    BY <1>1, ConcatBytes
  <2>4. received \o r.sndbuf = received
    BY <1>1, <1>2, ConcatBytes
  <2> QED
    BY <2>1, <2>2, <2>4, <2>3
<1> QED
  BY <1>1, <1>2, <1>3, <1>4, <1>5 DEF ConnInv, ConnKept, Good, Completes, PeerReset

\* The peer's FIN changes nothing on this side.
LEMMA PeerFinStep ==
    ASSUME ConnInv, PeerFin PROVE ConnKept
<1>1. Len(conn.tasks) \in Nat
  BY Fields DEF ConnInv, Good, ConnOK
<1> QED
  BY <1>1 DEF ConnInv, ConnKept, Completes, PeerFin

\* Nor does a step of something else.
LEMMA StutterStep ==
    ASSUME ConnInv, UNCHANGED connVars PROVE ConnKept
<1>1. Len(conn.tasks) \in Nat
  BY Fields DEF ConnInv, Good, ConnOK
<1> QED
  BY <1>1 DEF ConnInv, ConnKept, Completes, connVars

\* Every step keeps the invariant.
LEMMA StepKept ==
    ASSUME IInv, [Next]_vars PROVE IInv' /\ Completes(conn, conn')
<1>1. ConnInv
  BY DEF IInv
<1> SUFFICES ConnKept /\ sends' \in 0..MaxSends
  BY DEF ConnKept, IInv
<1>2. CASE UNCHANGED vars
  <2>1. UNCHANGED connVars /\ UNCHANGED sends
    BY <1>2 DEF vars
  <2> QED
    BY <1>1, <2>1, StutterStep DEF IInv
<1>3. CASE PeerFin /\ UNCHANGED sends
  BY <1>1, <1>3, PeerFinStep DEF IInv
<1>4. CASE LoopStep
  <2>1. UNCHANGED sends
    BY <1>4 DEF LoopStep, RunTask
  <2> QED
    BY <1>1, <1>4, <2>1, ConnectEstablishedStep, RunTaskStep, EventCloseStep, EventWriteStep
    DEF LoopStep, IInv
<1>5. CASE \E n \in Lengths : \/ Send(n)
                              \/ SendMessage(n)
                              \/ \E f \in FileLengths : SendWithFile(n, f)
  <2>1. sends' \in 0..MaxSends
    BY <1>5, SizesAssumption DEF IInv, Send, SendMessage, SendWithFile
  <2> QED
    BY <1>1, <1>5, <2>1, SendStep, SendMessageStep, SendWithFileStep
<1>6. CASE AppShutdown \/ AppForceClose \/ AppReadControl
  <2>1. UNCHANGED sends
    BY <1>6 DEF AppShutdown, AppForceClose, AppReadControl
  <2> QED
    BY <1>1, <1>6, <2>1, AppShutdownStep, AppForceCloseStep, AppReadControlStep DEF IInv
<1>7. CASE (Deliver \/ PeerReset) /\ UNCHANGED sends
  BY <1>1, <1>7, DeliverStep, PeerResetStep DEF IInv
<1> QED
  BY <1>2, <1>3, <1>4, <1>5, <1>6, <1>7 DEF Next

\* The invariant holds of every behaviour.
LEMMA Invariance == Spec => []IInv
<1>1. IInv /\ [Next]_vars => IInv'
  BY StepKept
<1>2. Init => IInv
  BY InitConnInv, SizesAssumption DEF Init, IInv
<1> QED
  BY <1>1, <1>2, PTL DEF Spec

-----------------------------------------------------------------------------
(* What becomes of a shutdown.                                              *)

\* forceCloseInLoop is queued.
Forced(c) == \E i \in 1..Len(c.tasks) : c.tasks[i] = "forceClose"

\* The FIN has been sent, or EPOLLOUT is watched and handleWrite is to send it,
\* or a close is queued.
Underway(c) == c.state = "kDisconnecting" => c.fin \/ c.isWriting \/ Forced(c)

\* The fields that Underway reads.
Shape(c) ==
    /\ {"state", "fin", "isWriting", "tasks"} \subseteq DOMAIN c
    /\ c.tasks \in Seq({"writeComplete", "forceClose"})

\* What member functions that neither close nor drain do to them.
After(c, r) ==
    /\ Shape(r)
    /\ r.state = c.state
    /\ c.fin => r.fin
    /\ c.isWriting => r.isWriting
    /\ Forced(r) <=> Forced(c)

LEMMA AfterUnderway ==
    ASSUME NEW c, NEW r, After(c, r), Underway(c) PROVE Underway(r)
BY DEF After, Underway

LEMMA AfterFrom ==
    ASSUME NEW c, NEW d, NEW r, After(c, d), After(d, r) PROVE After(c, r)
BY DEF After

\* A functor goes behind the others.
LEMMA QueueForced ==
    ASSUME NEW c, Shape(c), NEW task \in {"writeComplete", "forceClose"}
    PROVE  LET r == Queue(c, task)
           IN  /\ Shape(r)
               /\ r.state = c.state /\ r.fin = c.fin /\ r.isWriting = c.isWriting
               /\ Forced(r) <=> Forced(c) \/ task = "forceClose"
<1> DEFINE r == Queue(c, task)
<1>1. c.tasks \in Seq({"writeComplete", "forceClose"})
  BY DEF Shape
<1>2. PICK u : u = Append(c.tasks, task)
  OBVIOUS
<1>3. /\ u \in Seq({"writeComplete", "forceClose"})
      /\ Len(u) = Len(c.tasks) + 1 /\ Len(c.tasks) \in Nat
      /\ \A i \in 1..Len(c.tasks) : u[i] = c.tasks[i]
      /\ u[Len(c.tasks) + 1] = task
  BY <1>1, <1>2
<1>4. /\ Shape(r) /\ r.tasks = u
      /\ r.state = c.state /\ r.fin = c.fin /\ r.isWriting = c.isWriting
  BY <1>2, <1>3 DEF Queue, Shape
<1> HIDE DEF r
<1>5. Forced(r) <=> Forced(c) \/ task = "forceClose"
  <2>1. \A i \in 1..Len(u) : i \in 1..Len(c.tasks) \/ i = Len(c.tasks) + 1
    BY <1>3
  <2>2. \A i \in 1..Len(c.tasks) : i \in 1..Len(u)
    BY <1>3
  <2>3. Len(c.tasks) + 1 \in 1..Len(u)
    BY <1>3
  <2> QED
    BY <1>3, <1>4, <2>1, <2>2, <2>3 DEF Forced
<1> QED
  BY <1>4, <1>5 DEF r

LEMMA QueueWriteCompleteAfter ==
    ASSUME NEW c, Shape(c)
    PROVE  /\ After(c, QueueWriteComplete(c)) /\ After(c, c)
           /\ QueueWriteComplete(c).fin = c.fin
           /\ QueueWriteComplete(c).isWriting = c.isWriting
BY QueueForced DEF QueueWriteComplete, After

\* The steps that leave the functors alone.
LEMMA PartsAfter ==
    ASSUME NEW c, Shape(c), NEW b
    PROVE  /\ After(c, [c EXCEPT !.sndbuf = b]) /\ After(c, Buffered(c, b))
           /\ After(c, SetSendFile(c, b)) /\ After(c, SetLostFile(c, b))
           /\ After(c, SendFileReset(c))
           /\ After(c, SentFile(c)) /\ After(c, [c EXCEPT !.isWriting = TRUE])
<1>1. After(c, [c EXCEPT !.sndbuf = b]) /\ After(c, [c EXCEPT !.isWriting = TRUE])
  BY DEF Shape, After, Forced
<1>2. After(c, Buffered(c, b))
  BY DEF Shape, After, Forced, Buffered, Strain
<1>3. After(c, SetSendFile(c, b))
  BY DEF Shape, After, Forced, SetSendFile, Strain
<1>l. After(c, SetLostFile(c, b))
  BY DEF Shape, After, Forced, SetLostFile, SetSendFile, Strain
<1>4. After(c, SendFileReset(c))
  BY DEF Shape, After, Forced, SendFileReset, Strain
<1>5. After(c, SentFile(c))
  BY DEF Shape, After, Forced, SentFile, Strain
<1> QED
  BY <1>1, <1>2, <1>3, <1>l, <1>4, <1>5

\* sendInLoop is made of them.
LEMMA SendInLoopAfter ==
    ASSUME NEW c, Shape(c), NEW data PROVE After(c, SendInLoop(c, data))
<1> DEFINE n    == IF Direct(c) THEN Accepted(c, Len(data)) ELSE 0
           sent == [c EXCEPT !.sndbuf = @ \o First(data, n)]
<1>1. After(c, sent)
  BY PartsAfter
<1>2. Shape(sent)
  BY <1>1 DEF After
<1> HIDE DEF sent
<1>3. ASSUME NEW told \in {sent, QueueWriteComplete(sent)}
      PROVE  /\ After(c, told) /\ After(c, SendFileInLoop(told))
             /\ After(c, Buffered(told, Rest(data, n)))
  <2>1. After(c, told)
    BY <1>1, <1>2, <1>3, QueueWriteCompleteAfter, AfterFrom
  <2>2. Shape(told)
    BY <2>1 DEF After
  <2>3. After(c, Buffered(told, Rest(data, n)))
    BY <2>1, <2>2, PartsAfter, AfterFrom
  <2>4. PICK file : file = SentFile(told)
    OBVIOUS
  <2>5. After(c, file) /\ Shape(file)
    BY <2>1, <2>2, <2>4, PartsAfter, AfterFrom DEF After
  <2>6. After(c, [file EXCEPT !.isWriting = TRUE])
    BY <2>5, PartsAfter, AfterFrom
  <2>7. PICK reset : reset = SendFileReset(file)
    OBVIOUS
  <2>8. After(c, reset) /\ Shape(reset)
    BY <2>5, <2>7, PartsAfter, AfterFrom DEF After
  <2>9. After(c, QueueWriteComplete(reset))
    BY <2>8, QueueWriteCompleteAfter, AfterFrom
  <2>10. SendFileInLoop(told) \in
            {told, file, [file EXCEPT !.isWriting = TRUE], QueueWriteComplete(reset)}
    BY <2>4, <2>7 DEF SendFileInLoop
  <2> QED
    BY <2>1, <2>3, <2>5, <2>6, <2>9, <2>10
<1>4. \E told \in {sent, QueueWriteComplete(sent)} :
         SendInLoop(c, data) \in
            {c, told, SendFileInLoop(told), Buffered(told, Rest(data, n))}
  BY DEF SendInLoop, sent
<1>5. After(c, c)
  BY QueueWriteCompleteAfter
<1> QED
  BY <1>3, <1>4, <1>5

\* The FIN of a shutdown is sent at once or left to handleWrite.
LEMMA ShutdownUnderway ==
    ASSUME NEW c, Shape(c), Underway(c)
    PROVE  /\ Shape(Shutdown(c)) /\ Underway(Shutdown(c))
           /\ Forced(Shutdown(c)) <=> Forced(c)
BY DEF Shutdown, ShutdownInLoop, Shape, Underway, Forced

\* And handleWrite sends it when EPOLLOUT is not watched any more.
LEMMA HandleWriteUnderway ==
    ASSUME NEW c, Shape(c), Underway(c)
    PROVE  Underway(HandleWrite(c)) /\ (Forced(HandleWrite(c)) <=> Forced(c))
<1>1. ASSUME NEW d, After(c, d)
      PROVE  /\ Underway(d) /\ Underway(Drained(d))
             /\ Forced(d) <=> Forced(c)
             /\ Forced(Drained(d)) <=> Forced(c)
  <2>1. PICK e : e = [d EXCEPT !.isWriting = FALSE]
    OBVIOUS
  <2>2. Shape(e) /\ e.state = d.state /\ (Forced(e) <=> Forced(c))
    BY <1>1, <2>1 DEF After, Shape, Forced
  <2>3. PICK f : f = QueueWriteComplete(e)
    OBVIOUS
  <2>4. Shape(f) /\ f.state = d.state /\ (Forced(f) <=> Forced(c))
    BY <2>2, <2>3, QueueWriteCompleteAfter DEF After
  <2>5. Drained(d) = IF d.state = "kDisconnecting" THEN ShutdownInLoop(f) ELSE f
    BY <2>1, <2>3 DEF Drained
  <2>6. Underway(Drained(d)) /\ (Forced(Drained(d)) <=> Forced(f))
    BY <2>4, <2>5 DEF Underway, ShutdownInLoop, Shape, Forced
  <2> QED
    BY <1>1, <2>4, <2>6, AfterUnderway DEF After
<1> DEFINE n   == Accepted(c, Len(c.outputBuffer))
           out == [c EXCEPT !.sndbuf = @ \o First(c.outputBuffer, n),
                            !.outputBuffer = Rest(@, n)]
<1>2. After(c, out)
  BY DEF After, Shape, Forced
<1>3. After(c, SentFile(c)) /\ After(c, c)
  BY PartsAfter, QueueWriteCompleteAfter
<1>4. After(c, SendFileReset(SentFile(c)))
  <2>1. PICK d : d = SentFile(c)
    OBVIOUS
  <2>2. After(c, d) /\ Shape(d)
    BY <1>3, <2>1 DEF After
  <2> QED
    BY <2>1, <2>2, PartsAfter, AfterFrom
<1> HIDE DEF out
<1>5. HandleWrite(c) \in {c, out, Drained(out), SentFile(c), Drained(SendFileReset(SentFile(c)))}
  BY DEF HandleWrite, out
<1> QED
  BY <1>1, <1>2, <1>3, <1>4, <1>5

\* What the loop, the network and the peer do, whatever the application is.
LEMMA ConnectionUnderway ==
    ASSUME Shape(conn), Underway(conn),
           \/ ConnectEstablished \/ EventRead \/ EventHup \/ EventWrite
           \/ Deliver \/ PeerFin \/ PeerReset \/ UNCHANGED connVars
    PROVE  Underway(conn') /\ (Forced(conn') <=> Forced(conn))
<1>1. CASE ConnectEstablished \/ Deliver \/ PeerFin \/ PeerReset \/ UNCHANGED connVars
  BY <1>1 DEF ConnectEstablished, Deliver, PeerFin, PeerReset, connVars,
              Shape, Underway, Forced
<1>2. CASE EventRead \/ EventHup
  <2>1. conn' = HandleClose(conn)
    BY <1>2 DEF EventRead, EventHup
  <2>2. conn'.state = "kDisconnected" /\ conn'.tasks = conn.tasks
    BY <2>1 DEF HandleClose, Shape
  <2> QED
    BY <2>2 DEF Underway, Forced
<1>3. CASE EventWrite
  BY <1>3, HandleWriteUnderway DEF EventWrite
<1> QED
  BY <1>1, <1>2, <1>3

LEMMA RunTaskUnderway ==
    ASSUME Shape(conn), Underway(conn), RunTask PROVE Underway(conn')
<1> DEFINE s == conn.tasks
<1>1. s \in Seq({"writeComplete", "forceClose"}) /\ s # <<>>
  BY DEF Shape, RunTask
<1>2. PICK u : u = Tail(s)
  OBVIOUS
<1>3. /\ Len(u) = Len(s) - 1 /\ Len(s) \in Nat
      /\ \A i \in 1..Len(u) : u[i] = s[i + 1]
      /\ Head(s) = s[1]
  BY <1>1, <1>2
<1>4. PICK d : d = [conn EXCEPT !.tasks = u]
  OBVIOUS
<1>5. /\ d.tasks = u /\ d.state = conn.state /\ d.fin = conn.fin
      /\ d.isWriting = conn.isWriting /\ "state" \in DOMAIN d
  BY <1>4 DEF Shape
<1>6. conn' = IF Head(s) = "forceClose" THEN ForceCloseInLoop(d) ELSE d
  BY <1>2, <1>4 DEF RunTask
<1>7. CASE Head(s) = "forceClose"
  <2>1. conn' = ForceCloseInLoop(d)
    BY <1>6, <1>7
  <2> QED
    BY <1>5, <2>1 DEF ForceCloseInLoop, HandleClose, Underway
<1>8. CASE Head(s) # "forceClose"
  <2>1. Forced(conn) => Forced(d)
    <3> SUFFICES ASSUME NEW i \in 1..Len(s), s[i] = "forceClose" PROVE Forced(d)
      BY DEF Forced
    <3>1. i - 1 \in 1..Len(u) /\ u[i - 1] = s[i]
      BY <1>3, <1>8
    <3> QED
      BY <1>5, <3>1 DEF Forced
  <2> QED
    BY <1>5, <1>6, <1>8, <2>1 DEF Underway
<1> QED
  BY <1>7, <1>8

LEMMA ConnectionShape == ConnInv => Shape(conn)
<1> SUFFICES ASSUME ConnInv PROVE Shape(conn)
  OBVIOUS
<1>1. conn \in ConnType
  BY DEF ConnInv, Good, ConnOK
<1>2. {"state", "fin", "isWriting", "tasks"} \subseteq DOMAIN conn
  BY <1>1 DEF ConnType
<1> QED
  BY <1>1, <1>2, Fields DEF Shape

\* And what the application does.
LEMMA StepUnderway ==
    ASSUME IInv, Underway(conn), [Next]_vars PROVE Underway(conn')
<1>1. Shape(conn)
  BY ConnectionShape DEF IInv
<1>2. CASE \E n \in Lengths : \/ Send(n)
                              \/ SendMessage(n)
                              \/ \E f \in FileLengths : SendWithFile(n, f)
  <2>1. \E c, data : /\ c = conn \/ \E b : c = SetSendFile(conn, b)
                     /\ conn' = SendInLoop(c, data) \/ conn' = c
    BY <1>2 DEF Send, SendMessage, SendWithFile, SendBuffer
  <2>2. PICK c, data : /\ c = conn \/ \E b : c = SetSendFile(conn, b)
                       /\ conn' = SendInLoop(c, data) \/ conn' = c
    BY <2>1
  <2>3. After(conn, c) /\ Shape(c)
    <3>1. ASSUME NEW b PROVE After(conn, SetSendFile(conn, b))
      BY <1>1, PartsAfter
    <3>2. After(conn, conn)
      BY <1>1, QueueWriteCompleteAfter
    <3>3. After(conn, c)
      BY <2>2, <3>1, <3>2
    <3> QED
      BY <3>3 DEF After
  <2>4. After(conn, conn')
    BY <2>2, <2>3, SendInLoopAfter, AfterFrom
  <2> QED
    BY <2>4, AfterUnderway
<1>3. CASE AppShutdown
  BY <1>1, <1>3, ShutdownUnderway DEF AppShutdown
<1>4. CASE AppForceClose
  <2>1. PICK d : d = [conn EXCEPT !.state = "kDisconnecting"]
    OBVIOUS
  <2>2. Shape(d)
    BY <1>1, <2>1 DEF Shape
  <2>3. conn' = Queue(d, "forceClose")
    BY <1>4, <2>1 DEF AppForceClose, ForceClose
  <2> QED
    BY <2>2, <2>3, QueueForced DEF Underway
<1>5. CASE AppReadControl
  BY <1>1, <1>5 DEF AppReadControl, StartRead, StopRead, Watch, Shape, Underway, Forced
<1>6. CASE RunTask
  BY <1>1, <1>6, RunTaskUnderway
<1>7. CASE \/ ConnectEstablished \/ EventRead \/ EventHup \/ EventWrite
           \/ Deliver \/ PeerFin \/ PeerReset \/ UNCHANGED vars
  BY <1>1, <1>7, ConnectionUnderway DEF vars
<1> QED
  BY <1>2, <1>3, <1>4, <1>5, <1>6, <1>7 DEF Next, LoopStep

-----------------------------------------------------------------------------
(* The theorems.                                                            *)

\* A concatenation begins with its first part.
LEMMA FirstOfConcat ==
    ASSUME NEW a \in Bytes, NEW b \in Bytes
    PROVE  /\ Len(a) <= Len(a \o b)
           /\ First(a \o b, Len(a)) = a
BY ConcatProperties, SubSeqProperties DEF First, Bytes

\* What the invariant says of every connection, whatever its application.
LEMMA ConnTyped == ConnInv => ConnTypeOK
BY DEF ConnInv, Good, ConnOK, ConnTypeOK

\* The bytes outside of the application are those it has handed over.
LEMMA StreamFollows == ConnInv => StreamIntact
<1> SUFFICES ASSUME ConnInv, Undisturbed
             PROVE  /\ Len(Stream) + conn.sendLen = Len(handed)
                    /\ Stream = First(handed, Len(Stream))
  BY DEF StreamIntact
<1>1. /\ conn.sndbuf \in Bytes /\ conn.outputBuffer \in Bytes /\ conn.file \in Bytes
      /\ conn.sendLen \in Nat /\ received \in Bytes
      /\ Intact(conn, received, handed) /\ Up(conn)
  BY Fields DEF ConnInv, Good, ConnOK, Undisturbed, Open, Up
<1>2. Stream \in Bytes
  BY <1>1, ConcatBytes DEF Stream
<1>3. Unsent(conn) \in Bytes /\ Len(Unsent(conn)) = conn.sendLen
  <2>1. <<>> \in Bytes /\ Len(<<>>) = 0
    BY EmptySeq DEF Bytes
  <2>2. conn.sendLen > 0 => conn.sendLen = Len(conn.file)
    BY <1>1 DEF Intact, WholeFile
  <2> QED
    BY <1>1, <2>1, <2>2 DEF Unsent
<1>4. handed = Stream \o Unsent(conn)
  BY <1>1 DEF Intact, Carried, Stream
<1> QED
  BY ZenonT(20), <1>2, <1>3, <1>4, FirstOfConcat, ConcatBytes

\* A FIN has nothing left behind it.
LEMMA FinFollows == ConnInv /\ Underway(conn) => FinAfterData
<1> SUFFICES ASSUME ConnInv, Undisturbed, conn.fin
             PROVE  received \o conn.sndbuf = handed
  BY DEF FinAfterData, Underway, Forced
<1>1. /\ conn.sndbuf \in Bytes /\ conn.outputBuffer \in Bytes /\ received \in Bytes
      /\ conn.sendLen \in Nat /\ Intact(conn, received, handed) /\ Up(conn)
  BY Fields DEF ConnInv, Good, ConnOK, Undisturbed, Open, Up
<1>2. conn.outputBuffer = <<>> /\ conn.sendLen = 0
  BY <1>1 DEF Intact
<1>3. handed = received \o conn.sndbuf \o <<>> \o <<>>
  BY <1>1, <1>2 DEF Intact, Carried, Unsent
<1> QED
  BY <1>1, <1>3, ConcatBytes

\* EPOLLOUT is watched exactly while something waits to be written.
LEMMA WritingFollows == ConnInv => WritingIffPending
BY DEF ConnInv, Good, Intact, WritingIffPending, Undisturbed, Open, Up

\* Closed or not, what the peer has read is a prefix.
LEMMA PrefixFollows == ConnInv => (~conn.strained => PeerReadsPrefix)
<1> SUFFICES ASSUME ConnInv, ~conn.strained
             PROVE  /\ Len(received) <= Len(handed)
                    /\ received = First(handed, Len(received))
  BY DEF PeerReadsPrefix
<1>1. conn.sndbuf \in Bytes /\ received \in Bytes /\ Delivered(conn, received, handed)
  BY Fields DEF ConnInv, Good, ConnOK
<1>2. PICK rest \in Bytes : handed = (received \o conn.sndbuf) \o rest
  BY <1>1 DEF Delivered
<1>3. handed = received \o (conn.sndbuf \o rest)
  BY <1>1, <1>2, Assoc
<1>4. conn.sndbuf \o rest \in Bytes
  BY <1>1, ConcatBytes
<1> QED
  BY <1>1, <1>3, <1>4, FirstOfConcat

\* Every field keeps its type, the kernel's buffer its size, and a closed
\* connection watches nothing.
THEOREM TypeCorrect == Spec => []TypeOK
<1>1. IInv => TypeOK
  BY ConnTyped DEF IInv, TypeOK
<1> QED
  BY Invariance, <1>1, PTL

\* sendInLoop and handleWrite lose, repeat and reorder nothing, whatever the
\* buffers, the files and the interleaving with epoll and the peer.
THEOREM StreamNeverTorn == Spec => []StreamIntact
<1>1. IInv => StreamIntact
  BY StreamFollows DEF IInv
<1> QED
  BY Invariance, <1>1, PTL

\* When the FIN of shutdown() is sent nothing is left in user space, and until
\* then something is watched or queued that will lead to it or to a close
\* (TcpConnection.cpp:170-189, 306-313, 332-337).
THEOREM FinComesLast == Spec => []FinAfterData
<1>1. Init => Underway(conn)
  BY DEF Init, ConnInit, NewConnection, Underway
<1>2. IInv /\ Underway(conn) /\ [Next]_vars => Underway(conn)'
  BY StepUnderway
<1>3. Spec => []Underway(conn)
  BY Invariance, <1>1, <1>2, PTL DEF Spec
<1>4. IInv /\ Underway(conn) => FinAfterData
  BY FinFollows DEF IInv
<1> QED
  BY Invariance, <1>3, <1>4, PTL

\* Whatever sendInLoop and handleWrite leave behind, EPOLLOUT is watched
\* exactly while something waits to be written.
THEOREM WritingWatchedWhenNeeded == Spec => []WritingIffPending
<1>1. IInv => WritingIffPending
  BY WritingFollows DEF IInv
<1> QED
  BY Invariance, <1>1, PTL

\* writeCompleteCallback_ is never queued with bytes or a file left to send.
THEOREM CompletionIsTrue == Spec => CompleteWhenEmpty
<1>1. IInv /\ [Next]_vars =>
        [Len(conn'.tasks) > Len(conn.tasks) /\ conn'.tasks[Len(conn'.tasks)] = "writeComplete"
           => conn'.strained \/ (conn'.outputBuffer = <<>> /\ conn'.sendLen = 0)]_vars
  BY StepKept DEF Completes
<1> QED
  BY Invariance, <1>1, PTL DEF Spec, CompleteWhenEmpty

\* Closed or reset in the middle, too, the peer has read a prefix of what was
\* handed over, until a file has met one of the conditions of Strain: a second
\* sendfile, a header that had to wait for EPOLLOUT, setSendFile over another
\* file or too late, sendFileReset before its end.
THEOREM PeerReadsNoGap == Spec => [](~conn.strained => PeerReadsPrefix)
<1>1. IInv => (~conn.strained => PeerReadsPrefix)
  BY PrefixFollows DEF IInv
<1> QED
  BY Invariance, <1>1, PTL

-----------------------------------------------------------------------------
(* Connections without files.                                               *)

NoFile(c) == ~c.sendFile /\ c.sendLen = 0 /\ ~c.strained

\* Without setSendFile there is nothing to strain.
LEMMA NoFileKept ==
    ASSUME FileLengths = {}, IInv, NoFile(conn), [Next]_vars
    PROVE  NoFile(conn')
<1>1. conn \in ConnType
  BY DEF IInv, ConnInv, Good, ConnOK
<1>2. ASSUME NEW c \in ConnType, NoFile(c), NEW data PROVE NoFile(SendInLoop(c, data))
  BY <1>2 DEF NoFile, SendInLoop, Buffered, Strain, QueueWriteComplete, Queue, ConnType
<1>3. CASE \E n \in Lengths : Send(n) \/ SendMessage(n)
  BY <1>1, <1>2, <1>3 DEF Send, SendMessage, SendBuffer
<1>4. CASE AppShutdown \/ AppForceClose \/ AppReadControl
  BY <1>1, <1>4 DEF AppShutdown, AppForceClose, AppReadControl, Shutdown, ShutdownInLoop,
         ForceClose, Queue, StartRead, StopRead, Watch, NoFile, ConnType
<1>5. CASE RunTask
  BY <1>1, <1>5 DEF RunTask, ForceCloseInLoop, HandleClose, NoFile, ConnType
<1>6. CASE ConnectEstablished \/ EventRead \/ EventHup \/ Deliver \/ PeerFin \/ PeerReset
  BY <1>1, <1>6 DEF ConnectEstablished, EventRead, EventHup, HandleClose, Deliver, PeerFin,
         PeerReset, NoFile, ConnType
<1>7. CASE EventWrite
  BY <1>1, <1>7 DEF EventWrite, HandleWrite, Drained, ShutdownInLoop, QueueWriteComplete,
         Queue, NoFile, ConnType
<1>8. CASE UNCHANGED vars
  BY <1>8 DEF vars, connVars
<1> QED
  BY <1>3, <1>4, <1>5, <1>6, <1>7, <1>8 DEF Next, LoopStep

\* As long as no files are sent the peer reads a prefix of what was handed over,
\* with buffers of any size, shutdown, forced closes and resets at any time.
THEOREM DataReadInOrder == FileLengths = {} => (Spec => []PeerReadsPrefix)
<1> SUFFICES ASSUME FileLengths = {} PROVE Spec => []PeerReadsPrefix
  OBVIOUS
<1>1. Init => NoFile(conn)
  BY DEF Init, ConnInit, NewConnection, NoFile
<1>2. IInv /\ NoFile(conn) /\ [Next]_vars => NoFile(conn)'
  BY NoFileKept
<1>3. IInv /\ NoFile(conn) => PeerReadsPrefix
  BY PrefixFollows DEF IInv, NoFile
<1> QED
  BY Invariance, <1>1, <1>2, <1>3, PTL DEF Spec
=============================================================================
