--------------------------- MODULE AsyncLogProofs ---------------------------
(***************************************************************************)
(* AsyncLog for buffers and files of any size, any overload limit from 2   *)
(* on and any number of lines: the assertions of threadFunc hold, and no   *)
(* line is lost, repeated or overtaken on its way to the files, unless an  *)
(* overload drops it.                                                      *)
(*                                                                         *)
(* The lines are spread over the files, the file buffer and lists of       *)
(* buffers, which FlattenSeq joins.  What it joins is known by induction   *)
(* over the length, here as the absence of a least counterexample.         *)
(***************************************************************************)
EXTENDS AsyncLog, SequenceTheorems, WellFoundedInduction, TLAPS

\* Why there are enough written buffers: the spare of the front end is gone
\* only if a full buffer has been queued since the last exchange, so that the
\* exchange that replaces it takes at least two.
SparesInv ==
    /\ BuffersOK /\ lines \in Nat
    /\ nextBuffer # null => nextBuffer = <<Empty>>
    /\ nextBuffer = null => buffers # <<>>
    /\ pc \in States
    /\ pc \in {"test", "lock", "wait", "exit", "done"} =>
          newBuffer1 = <<Empty>> /\ newBuffer2 = <<Empty>> /\ buffersToWrite = <<>>
    /\ pc \in {"drop", "write", "refill"} =>
          /\ newBuffer1 = null
          /\ newBuffer2 = null \/ newBuffer2 = <<Empty>>
          /\ buffersToWrite # <<>>
          /\ newBuffer2 = null => Len(buffersToWrite) >= 2

-----------------------------------------------------------------------------
\* A buffer that has just been made holds no line.
LEMMA EmptyBuffer == Empty \in Buffer /\ <<Empty>> \in Seq(Buffer) /\ Len(<<Empty>>) = 1
  <1>1. Empty \in Buffer
    BY EmptySeq DEF Empty, Buffer
  <1>2. QED
    BY <1>1

\* A unique_ptr that has been moved from holds no buffer.
LEMMA NullLength == Len(null) = 0 /\ Len(<<>>) = 0
  BY DEF null

\* first(v, 2) as resize(2) and erase use it.
LEMMA FirstTwo ==
    ASSUME NEW s \in Seq(Buffer), Len(s) > 2
    PROVE  First(s, 2) \in Seq(Buffer) /\ Len(First(s, 2)) = 2
  BY DEF First

\* The overload leaves buffers: all of them, or two.
LEMMA KeptOK ==
    ASSUME buffersToWrite \in Seq(Buffer)
    PROVE  /\ Kept \in Seq(Buffer)
           /\ Kept = buffersToWrite \/ Len(Kept) = 2
  <1>1. CASE Len(buffersToWrite) > Overload
    <2>1. Len(buffersToWrite) > 2
      BY <1>1, LogAssumption
    <2>2. QED
      BY <1>1, <2>1, FirstTwo DEF Kept
  <1>2. CASE ~(Len(buffersToWrite) > Overload)
    BY <1>2 DEF Kept
  <1>3. QED
    BY <1>1, <1>2

\* Before the first round both threads have their spares.
LEMMA SparesInit == Init => SparesInv
  <1> SUFFICES ASSUME Init PROVE SparesInv
    OBVIOUS
  <1>1. BuffersOK
    BY EmptyBuffer DEF Init, BuffersOK
  <1>2. nextBuffer = <<Empty>> /\ <<Empty>> # null
    BY EmptyBuffer DEF Init, null
  <1>3. QED
    BY <1>1, <1>2 DEF Init, SparesInv, States

\* append leaves the front end with a current buffer, and takes the spare one
\* only to queue a full one.
LEMMA SparesAppend ==
    ASSUME SparesInv, NEW line \in Nat, AppendTo(line)
    PROVE  /\ currentBuffer' \in Seq(Buffer) /\ Len(currentBuffer') = 1
           /\ nextBuffer' \in Seq(Buffer) /\ Len(nextBuffer') <= 1
           /\ buffers' \in Seq(Buffer)
           /\ nextBuffer' # null => nextBuffer' = <<Empty>>
           /\ nextBuffer' = null => buffers' # <<>>
  <1> DEFINE buffer == currentBuffer[1]
  <1>1. buffer \in Buffer
    <2>1. currentBuffer \in Seq(Buffer) /\ 1 \in 1..Len(currentBuffer)
      BY DEF SparesInv, BuffersOK
    <2>2. QED
      BY <2>1, ElementOfSeq
  <1>2. \A b \in Buffer : b \o <<line>> \in Buffer /\ << b \o <<line>> >> \in Seq(Buffer)
    BY DEF Buffer
  <1>3. CASE Len(buffer) < LinesPerBuffer
    <2>1. currentBuffer' = << buffer \o <<line>> >> /\ UNCHANGED <<nextBuffer, buffers>>
      BY <1>3 DEF AppendTo
    <2>2. QED
      BY <1>1, <1>2, <2>1 DEF SparesInv, BuffersOK
  <1>4. CASE ~(Len(buffer) < LinesPerBuffer)
    <2>1. /\ buffers' = buffers \o currentBuffer
          /\ nextBuffer' = null
          /\ currentBuffer' = IF nextBuffer # null
                              THEN << nextBuffer[1] \o <<line>> >>
                              ELSE << Empty \o <<line>> >>
      BY <1>4 DEF AppendTo
    <2>2. currentBuffer' \in Seq(Buffer) /\ Len(currentBuffer') = 1
      BY <1>2, <2>1, EmptyBuffer DEF SparesInv
    <2>3. buffers' \in Seq(Buffer) /\ buffers' # <<>>
      BY <2>1 DEF SparesInv, BuffersOK
    <2>4. nextBuffer' \in Seq(Buffer) /\ Len(nextBuffer') <= 1
      BY <2>1 DEF null
    <2>5. QED
      BY <2>1, <2>2, <2>3, <2>4
  <1>5. QED
    BY <1>3, <1>4

\* A line, FATAL or not, leaves the locals of the back end alone.
LEMMA SparesLine == SparesInv /\ (AppendLine \/ AppendFatal) => SparesInv'
  <1> SUFFICES ASSUME SparesInv, AppendLine \/ AppendFatal PROVE SparesInv'
    OBVIOUS
  <1>1. /\ lines' = lines + 1 /\ AppendTo(lines')
        /\ UNCHANGED <<pc, newBuffer1, newBuffer2, buffersToWrite>>
    BY DEF AppendLine, AppendFatal, back
  <1>2. lines' \in Nat
    BY <1>1 DEF SparesInv
  <1>3. /\ currentBuffer' \in Seq(Buffer) /\ Len(currentBuffer') = 1
        /\ nextBuffer' \in Seq(Buffer) /\ Len(nextBuffer') <= 1
        /\ buffers' \in Seq(Buffer)
        /\ nextBuffer' # null => nextBuffer' = <<Empty>>
        /\ nextBuffer' = null => buffers' # <<>>
    BY <1>1, <1>2, SparesAppend
  <1>4. QED
    BY <1>1, <1>2, <1>3 DEF SparesInv, BuffersOK

\* The exchange gives the second spare away only together with a full buffer.
LEMMA SparesExchange ==
    ASSUME SparesInv, pc \in {"lock", "wait"}, Exchange
    PROVE  SparesInv'
  <1> USE DEF Exchange
  <1>1. newBuffer1 = <<Empty>> /\ newBuffer2 = <<Empty>> /\ <<Empty>> # null
    BY EmptyBuffer DEF SparesInv, null
  <1>2. /\ buffersToWrite' \in Seq(Buffer)
        /\ Len(buffersToWrite') = Len(buffers) + 1
        /\ Len(buffers) \in Nat
        /\ buffersToWrite' # <<>>
    <2>1. buffersToWrite' = buffers \o currentBuffer
      OBVIOUS
    <2>2. buffers \in Seq(Buffer) /\ currentBuffer \in Seq(Buffer) /\ Len(currentBuffer) = 1
      BY DEF SparesInv, BuffersOK
    <2> HIDE DEF Exchange
    <2>3. buffers \o currentBuffer \in Seq(Buffer) /\ Len(buffers \o currentBuffer) = Len(buffers) + 1
      BY <2>2, ConcatProperties
    <2>4. QED
      BY <2>1, <2>2, <2>3, NullLength
  <1>3. nextBuffer = null => Len(buffersToWrite') >= 2
    <2>1. nextBuffer = null => Len(buffers) >= 1
      BY DEF SparesInv, BuffersOK
    <2>2. Len(buffers) \in Nat
      BY DEF SparesInv, BuffersOK
    <2>3. QED
      BY <1>2, <2>1, <2>2
  <1>4. nextBuffer' = <<Empty>> /\ nextBuffer' # null
    BY <1>1 DEF SparesInv
  <1>5. newBuffer2' = (IF nextBuffer = null THEN null ELSE <<Empty>>)
    BY <1>1
  <1>6. BuffersOK'
    BY <1>1, <1>2, <1>4, <1>5, EmptyBuffer DEF BuffersOK, null
  <1>7. QED
    BY <1>1, <1>2, <1>3, <1>4, <1>5, <1>6 DEF SparesInv, States

\* Dropping buffers leaves enough to refill the spares.
LEMMA SparesDrop == SparesInv /\ Drop => SparesInv'
  <1> SUFFICES ASSUME SparesInv, Drop PROVE SparesInv'
    OBVIOUS
  <1>1. /\ pc = "drop" /\ pc' = "write"
        /\ UNCHANGED <<currentBuffer, nextBuffer, buffers, newBuffer1, newBuffer2, lines>>
        /\ buffersToWrite' = Kept
    BY DEF Drop, front
  <1>2. buffersToWrite \in Seq(Buffer) /\ Len(buffersToWrite) >= 1
    BY <1>1 DEF SparesInv, BuffersOK
  <1>3. Kept \in Seq(Buffer) /\ (Kept = buffersToWrite \/ Len(Kept) = 2)
    BY <1>2, KeptOK
  <1>4. Len(buffersToWrite') = Len(buffersToWrite) \/ Len(buffersToWrite') = 2
    BY <1>1, <1>3
  <1>5. buffersToWrite' # <<>>
    <2>1. CASE Kept = buffersToWrite
      BY <1>1, <1>2, <2>1
    <2>2. CASE Len(Kept) = 2
      BY <1>1, <2>2
    <2>3. QED
      BY <1>3, <2>1, <2>2
  <1>6. BuffersOK'
    BY <1>1, <1>3 DEF SparesInv, BuffersOK
  <1>7. newBuffer2' = null => Len(buffersToWrite') >= 2
    BY <1>1, <1>4 DEF SparesInv
  <1>8. QED
    BY <1>1, <1>5, <1>6, <1>7 DEF SparesInv, States

\* The refilled spares are empty.
LEMMA SparesRefill == SparesInv /\ Refill => SparesInv'
  <1> SUFFICES ASSUME SparesInv, Refill PROVE SparesInv'
    OBVIOUS
  <1>1. /\ pc = "refill" /\ pc' = "test"
        /\ UNCHANGED <<currentBuffer, nextBuffer, buffers, lines>>
        /\ buffersToWrite' = <<>>
    BY DEF Refill, front
  <1>2. newBuffer1' = <<Empty>> /\ newBuffer2' = <<Empty>>
    BY <1>1, EmptyBuffer DEF SparesInv, Refill, Reset, null
  <1>3. QED
    BY <1>1, <1>2, EmptyBuffer DEF SparesInv, BuffersOK, States

\* Every step keeps the spares.
LEMMA SparesNext == SparesInv /\ [Next]_vars => SparesInv'
  <1> SUFFICES ASSUME SparesInv, [Next]_vars PROVE SparesInv'
    OBVIOUS
  <1>1. CASE AppendLine \/ AppendFatal
    BY <1>1, SparesLine
  <1>2. CASE Stop \/ Tick
    BY <1>2 DEF Stop, Tick, front, back, SparesInv, BuffersOK
  <1>3. CASE TestRunning
    BY <1>3 DEF TestRunning, front, back, SparesInv, BuffersOK, States
  <1>4. CASE TakeFull
    BY <1>4, SparesExchange DEF TakeFull
  <1>5. CASE Wait
    BY <1>5 DEF Wait, front, back, SparesInv, BuffersOK, States
  <1>6. CASE Wake
    BY <1>6, SparesExchange DEF Wake
  <1>7. CASE Drop
    BY <1>7, SparesDrop
  <1>8. CASE Write
    BY <1>8 DEF Write, front, SparesInv, BuffersOK, States
  <1>9. CASE Refill
    BY <1>9, SparesRefill
  <1>10. CASE Exit
    BY <1>10 DEF Exit, front, SparesInv, BuffersOK, States
  <1>11. CASE Abort
    BY <1>11 DEF Abort, front, back, SparesInv, BuffersOK, States
  <1>12. CASE UNCHANGED vars
    BY <1>12 DEF vars, front, back, SparesInv, BuffersOK
  <1>13. QED
    BY <1>1, <1>2, <1>3, <1>4, <1>5, <1>6, <1>7, <1>8, <1>9, <1>10, <1>11, <1>12 DEF Next, BackStep

\* What the assertions of threadFunc need of it.
LEMMA SparesImplied == SparesInv => SparesReady
  <1> SUFFICES ASSUME SparesInv PROVE SparesReady
    OBVIOUS
  <1>1. Len(buffersToWrite) \in Nat /\ (buffersToWrite # <<>> => Len(buffersToWrite) >= 1)
    BY DEF SparesInv, BuffersOK
  <1>2. pc = "refill" => Len(buffersToWrite) >= (IF newBuffer1 = null THEN 1 ELSE 0)
                                               + (IF newBuffer2 = null THEN 1 ELSE 0)
    BY <1>1 DEF SparesInv
  <1>3. QED
    BY <1>2 DEF SparesInv, SparesReady

-----------------------------------------------------------------------------
(* The types, with them that a buffer which is written exists.             *)

\* The types of the files, operation by operation.
LEMMA NewLogFileType == \A s \in Seconds : NewLogFile(s) \in LogFileType
  BY EmptySeq DEF NewLogFile, LogFileType

\* flush.
LEMMA FlushType ==
    ASSUME NEW log \in LogFileType
    PROVE  Flush(log) \in LogFileType
  <1>1. /\ log.disk \in [Seconds -> Seq(Nat)] /\ log.name \in Seconds
        /\ log.buffer \in Seq(Nat) /\ log.writeLen \in Nat
    BY DEF LogFileType
  <1>2. log.disk[log.name] \o log.buffer \in Seq(Nat)
    BY <1>1, ConcatProperties
  <1>3. [log.disk EXCEPT ![log.name] = log.disk[log.name] \o log.buffer]
            \in [Seconds -> Seq(Nat)]
    BY <1>1, <1>2
  <1>4. QED
    BY <1>1, <1>3, EmptySeq DEF Flush, LogFileType

\* WriteFile::append, whatever part of the data stdio passes on.
LEMMA FileAppendType ==
    ASSUME NEW log \in LogFileType, NEW data \in Seq(Nat),
           NEW passed \in 0..(Len(log.buffer) + Len(data))
    PROVE  FileAppend(log, data, passed) \in LogFileType
  <1> DEFINE held == log.buffer \o data
             disk == [log.disk EXCEPT ![log.name] = log.disk[log.name] \o SubSeq(held, 1, passed)]
  <1>1. /\ log.disk \in [Seconds -> Seq(Nat)] /\ log.name \in Seconds
        /\ log.buffer \in Seq(Nat) /\ log.writeLen \in Nat
    BY DEF LogFileType
  <1>2. held \in Seq(Nat) /\ Len(held) = Len(log.buffer) + Len(data)
    BY <1>1, ConcatProperties
  <1>3. SubSeq(held, 1, passed) \in Seq(Nat) /\ SubSeq(held, passed + 1, Len(held)) \in Seq(Nat)
    <2>1. /\ 1 \in 1..(Len(held) + 1) /\ passed \in (1 - 1)..Len(held)
          /\ passed + 1 \in 1..(Len(held) + 1) /\ Len(held) \in ((passed + 1) - 1)..Len(held)
      BY <1>1, <1>2
    <2> HIDE DEF held
    <2>2. SubSeq(held, 1, passed) \in Seq(Nat)
      BY <1>2, <2>1, SubSeqProperties
    <2>3. SubSeq(held, passed + 1, Len(held)) \in Seq(Nat)
      BY <1>2, <2>1, SubSeqProperties
    <2>4. QED
      BY <2>2, <2>3
  <1>4. log.disk[log.name] \o SubSeq(held, 1, passed) \in Seq(Nat)
    BY <1>1, <1>3, ConcatProperties
  <1>5. disk \in [Seconds -> Seq(Nat)]
    BY <1>1, <1>4
  <1>6. log.writeLen + Len(data) \in Nat
    BY <1>1
  <1>7. QED
    BY <1>1, <1>3, <1>5, <1>6 DEF LogFileType, FileAppend

\* append_unlocked, with the roll it may end in.
LEMMA AppendUnlockedType ==
    ASSUME NEW log \in LogFileType, NEW data \in Seq(Nat), NEW s \in Seconds,
           NEW passed \in 0..(Len(log.buffer) + Len(data))
    PROVE  AppendUnlocked(log, data, passed, s) \in LogFileType
  <1>1. PICK appended \in LogFileType : appended = FileAppend(log, data, passed)
    BY FileAppendType
  <1>2. RollFile(appended, s) \in LogFileType
    BY FlushType DEF RollFile, LogFileType
  <1>3. QED
    BY <1>1, <1>2 DEF AppendUnlocked

TypeInv ==
    /\ SparesInv /\ TypeOK
    /\ pc = "write" => written < Len(buffersToWrite)
    /\ pc \in {"test", "lock", "wait", "drop", "exit", "done"} => written = 0

\* The types at the start.
LEMMA TypeInit == Init => TypeInv
  <1> SUFFICES ASSUME Init PROVE TypeInv
    OBVIOUS
  <1>1. second \in Seconds /\ output \in LogFileType
    BY RollAssumption, NewLogFileType DEF Init, Seconds
  <1>2. SparesInv /\ BuffersOK /\ pc \in States
    BY SparesInit DEF SparesInv
  <1>3. /\ running \in BOOLEAN /\ overloaded \in BOOLEAN /\ pc = "test"
        /\ written = 0 /\ fatal = 0 /\ lines = 0 /\ Len(buffersToWrite) = 0
    BY NullLength DEF Init
  <1>4. written \in 0..Len(buffersToWrite) /\ fatal \in 0..lines /\ lines \in 0..MaxLines
    BY <1>3, LogAssumption
  <1>5. QED
    BY <1>1, <1>2, <1>3, <1>4 DEF TypeInv, TypeOK

\* The types, action by action.
LEMMA TypeNext == TypeInv /\ [Next]_vars => TypeInv'
  <1> SUFFICES ASSUME TypeInv, [Next]_vars PROVE TypeInv'
    OBVIOUS
  <1>1. SparesInv' /\ BuffersOK' /\ pc' \in States
    BY SparesNext DEF TypeInv, SparesInv
  <1> USE <1>1, LogAssumption DEF TypeInv, TypeOK, States
  <1>2. CASE AppendLine
    BY <1>2 DEF AppendLine, back
  <1>3. CASE AppendFatal
    BY <1>3 DEF AppendFatal, back
  <1>4. CASE Abort
    BY <1>4 DEF Abort, back
  <1>5. CASE Stop
    BY <1>5 DEF Stop, back
  <1>6. CASE Tick
    BY <1>6, RollAssumption DEF Tick, back, Seconds
  <1>7. CASE TestRunning
    BY <1>7 DEF TestRunning, back
  <1>8. CASE TakeFull \/ Wake
    <2>1. written = 0 /\ pc' = "drop" /\ UNCHANGED <<running, written, output, second, fatal, lines, overloaded>>
      BY <1>8 DEF TakeFull, Wake, Exchange
    <2>2. Len(buffersToWrite') \in Nat
      BY DEF BuffersOK
    <2>3. QED
      BY <2>1, <2>2
  <1>9. CASE Wait
    BY <1>9 DEF Wait, back
  <1>10. CASE Drop
    <2>1. /\ written' = 0 /\ pc' = "write" /\ overloaded' \in BOOLEAN
          /\ UNCHANGED <<running, output, second, fatal, lines>>
      BY <1>10 DEF Drop
    <2>2. Len(buffersToWrite') >= 1 /\ Len(buffersToWrite') \in Nat
      BY <2>1, NullLength DEF SparesInv, BuffersOK
    <2>3. QED
      BY <2>1, <2>2
  <1>11. CASE Write
    <2>1. /\ pc = "write" /\ written' = written + 1
          /\ pc' = IF written' = Len(buffersToWrite) THEN "refill" ELSE "write"
          /\ UNCHANGED <<running, buffersToWrite, second, fatal, lines, overloaded>>
      BY <1>11 DEF Write
    <2>2. buffersToWrite[written + 1] \in Seq(Nat)
      BY <2>1 DEF BuffersOK, Buffer
    <2>3. output' \in LogFileType
      BY <1>11, <2>2, AppendUnlockedType DEF Write
    <2>4. written' \in 0..Len(buffersToWrite') /\ Len(buffersToWrite') \in Nat
      BY <2>1 DEF BuffersOK
    <2>5. QED
      BY <2>1, <2>3, <2>4
  <1>12. CASE Refill
    <2>1. /\ written' = 0 /\ pc' = "test" /\ output' = Flush(output) /\ buffersToWrite' = <<>>
          /\ UNCHANGED <<running, second, fatal, lines, overloaded>>
      BY <1>12 DEF Refill
    <2>2. QED
      BY <2>1, FlushType
  <1>13. CASE Exit
    BY <1>13, FlushType DEF Exit
  <1>14. CASE UNCHANGED vars
    BY <1>14 DEF vars, back
  <1>15. QED
    BY <1>2, <1>3, <1>4, <1>5, <1>6, <1>7, <1>8, <1>9, <1>10, <1>11, <1>12, <1>13, <1>14
    DEF Next, BackStep

\* The variables keep their types: the log file is always one that stdio has
\* open, and the loop over buffersToWrite (AsyncLogThread.cpp:96) stays inside
\* of it, whatever was dropped before.
THEOREM TypeCorrect == Spec => []TypeOK
  <1>1. Spec => []TypeInv
    BY TypeInit, TypeNext, PTL DEF Spec
  <1>2. TypeInv => TypeOK
    BY DEF TypeInv
  <1>3. QED
    BY <1>1, <1>2, PTL

-----------------------------------------------------------------------------
\* At the top of the loop the back end has its two spare buffers, empty, and
\* the written buffers suffice to replace them: no assertion of threadFunc
\* fails (AsyncLogThread.cpp:70-72, 90, 108, 116), and with NDEBUG back() is
\* never called on an empty vector.
THEOREM SparesAlwaysReady == Spec => []SparesReady
  <1>1. Spec => []SparesInv
    BY SparesInit, SparesNext, PTL DEF Spec
  <1>2. QED
    BY <1>1, SparesImplied, PTL

\* No pointer is dereferenced or moved from while it is null: there is always
\* a current buffer (AsyncLogThread.cpp:41, 81-82).
THEOREM CurrentBufferNeverNull == Spec => [](currentBuffer # null)
  <1>1. Spec => []SparesInv
    BY SparesInit, SparesNext, PTL DEF Spec
  <1>2. SparesInv => currentBuffer # null
    <2>1. SparesInv => Len(currentBuffer) = 1
      BY DEF SparesInv, BuffersOK
    <2>2. Len(currentBuffer) = 1 /\ Len(null) = 0 => currentBuffer # null
      OBVIOUS
    <2>3. QED
      BY <2>1, <2>2, NullLength
  <1>3. QED
    BY <1>1, <1>2, PTL

-----------------------------------------------------------------------------
(* FlattenSeq, by induction over the length of its argument: the least length *)
(* for which a fact is false, and the one before it.                        *)

\* A nonempty set of numbers has a least one.
LEMMA LeastExists ==
    ASSUME NEW S \in SUBSET Nat, S # {}
    PROVE  \E m \in S : \A n \in S : m <= n
  <1>1. PICK m \in S : \A n \in S : ~(<<n, m>> \in OpToRel(<, Nat))
    BY NatLessThanWellFounded, WFMin
  <1>2. \A n \in S : m <= n
    <2> SUFFICES ASSUME NEW n \in S, n < m PROVE FALSE
      OBVIOUS
    <2>1. <<n, m>> \in OpToRel(<, Nat)
      BY DEF OpToRel
    <2>2. QED
      BY <1>1, <2>1
  <1>3. QED
    BY <1>2

\* The function that FlattenSeq computes by recursion.
Flattens(f, seqs) ==
    f = [i \in 1..Len(seqs) |-> IF i = 1 THEN seqs[i] ELSE f[i - 1] \o seqs[i]]

\* The table of prefixes that FlattenSeq chooses exists: the least length without
\* one would be one more than a length with one.
LEMMA FlattensExists ==
    ASSUME NEW S, NEW seqs \in Seq(Seq(S))
    PROVE  \E f : Flattens(f, seqs)
  <1> DEFINE IsTable(f, n) ==
                 f = [i \in 1..n |-> IF i = 1 THEN seqs[i] ELSE f[i - 1] \o seqs[i]]
             Bad == {n \in Nat : ~ \E f : IsTable(f, n)}
  <1>1. CASE Bad = {}
    <2>1. Len(seqs) \in Nat
      OBVIOUS
    <2>2. \E f : IsTable(f, Len(seqs))
      BY <1>1, <2>1
    <2>3. QED
      BY <2>2 DEF Flattens
  <1>2. CASE Bad # {}
    <2>1. PICK n \in Bad : \A m \in Bad : n <= m
      <3> HIDE DEF Bad
      <3>1. Bad \in SUBSET Nat
        BY DEF Bad
      <3>2. QED
        BY <1>2, <3>1, LeastExists
    <2>2. n # 0
      <3>1. IsTable([i \in 1..0 |-> 0], 0)
        <4>1. \A i : i \notin 1..0
          OBVIOUS
        <4>2. QED
          BY <4>1
      <3>2. QED
        BY <2>1, <3>1
    <2>3. n \in Nat \ {0} /\ n - 1 \in Nat /\ n - 1 \notin Bad
      <3>1. n \in Nat
        OBVIOUS
      <3> HIDE DEF Bad
      <3>2. QED
        BY <2>1, <2>2, <3>1
    <2>4. PICK f : IsTable(f, n - 1)
      BY <2>3
    <2> DEFINE g == [i \in 1..n |-> IF i < n THEN f[i]
                                    ELSE IF i = 1 THEN seqs[i] ELSE f[i - 1] \o seqs[i]]
    <2>5. \A i \in 1..n : i < n => /\ i \in 1..(n - 1)
                                   /\ i # 1 => i - 1 \in 1..n /\ i - 1 < n
      BY <2>3
    <2>6. \A i \in 1..n : g[i] = IF i = 1 THEN seqs[i] ELSE g[i - 1] \o seqs[i]
      <3> SUFFICES ASSUME NEW i \in 1..n
                   PROVE  g[i] = IF i = 1 THEN seqs[i] ELSE g[i - 1] \o seqs[i]
        OBVIOUS
      <3>1. i # 1 => i - 1 \in 1..n /\ i - 1 < n
        BY <2>3
      <3>2. i # 1 => g[i - 1] = f[i - 1]
        BY <3>1
      <3>3. CASE i < n
        <4>1. g[i] = f[i] /\ i \in 1..(n - 1)
          BY <2>5, <3>3
        <4>2. f[i] = IF i = 1 THEN seqs[i] ELSE f[i - 1] \o seqs[i]
          BY <2>4, <4>1
        <4>3. QED
          BY <3>2, <4>1, <4>2
      <3>4. CASE ~(i < n)
        BY <3>2, <3>4
      <3>5. QED
        BY <3>3, <3>4
    <2>7. IsTable(g, n)
      <3>1. g = [i \in 1..n |-> g[i]]
        OBVIOUS
      <3> HIDE DEF g
      <3>2. QED
        BY <2>6, <3>1
    <2>8. QED
      BY <2>1, <2>7
  <1>3. QED
    BY <1>1, <1>2

\* FlattenSeq is the last entry of such a table.
LEMMA FlattenByTable ==
    ASSUME NEW S, NEW seqs \in Seq(Seq(S)), Len(seqs) # 0
    PROVE  \E f : /\ Flattens(f, seqs)
                  /\ FlattenSeq(seqs) = f[Len(seqs)]
  <1>1. Flattens(CHOOSE f : Flattens(f, seqs), seqs)
    BY FlattensExists
  <1>2. FlattenSeq(seqs) = (CHOOSE f : Flattens(f, seqs))[Len(seqs)]
    BY DEF FlattenSeq, Flattens
  <1>3. QED
    BY <1>1, <1>2
\* Each entry of the table adds one element to the entry before it.
LEMMA FlattensAt ==
    ASSUME NEW seqs, NEW f, Flattens(f, seqs)
    PROVE  \A i \in 1..Len(seqs) : f[i] = IF i = 1 THEN seqs[i] ELSE f[i - 1] \o seqs[i]
  BY DEF Flattens

\* A table for a longer sequence is one for its beginning.
LEMMA FlattenValues ==
    ASSUME NEW S, NEW seqs \in Seq(Seq(S)), NEW f, Flattens(f, seqs)
    PROVE  \A i \in 1..Len(seqs) : f[i] \in Seq(S)
  <1> DEFINE Bad == {i \in 1..Len(seqs) : f[i] \notin Seq(S)}
  <1>1. \A i \in 1..Len(seqs) : f[i] = IF i = 1 THEN seqs[i] ELSE f[i - 1] \o seqs[i]
    BY DEF Flattens
  <1>2. SUFFICES ASSUME Bad # {} PROVE FALSE
    OBVIOUS
  <1>3. PICK i \in Bad : \A j \in Bad : i <= j
    <2>1. Bad \in SUBSET Nat
      OBVIOUS
    <2> HIDE DEF Bad
    <2>2. QED
      BY <1>2, <2>1, LeastExists
  <1>4. seqs[i] \in Seq(S) /\ i \in 1..Len(seqs)
    OBVIOUS
  <1>5. CASE i = 1
    BY <1>1, <1>4, <1>5
  <1>6. CASE i # 1
    <2>1. i - 1 \in 1..Len(seqs) /\ ~(i <= i - 1)
      BY <1>4, <1>6
    <2>2. f[i - 1] \in Seq(S)
      BY <1>3, <2>1
    <2>3. f[i - 1] \o seqs[i] \in Seq(S)
      BY <1>4, <2>2, ConcatProperties
    <2>4. QED
      BY <1>1, <1>4, <1>6, <2>3
  <1>7. QED
    BY <1>5, <1>6

\* Two tables agree where both are defined.
LEMMA FlattensPointwise ==
    ASSUME NEW seqs, NEW f, Flattens(f, seqs), NEW more, NEW g, Flattens(g, more),
           Len(seqs) \in Nat, Len(more) \in Nat, Len(seqs) <= Len(more),
           \A i \in 1..Len(seqs) : seqs[i] = more[i]
    PROVE  \A i \in 1..Len(seqs) : f[i] = g[i]
  <1> DEFINE Bad == {i \in 1..Len(seqs) : f[i] # g[i]}
  <1>1. /\ \A i \in 1..Len(seqs) : f[i] = IF i = 1 THEN seqs[i] ELSE f[i - 1] \o seqs[i]
        /\ \A i \in 1..Len(more) : g[i] = IF i = 1 THEN more[i] ELSE g[i - 1] \o more[i]
        /\ Len(seqs) \in Nat /\ Len(more) \in Nat
    BY FlattensAt
  <1>2. SUFFICES ASSUME Bad # {} PROVE FALSE
    OBVIOUS
  <1>3. PICK i \in Bad : \A j \in Bad : i <= j
    <2>1. Bad \in SUBSET Nat
      OBVIOUS
    <2> HIDE DEF Bad
    <2>2. QED
      BY <1>2, <2>1, LeastExists
  <1>4. i \in 1..Len(seqs) /\ i \in 1..Len(more) /\ seqs[i] = more[i]
    BY <1>1
  <1>5. CASE i = 1
    BY <1>1, <1>4, <1>5
  <1>6. CASE i # 1
    <2>1. i - 1 \in 1..Len(seqs) /\ ~(i <= i - 1)
      BY <1>4, <1>6
    <2>2. f[i - 1] = g[i - 1]
      BY <1>3, <2>1
    <2>3. QED
      BY <1>1, <1>4, <1>6, <2>2
  <1>7. QED
    BY <1>5, <1>6

\* Two tables agree on what the sequences have in common.
LEMMA FlattensAgree ==
    ASSUME NEW seqs, NEW f, Flattens(f, seqs), NEW more, NEW g, Flattens(g, more),
           Len(seqs) \in Nat \ {0}, Len(more) \in Nat, Len(seqs) <= Len(more),
           \A i \in 1..Len(seqs) : seqs[i] = more[i]
    PROVE  f[Len(seqs)] = g[Len(seqs)]
  <1>1. \A i \in 1..Len(seqs) : f[i] = g[i]
    BY FlattensPointwise
  <1>2. QED
    BY <1>1

\* Nothing flattens to nothing.
LEMMA FlattenEmpty == FlattenSeq(<<>>) = <<>>
  BY DEF FlattenSeq

\* One sequence flattens to itself.
LEMMA FlattenOne ==
    ASSUME NEW S, NEW s \in Seq(S)
    PROVE  FlattenSeq(<<s>>) = s
  <1> DEFINE one == <<s>>
  <1>1. one \in Seq(Seq(S)) /\ Len(one) = 1 /\ Len(one) # 0 /\ 1 \in 1..Len(one) /\ one[1] = s
    OBVIOUS
  <1> HIDE DEF one
  <1>2. PICK f : Flattens(f, one) /\ FlattenSeq(one) = f[Len(one)]
    BY <1>1, FlattenByTable, Zenon
  <1>3. f[1] = s
    BY <1>1, <1>2, FlattensAt, Zenon
  <1>4. QED
    BY <1>1, <1>2, <1>3 DEF one

\* Sequences of a set flatten to a sequence of it.
LEMMA FlattenType ==
    ASSUME NEW S, NEW seqs \in Seq(Seq(S))
    PROVE  FlattenSeq(seqs) \in Seq(S)
  <1>1. CASE Len(seqs) = 0
    <2>1. seqs = <<>>
      BY <1>1
    <2>2. QED
      BY <2>1, FlattenEmpty, EmptySeq
  <1>2. CASE Len(seqs) # 0
    <2>1. PICK f : Flattens(f, seqs) /\ FlattenSeq(seqs) = f[Len(seqs)]
      BY <1>2, FlattenByTable
    <2>2. Len(seqs) \in 1..Len(seqs)
      BY <1>2
    <2>3. QED
      BY <2>1, <2>2, FlattenValues
  <1>3. QED
    BY <1>1, <1>2

\* An element more at the end is a concatenation.
LEMMA FlattenAppend ==
    ASSUME NEW S, NEW seqs \in Seq(Seq(S)), NEW s \in Seq(S)
    PROVE  FlattenSeq(seqs \o <<s>>) = FlattenSeq(seqs) \o s
  <1> DEFINE n == Len(seqs)
  <1>1. PICK more : more = seqs \o <<s>>
    OBVIOUS
  <1>2. /\ n \in Nat /\ more \in Seq(Seq(S)) /\ Len(more) = n + 1 /\ more[n + 1] = s
        /\ \A i \in 1..n : seqs[i] = more[i]
    BY <1>1
  <1>3. PICK g : Flattens(g, more) /\ FlattenSeq(more) = g[n + 1]
    BY <1>2, FlattenByTable
  <1>4. g[n + 1] = IF n + 1 = 1 THEN s ELSE g[n] \o s
    <2>1. n + 1 \in 1..Len(more) /\ (n + 1) - 1 = n
      BY <1>2
    <2> HIDE DEF n
    <2>2. QED
      BY <1>2, <1>3, <2>1 DEF Flattens
  <1>5. CASE n = 0
    <2>1. seqs = <<>> /\ FlattenSeq(seqs) = <<>>
      BY <1>5, FlattenEmpty
    <2>2. QED
      BY <1>3, <1>4, <1>5, <2>1, <1>1, ConcatEmptySeq
  <1>6. CASE n # 0
    <2>1. PICK f : Flattens(f, seqs) /\ FlattenSeq(seqs) = f[n]
      BY <1>6, FlattenByTable
    <2>2. f[n] = g[n]
      <3>1. n \in 1..n /\ n <= Len(more)
        BY <1>2, <1>6
      <3>2. Flattens(f, seqs) /\ Flattens(g, more)
        BY <1>3, <2>1
      <3>3. Len(seqs) \in Nat \ {0} /\ Len(more) \in Nat /\ Len(seqs) <= Len(more)
        BY <1>2, <1>6
      <3>4. \A i \in 1..Len(seqs) : seqs[i] = more[i]
        BY <1>2
      <3> HIDE DEF n
      <3>5. f[Len(seqs)] = g[Len(seqs)]
        BY <3>2, <3>3, <3>4, FlattensAgree
      <3>6. QED
        BY <3>1, <3>5 DEF n
    <2>3. QED
      <3>1. FlattenSeq(more) = f[n] \o s
        BY <1>3, <1>4, <1>6, <2>2
      <3>2. QED
        BY <1>1, <2>1, <3>1
  <1>7. QED
    BY <1>5, <1>6

\* FlattenSeq distributes over concatenation: the shortest second part for which
\* it did not would have a last element.
LEMMA FlattenConcat ==
    ASSUME NEW S, NEW a \in Seq(Seq(S)), NEW b \in Seq(Seq(S))
    PROVE  FlattenSeq(a \o b) = FlattenSeq(a) \o FlattenSeq(b)
  <1> DEFINE Bad == {n \in Nat : \E c \in Seq(Seq(S)) :
                        /\ Len(c) = n
                        /\ FlattenSeq(a \o c) # FlattenSeq(a) \o FlattenSeq(c)}
  <1>1. SUFFICES ASSUME FlattenSeq(a \o b) # FlattenSeq(a) \o FlattenSeq(b) PROVE FALSE
    OBVIOUS
  <1>2. Bad # {}
    <2>1. Len(b) \in Nat
      OBVIOUS
    <2>2. QED
      BY <1>1, <2>1
  <1>3. PICK n \in Bad : \A m \in Bad : n <= m
    <2>1. Bad \in SUBSET Nat
      OBVIOUS
    <2> HIDE DEF Bad
    <2>2. QED
      BY <1>2, <2>1, LeastExists
  <1>4. PICK c \in Seq(Seq(S)) :
                /\ Len(c) = n
                /\ FlattenSeq(a \o c) # FlattenSeq(a) \o FlattenSeq(c)
    OBVIOUS
  <1>5. FlattenSeq(a) \in Seq(S)
    BY FlattenType
  <1>6. CASE n = 0
    <2>1. c = <<>>
      BY <1>4, <1>6
    <2>2. a \o c = a /\ FlattenSeq(c) = <<>>
      BY <2>1, FlattenEmpty, ConcatEmptySeq
    <2>3. FlattenSeq(a) \o <<>> = FlattenSeq(a)
      BY <1>5, ConcatEmptySeq
    <2>4. QED
      BY <1>4, <2>2, <2>3
  <1>7. CASE n # 0
    <2>1. PICK d \in Seq(Seq(S)), s \in Seq(S) : c = d \o <<s>> /\ Len(d) = n - 1
      <3>1. Len(c) \in 1..Len(c) /\ 1 \in 1..Len(c)
        BY <1>4, <1>7
      <3>2. SubSeq(c, 1, Len(c)) = SubSeq(c, 1, Len(c) - 1) \o <<c[Len(c)]>>
        BY <3>1, SubSeqRecursiveSecond
      <3>3. SubSeq(c, 1, Len(c)) = c
        BY SubSeqFull
      <3>4. SubSeq(c, 1, Len(c) - 1) \in Seq(Seq(S)) /\ Len(SubSeq(c, 1, Len(c) - 1)) = n - 1
        BY <1>4, <3>1
      <3>5. c[Len(c)] \in Seq(S)
        BY <3>1, ElementOfSeq
      <3>6. QED
        BY <3>2, <3>3, <3>4, <3>5
    <2>2. FlattenSeq(a \o d) = FlattenSeq(a) \o FlattenSeq(d)
      <3>1. n - 1 \in Nat /\ ~(n <= n - 1)
        BY <1>7
      <3>2. n - 1 \notin Bad
        BY <1>3, <3>1
      <3>3. QED
        BY <2>1, <3>1, <3>2
    <2>3. a \o d \in Seq(Seq(S)) /\ <<s>> \in Seq(Seq(S)) /\ FlattenSeq(d) \in Seq(S)
      BY FlattenType
    <2>4. a \o c = (a \o d) \o <<s>>
      <3> DEFINE last == <<s>>
      <3>1. last \in Seq(Seq(S)) /\ c = d \o last
        BY <2>1, <2>3
      <3>2. a \in Seq(Seq(S)) /\ d \in Seq(Seq(S))
        BY <2>1
      <3> HIDE DEF last, Bad
      <3>3. (a \o d) \o last = a \o (d \o last)
        BY ONLY SMTT(15), <3>2, <3>1, ConcatAssociative
      <3>4. QED
        BY <3>1, <3>3 DEF last
    <2>5. FlattenSeq(a \o c) = (FlattenSeq(a) \o FlattenSeq(d)) \o s
      BY ZenonT(20), <2>2, <2>3, <2>4, FlattenAppend
    <2>6. FlattenSeq(c) = FlattenSeq(d) \o s
      BY <2>1, FlattenAppend
    <2>7. (FlattenSeq(a) \o FlattenSeq(d)) \o s = FlattenSeq(a) \o (FlattenSeq(d) \o s)
      <3>1. PICK x \in Seq(S) : x = FlattenSeq(a)
        BY <1>5
      <3>2. PICK y \in Seq(S) : y = FlattenSeq(d)
        BY <2>3
      <3> HIDE DEF Bad
      <3>3. (x \o y) \o s = x \o (y \o s)
        BY SMTT(15), ConcatAssociative
      <3>4. QED
        BY <3>1, <3>2, <3>3
    <2>8. QED
      BY <1>4, <2>5, <2>6, <2>7
  <1>8. QED
    BY <1>6, <1>7

\* Empty sequences add nothing.
LEMMA FlattenNothing ==
    ASSUME NEW S, NEW seqs \in Seq(Seq(S)), \A i \in 1..Len(seqs) : seqs[i] = <<>>
    PROVE  FlattenSeq(seqs) = <<>>
  <1>1. CASE Len(seqs) = 0
    <2>1. seqs = <<>>
      BY <1>1
    <2>2. QED
      BY <2>1, FlattenEmpty
  <1>2. CASE Len(seqs) # 0
    <2>1. PICK f : Flattens(f, seqs) /\ FlattenSeq(seqs) = f[Len(seqs)]
      BY <1>2, FlattenByTable
    <2> DEFINE Bad == {i \in 1..Len(seqs) : f[i] # <<>>}
    <2>2. SUFFICES ASSUME Bad # {} PROVE FALSE
      BY SMTT(15), <1>2, <2>1
    <2>3. PICK i \in Bad : \A j \in Bad : i <= j
      <3>1. Bad \in SUBSET Nat
        OBVIOUS
      <3> HIDE DEF Bad
      <3>2. QED
        BY <2>2, <3>1, LeastExists
    <2>4. i \in 1..Len(seqs) /\ seqs[i] = <<>>
      OBVIOUS
    <2>5. f[i] = IF i = 1 THEN <<>> ELSE f[i - 1] \o <<>>
      BY <2>1, <2>4 DEF Flattens
    <2>6. i # 1 => f[i - 1] = <<>>
      <3>1. i # 1 => i - 1 \in 1..Len(seqs) /\ ~(i <= i - 1)
        BY <2>4
      <3>2. QED
        BY <2>3, <3>1
    <2>7. QED
      BY <2>3, <2>5, <2>6
  <1>3. QED
    BY <1>1, <1>2

\* A sequence of one sequence.
LEMMA Singleton == ASSUME NEW S, NEW s \in Seq(S) PROVE <<s>> \in Seq(Seq(S))
  OBVIOUS

\* What comes after the last one that is not empty adds nothing.
LEMMA FlattenUpTo ==
    ASSUME NEW S, NEW a \in Seq(Seq(S)), NEW n \in 1..Len(a),
           \A i \in (n + 1)..Len(a) : a[i] = <<>>
    PROVE  /\ SubSeq(a, 1, n - 1) \in Seq(Seq(S))
           /\ FlattenSeq(a) = FlattenSeq(SubSeq(a, 1, n - 1)) \o a[n]
  <1>1. Len(a) \in Nat /\ Len(a) \in n..Len(a) /\ n \in 0..Len(a) /\ 1 \in 1..Len(a) + 1
    OBVIOUS
  <1>2. PICK p : p = SubSeq(a, 1, n - 1)
    OBVIOUS
  <1>3. PICK q : q = SubSeq(a, n + 1, Len(a))
    OBVIOUS
  <1>4. PICK e \in Seq(S) : e = a[n]
    BY ElementOfSeq
  <1>5. p \in Seq(Seq(S)) /\ q \in Seq(Seq(S)) /\ \A i \in 1..Len(q) : q[i] = <<>>
    <2>1. p \in Seq(Seq(S))
      BY <1>2
    <2>2. /\ q \in Seq(Seq(S)) /\ Len(q) \in Nat
          /\ \A i \in 1..Len(q) : q[i] = a[n + i] /\ n + i \in (n + 1)..Len(a)
      BY SMTT(15), <1>1, <1>3
    <2>3. QED
      BY <2>1, <2>2
  <1>6. a = (p \o <<e>>) \o q
    <2>1. SubSeq(a, 1, n) \o SubSeq(a, n + 1, Len(a)) = SubSeq(a, 1, Len(a))
      BY <1>1, ConcatAdjacentSubSeq
    <2>2. SubSeq(a, 1, n) = SubSeq(a, 1, n - 1) \o <<a[n]>>
      BY <1>1, SubSeqRecursiveSecond
    <2>3. SubSeq(a, 1, Len(a)) = a
      BY SubSeqFull
    <2>4. QED
      BY <1>2, <1>3, <1>4, <2>1, <2>2, <2>3
  <1>7. FlattenSeq(q) = <<>>
    BY <1>5, FlattenNothing
  <1>8. PICK r \in Seq(Seq(S)) : r = p \o <<e>>
    <2>1. PICK o \in Seq(Seq(S)) : o = <<e>>
      BY Singleton
    <2>2. p \o o \in Seq(Seq(S))
      BY <1>5, ConcatProperties
    <2>3. QED
      BY <2>1, <2>2
  <1>9. FlattenSeq(a) = FlattenSeq(r) \o <<>>
    BY <1>5, <1>6, <1>7, <1>8, FlattenConcat
  <1>10. PICK t \in Seq(S) : t = FlattenSeq(r)
    BY FlattenType
  <1>11. FlattenSeq(a) = t
    BY <1>9, <1>10, ConcatEmptySeq
  <1>12. t = FlattenSeq(p) \o e
    BY <1>5, <1>8, <1>10, FlattenAppend
  <1>13. QED
    BY <1>2, <1>4, <1>5, <1>11, <1>12

Regroups(S) == \A t, e, x \in Seq(S) : (t \o e) \o x = t \o (e \o x)

\* Concatenation is associative, of sequences of any set.
LEMMA Regroup == \A S : Regroups(S)
  BY ConcatAssociative DEF Regroups

\* b is a with x appended to its n-th element, the last that is not empty.
Grown(a, b, n, x) ==
    /\ Len(b) = Len(a) /\ b[n] = a[n] \o x
    /\ \A i \in 1..(n - 1) : b[i] = a[i]
    /\ \A i \in (n + 1)..Len(a) : a[i] = <<>> /\ b[i] = <<>>

GrownIsAppended(S) ==
    \A a, b \in Seq(Seq(S)) : \A n \in 1..Len(a), x \in Seq(S) :
        Grown(a, b, n, x) => FlattenSeq(b) = FlattenSeq(a) \o x

\* That is to append x to the whole.
LEMMA FlattenGrow == \A S : GrownIsAppended(S)
  <1> SUFFICES ASSUME NEW S, NEW a \in Seq(Seq(S)), NEW b \in Seq(Seq(S)),
                      NEW n \in 1..Len(a), NEW x \in Seq(S),
                      Len(b) = Len(a), b[n] = a[n] \o x,
                      \A i \in 1..(n - 1) : b[i] = a[i],
                      \A i \in (n + 1)..Len(a) : a[i] = <<>> /\ b[i] = <<>>
               PROVE  FlattenSeq(b) = FlattenSeq(a) \o x
    BY DEF Grown, GrownIsAppended
  <1>1. PICK p \in Seq(Seq(S)) : p = SubSeq(a, 1, n - 1)
    BY FlattenUpTo
  <1>2. SubSeq(b, 1, n - 1) = p
    <2>1. n - 1 \in Int /\ 1 \in Int /\ n \in Nat
      OBVIOUS
    <2>2. /\ p \in Seq(Seq(S)) /\ Len(p) = n - 1
          /\ \A i \in 1..(n - 1) : p[i] = a[i]
      BY <1>1, <2>1
    <2>3. PICK q : q = SubSeq(b, 1, n - 1)
      OBVIOUS
    <2>4. /\ q \in Seq(Seq(S)) /\ Len(q) = n - 1
          /\ \A i \in 1..(n - 1) : q[i] = b[i]
      BY <2>1, <2>3
    <2>5. q = p
      BY <2>2, <2>4, SeqEqual
    <2>6. QED
      BY <2>3, <2>5
  <1>3. PICK t \in Seq(S) : t = FlattenSeq(p)
    BY FlattenType
  <1>4. PICK e \in Seq(S) : e = a[n]
    BY ElementOfSeq
  <1>5. FlattenSeq(a) = t \o e
    BY <1>1, <1>3, <1>4, FlattenUpTo
  <1>6. FlattenSeq(b) = t \o (e \o x)
    <2>1. n \in 1..Len(b) /\ \A i \in (n + 1)..Len(b) : b[i] = <<>>
      OBVIOUS
    <2>2. FlattenSeq(b) = FlattenSeq(SubSeq(b, 1, n - 1)) \o b[n]
      BY <2>1, FlattenUpTo
    <2>3. QED
      BY <1>2, <1>3, <1>4, <2>2
  <1>7. Regroups(S)
    BY Regroup
  <1>8. (t \o e) \o x = t \o (e \o x)
    BY <1>7, Zenon DEF Regroups
  <1>9. QED
    BY <1>5, <1>6, <1>8

-----------------------------------------------------------------------------
(* The log files.                                                          *)

\* Every file that is named after a later second than the open one is empty.
NothingLater(log) == \A s \in Seconds : s > log.name => log.disk[s] = <<>>

\* The parts of a log file.
LEMMA LogFileFields ==
    ASSUME NEW log \in LogFileType
    PROVE  /\ log.disk \in [Seconds -> Seq(Nat)] /\ log.name \in Seconds
           /\ log.buffer \in Seq(Nat) /\ log.writeLen \in Nat
  BY DEF LogFileType

\* What goes to the open file goes to the end of what is on disk.
LEMMA OnDiskGrows ==
    ASSUME NEW log \in LogFileType, NEW new \in LogFileType, NEW x \in Seq(Nat),
           NothingLater(log),
           new.disk = [log.disk EXCEPT ![log.name] = log.disk[log.name] \o x]
    PROVE  /\ OnDisk(log) \in Seq(Nat)
           /\ OnDisk(new) = OnDisk(log) \o x
           /\ \A s \in Seconds : s > log.name => new.disk[s] = <<>>
  <1>1. /\ log.disk \in [Seconds -> Seq(Nat)] /\ new.disk \in [Seconds -> Seq(Nat)]
        /\ log.name \in Seconds
    BY LogFileFields
  <1>2. PICK a : a = [i \in 1..(MaxSeconds + 1) |-> log.disk[i - 1]]
    OBVIOUS
  <1>3. PICK b : b = [i \in 1..(MaxSeconds + 1) |-> new.disk[i - 1]]
    OBVIOUS
  <1>4. /\ MaxSeconds \in Nat
        /\ \A i \in 1..(MaxSeconds + 1) : i - 1 \in Seconds
        /\ log.name + 1 \in 1..(MaxSeconds + 1)
        /\ (log.name + 1) - 1 = log.name
    BY <1>1, RollAssumption DEF Seconds
  <1>5. /\ a \in Seq(Seq(Nat)) /\ Len(a) = MaxSeconds + 1
        /\ b \in Seq(Seq(Nat)) /\ Len(b) = MaxSeconds + 1
    <2>1. \A i \in 1..(MaxSeconds + 1) : log.disk[i - 1] \in Seq(Nat) /\ new.disk[i - 1] \in Seq(Nat)
      BY <1>1, <1>4
    <2>2. a \in Seq(Seq(Nat)) /\ Len(a) = MaxSeconds + 1
      BY <1>2, <1>4, <2>1
    <2>3. b \in Seq(Seq(Nat)) /\ Len(b) = MaxSeconds + 1
      BY <1>3, <1>4, <2>1
    <2>4. QED
      BY <2>2, <2>3
  <1>6. \A s \in Seconds : new.disk[s] = IF s = log.name THEN log.disk[s] \o x ELSE log.disk[s]
    BY <1>1
  <1>7. PICK n : n = log.name + 1
    OBVIOUS
  <1>8. n \in 1..Len(a) /\ b[n] = a[n] \o x
    BY <1>2, <1>3, <1>4, <1>5, <1>6, <1>7, <1>1
  <1>9. \A i \in 1..(n - 1) : b[i] = a[i]
    <2> SUFFICES ASSUME NEW i \in 1..(n - 1) PROVE b[i] = a[i]
      OBVIOUS
    <2>1. i \in 1..(MaxSeconds + 1) /\ i - 1 \in Seconds /\ i - 1 # log.name
      BY <1>1, <1>4, <1>7 DEF Seconds
    <2>2. QED
      BY <1>2, <1>3, <1>6, <2>1
  <1>10. \A i \in (n + 1)..Len(a) : a[i] = <<>> /\ b[i] = <<>>
    <2> SUFFICES ASSUME NEW i \in (n + 1)..Len(a) PROVE a[i] = <<>> /\ b[i] = <<>>
      OBVIOUS
    <2>1. i \in 1..(MaxSeconds + 1) /\ i - 1 \in Seconds /\ i - 1 > log.name
      BY SMTT(15), <1>1, <1>4, <1>5, <1>7 DEF Seconds
    <2>2. log.disk[i - 1] = <<>> /\ i - 1 # log.name
      BY <1>1, <2>1 DEF NothingLater, Seconds
    <2>3. QED
      BY <1>2, <1>3, <1>6, <2>1, <2>2
  <1>11. FlattenSeq(b) = FlattenSeq(a) \o x
    <2>1. Grown(a, b, n, x)
      BY <1>5, <1>8, <1>9, <1>10 DEF Grown
    <2>2. GrownIsAppended(Nat)
      BY FlattenGrow
    <2>3. QED
      BY <1>5, <1>8, <2>1, <2>2 DEF GrownIsAppended
  <1>12. OnDisk(log) = FlattenSeq(a) /\ OnDisk(new) = FlattenSeq(b)
    BY <1>2, <1>3 DEF OnDisk
  <1>13. FlattenSeq(a) \in Seq(Nat)
    BY <1>5, FlattenType
  <1>14. \A s \in Seconds : s > log.name => new.disk[s] = <<>>
    BY <1>1, <1>6 DEF NothingLater, Seconds
  <1>15. QED
    BY <1>11, <1>12, <1>13, <1>14

\* A flush moves what stdio holds to the disk, and nothing else.
LEMMA FlushConserves ==
    ASSUME NEW log \in LogFileType, NothingLater(log)
    PROVE  /\ OnDisk(Flush(log)) = OnDisk(log) \o log.buffer
           /\ OnDisk(log) \in Seq(Nat)
           /\ Flush(log).buffer = <<>> /\ Flush(log).name = log.name
           /\ NothingLater(Flush(log))
  <1>1. PICK new \in LogFileType : new = Flush(log)
    BY FlushType
  <1>2. log.buffer \in Seq(Nat)
    BY LogFileFields
  <1>3. /\ new.disk = [log.disk EXCEPT ![log.name] = log.disk[log.name] \o log.buffer]
        /\ new.buffer = <<>> /\ new.name = log.name
    BY <1>1 DEF Flush, LogFileType
  <1>4. /\ OnDisk(log) \in Seq(Nat) /\ OnDisk(new) = OnDisk(log) \o log.buffer
        /\ \A s \in Seconds : s > log.name => new.disk[s] = <<>>
    BY <1>2, <1>3, OnDiskGrows
  <1>5. NothingLater(new)
    BY <1>3, <1>4 DEF NothingLater
  <1>6. QED
    BY <1>1, <1>3, <1>4, <1>5

\* So does append, whatever stdio passes on; the log grows by the data.
LEMMA FileAppendConserves ==
    ASSUME NEW log \in LogFileType, NothingLater(log), NEW data \in Seq(Nat),
           NEW passed \in 0..(Len(log.buffer) + Len(data))
    PROVE  LET new == FileAppend(log, data, passed)
           IN  /\ new \in LogFileType
               /\ OnDisk(new) \o new.buffer = OnDisk(log) \o (log.buffer \o data)
               /\ new.name = log.name
               /\ NothingLater(new)
  <1>1. log.buffer \in Seq(Nat)
    BY LogFileFields
  <1>2. PICK held \in Seq(Nat) : held = log.buffer \o data
    BY <1>1, ConcatProperties
  <1>3. /\ Len(held) \in Nat /\ passed \in Nat /\ passed <= Len(held)
        /\ 1 \in 1..Len(held) + 1 /\ passed \in 1 - 1..Len(held)
        /\ Len(held) \in passed..Len(held)
    <2>1. Len(held) = Len(log.buffer) + Len(data) /\ Len(log.buffer) \in Nat /\ Len(data) \in Nat
      BY <1>1, <1>2, ConcatProperties
    <2>2. QED
      BY <2>1
  <1>4. PICK x \in Seq(Nat) : x = SubSeq(held, 1, passed)
    <2>1. \A i \in 1..passed : held[i] \in Nat
      BY <1>3
    <2>2. SubSeq(held, 1, passed) \in Seq(Nat)
      BY <1>3, <2>1, SubSeqProperties
    <2>3. QED
      BY <2>2
  <1>5. PICK y \in Seq(Nat) : y = SubSeq(held, passed + 1, Len(held))
    <2>1. \A i \in passed + 1..Len(held) : held[i] \in Nat
      BY <1>3
    <2>2. SubSeq(held, passed + 1, Len(held)) \in Seq(Nat)
      BY <1>3, <2>1, SubSeqProperties
    <2>3. QED
      BY <2>2
  <1>6. x \o y = held
    <2>1. SubSeq(held, 1, passed) \o SubSeq(held, passed + 1, Len(held)) = SubSeq(held, 1, Len(held))
      BY ONLY held \in Seq(Nat), <1>3, ConcatAdjacentSubSeq
    <2>2. SubSeq(held, 1, Len(held)) = held
      BY SubSeqFull
    <2>3. QED
      BY <1>4, <1>5, <2>1, <2>2
  <1>7. PICK new \in LogFileType : new = FileAppend(log, data, passed)
    BY FileAppendType
  <1>8. /\ new.disk = [log.disk EXCEPT ![log.name] = log.disk[log.name] \o x]
        /\ new.buffer = y /\ new.name = log.name
    BY <1>2, <1>4, <1>5, <1>7 DEF FileAppend, LogFileType
  <1>9. /\ OnDisk(log) \in Seq(Nat) /\ OnDisk(new) = OnDisk(log) \o x
        /\ \A s \in Seconds : s > log.name => new.disk[s] = <<>>
    BY <1>8, OnDiskGrows
  <1>10. PICK d \in Seq(Nat) : d = OnDisk(log)
    BY <1>9
  <1>11. (d \o x) \o y = d \o (x \o y)
    <2>1. Regroups(Nat)
      BY Regroup
    <2>2. QED
      BY <2>1, Zenon DEF Regroups
  <1>12. NothingLater(new)
    BY <1>8, <1>9 DEF NothingLater
  <1>13. QED
    BY <1>2, <1>6, <1>7, <1>8, <1>9, <1>10, <1>11, <1>12

\* A new file may replace the open one before the data is written, and may even
\* be the same: nothing is lost or repeated, and the order stays.
LEMMA AppendUnlockedConserves ==
    ASSUME NEW log \in LogFileType, NothingLater(log), NEW data \in Seq(Nat),
           NEW passed \in 0..(Len(log.buffer) + Len(data)),
           NEW s \in Seconds, log.name <= s
    PROVE  LET new == AppendUnlocked(log, data, passed, s)
           IN  /\ new \in LogFileType
               /\ OnDisk(new) \in Seq(Nat)
               /\ OnDisk(new) \o new.buffer = OnDisk(log) \o (log.buffer \o data)
               /\ new.name <= s
               /\ NothingLater(new)
  <1>1. PICK app \in LogFileType : app = FileAppend(log, data, passed)
    BY FileAppendType
  <1>2. /\ OnDisk(app) \o app.buffer = OnDisk(log) \o (log.buffer \o data)
        /\ app.name = log.name /\ NothingLater(app)
    BY <1>1, FileAppendConserves
  <1>3. AppendUnlocked(log, data, passed, s) =
            IF app.writeLen >= RollSize THEN RollFile(app, s) ELSE app
    BY <1>1 DEF AppendUnlocked
  <1>4. PICK f \in LogFileType : f = Flush(app)
    BY FlushType
  <1>5. /\ OnDisk(f) = OnDisk(app) \o app.buffer /\ OnDisk(app) \in Seq(Nat)
        /\ f.buffer = <<>> /\ f.name = app.name /\ NothingLater(f)
    BY <1>2, <1>4, FlushConserves
  <1>6. CASE app.writeLen >= RollSize
    <2>1. PICK new : new = RollFile(app, s)
      OBVIOUS
    <2>2. new = [f EXCEPT !.name = s, !.writeLen = 0]
      BY <1>4, <2>1 DEF RollFile
    <2>3. new \in LogFileType /\ new.disk = f.disk /\ new.buffer = <<>> /\ new.name = s
      BY <1>5, <2>2 DEF LogFileType
    <2>4. OnDisk(new) = OnDisk(f)
      BY <2>3 DEF OnDisk
    <2>5. OnDisk(f) \in Seq(Nat)
      <3>1. app.buffer \in Seq(Nat)
        BY LogFileFields
      <3>2. QED
        BY <1>5, <3>1, ConcatProperties
    <2>6. OnDisk(f) \o <<>> = OnDisk(f)
      BY <2>5, ConcatEmptySeq
    <2>7. NothingLater(new)
      <3>1. log.name \in Nat /\ s \in Nat
        BY LogFileFields DEF Seconds
      <3>2. \A r \in Seconds : r \in Nat /\ (r > log.name => f.disk[r] = <<>>)
        BY <1>2, <1>5 DEF NothingLater, Seconds
      <3>3. QED
        BY <2>3, <3>1, <3>2 DEF NothingLater
    <2>8. s \in Nat
      BY DEF Seconds
    <2>9. AppendUnlocked(log, data, passed, s) = new
      BY <1>3, <1>6, <2>1
    <2>10. OnDisk(new) \o new.buffer = OnDisk(log) \o (log.buffer \o data)
      BY <1>2, <1>5, <2>3, <2>4, <2>6
    <2>11. OnDisk(new) \in Seq(Nat) /\ new.name <= s
      BY <2>3, <2>4, <2>5, <2>8
    <2>12. QED
      BY <2>3, <2>7, <2>9, <2>10, <2>11
  <1>7. CASE ~(app.writeLen >= RollSize)
    BY <1>2, <1>3, <1>5, <1>7
  <1>8. QED
    BY <1>6, <1>7

-----------------------------------------------------------------------------
(* The text of the log, from the files to the current buffer.               *)

Increasing(s) == \A i, j \in 1..Len(s) : i < j => s[i] < s[j]

UpTo(s, n) == \A i \in 1..Len(s) : s[i] <= n

ToWrite == Lines(SubSeq(buffersToWrite, written + 1, Len(buffersToWrite)))

LogText == (OnDisk(output) \o output.buffer) \o ((ToWrite \o Lines(buffers)) \o Lines(currentBuffer))

\* The lines of the log are in the order of their numbers, and none is newer
\* than the last append.  A new file must not come before one that has been
\* written, hence the names; and the back end forgets buffersToWrite only when
\* all of it has been written.
LogInv ==
    /\ TypeInv
    /\ NothingLater(output) /\ output.name <= second
    /\ pc = "refill" => written = Len(buffersToWrite)
    /\ Increasing(LogText) /\ UpTo(LogText, lines)
    /\ ~overloaded => Len(LogText) = lines

\* The next line keeps the order.
LEMMA GrowInOrder ==
    ASSUME NEW t \in Seq(Nat), NEW n \in Nat, Increasing(t), UpTo(t, n)
    PROVE  /\ Increasing(t \o <<n + 1>>) /\ UpTo(t \o <<n + 1>>, n + 1)
           /\ Len(t \o <<n + 1>>) = Len(t) + 1
  <1>1. PICK s \in Seq(Nat) : s = t \o <<n + 1>>
    <2>1. <<n + 1>> \in Seq(Nat)
      OBVIOUS
    <2>2. QED
      BY <2>1, ConcatProperties
  <1>2. /\ Len(t) \in Nat /\ Len(s) = Len(t) + 1 /\ s[Len(t) + 1] = n + 1
        /\ \A i \in 1..Len(t) : s[i] = t[i] /\ t[i] \in Nat
    BY <1>1
  <1>3. \A i \in 1..Len(s) : i \in 1..Len(t) \/ i = Len(t) + 1
    BY <1>2
  <1>4. Increasing(s)
    <2> SUFFICES ASSUME NEW i \in 1..Len(s), NEW j \in 1..Len(s), i < j PROVE s[i] < s[j]
      BY DEF Increasing
    <2>1. i \in 1..Len(t) /\ s[i] = t[i] /\ t[i] <= n /\ t[i] \in Nat
      BY <1>2 DEF UpTo
    <2>2. CASE j \in 1..Len(t)
      BY <1>2, <2>1, <2>2 DEF Increasing
    <2>3. CASE j = Len(t) + 1
      BY <1>2, <2>1, <2>3
    <2>4. QED
      BY <1>3, <2>2, <2>3
  <1>5. UpTo(s, n + 1)
    BY <1>2, <1>3 DEF UpTo
  <1>6. QED
    BY <1>1, <1>2, <1>4, <1>5

\* To drop a part keeps the order.
LEMMA DropInOrder ==
    ASSUME NEW p \in Seq(Nat), NEW x \in Seq(Nat), NEW q \in Seq(Nat), NEW n \in Nat,
           Increasing((p \o x) \o q), UpTo((p \o x) \o q, n)
    PROVE  Increasing(p \o q) /\ UpTo(p \o q, n)
  <1>1. PICK px \in Seq(Nat) : px = p \o x
    BY ConcatProperties
  <1>2. PICK t \in Seq(Nat) : t = px \o q
    BY ConcatProperties
  <1>3. PICK s \in Seq(Nat) : s = p \o q
    BY ConcatProperties
  <1>4. /\ Len(p) \in Nat /\ Len(x) \in Nat /\ Len(q) \in Nat
        /\ Len(px) = Len(p) + Len(x) /\ Len(t) = Len(p) + Len(x) + Len(q)
        /\ Len(s) = Len(p) + Len(q)
    <2>1. Len(px) = Len(p) + Len(x) /\ Len(s) = Len(p) + Len(q) /\ Len(t) = Len(px) + Len(q)
      BY <1>1, <1>2, <1>3, ConcatProperties
    <2>2. Len(p) \in Nat /\ Len(x) \in Nat /\ Len(q) \in Nat
      OBVIOUS
    <2>3. QED
      BY <2>1, <2>2
  <1> DEFINE at(i) == IF i <= Len(p) THEN i ELSE i + Len(x)
  <1>5. \A i \in 1..Len(s) : at(i) \in 1..Len(t) /\ s[i] = t[at(i)]
    <2> SUFFICES ASSUME NEW i \in 1..Len(s) PROVE at(i) \in 1..Len(t) /\ s[i] = t[at(i)]
      OBVIOUS
    <2>1. CASE i <= Len(p)
      <3>1. i \in 1..Len(p) /\ i \in 1..(Len(p) + Len(q)) /\ i \in 1..(Len(p) + Len(x))
            /\ i \in 1..(Len(px) + Len(q)) /\ i <= Len(px)
        <4>1. i \in Nat /\ 1 <= i
          BY <1>4
        <4>2. i \in 1..Len(p)
          BY <1>4, <2>1, <4>1
        <4>3. i \in 1..(Len(p) + Len(q)) /\ i \in 1..(Len(p) + Len(x))
          BY <1>4, <4>2
        <4>4. Len(px) \in Nat /\ Len(px) >= Len(p)
          BY <1>4
        <4>5. i <= Len(px)
          BY <1>4, <2>1, <4>1, <4>4
        <4>6. i \in 1..(Len(px) + Len(q))
          BY <1>4, <4>1, <4>4, <4>5
        <4>7. QED
          BY <4>2, <4>3, <4>5, <4>6
      <3>2. s[i] = p[i]
        BY <1>3, <2>1, <3>1, ConcatProperties
      <3>3. px[i] = p[i]
        BY <1>1, <2>1, <3>1, ConcatProperties
      <3>4. t[i] = px[i]
        BY <1>2, <3>1, ConcatProperties
      <3>5. QED
        BY <1>4, <2>1, <3>1, <3>2, <3>3, <3>4
    <2>2. CASE ~(i <= Len(p))
      <3>1. /\ i \in 1..(Len(p) + Len(q)) /\ i + Len(x) \in 1..(Len(px) + Len(q))
            /\ ~(i + Len(x) <= Len(px)) /\ (i + Len(x)) - Len(px) = i - Len(p)
            /\ i + Len(x) \in 1..Len(t)
        <4>1. PICK a \in Nat, b \in Nat, c \in Nat : a = Len(p) /\ b = Len(x) /\ c = Len(q)
          BY <1>4
        <4>2. /\ i \in 1..(a + c) /\ ~(i <= a) /\ Len(px) = a + b /\ Len(t) = a + b + c
          BY <1>4, <2>2, <4>1
        <4>3. /\ i \in 1..(a + c) /\ i + b \in 1..((a + b) + c)
              /\ ~(i + b <= a + b) /\ (i + b) - (a + b) = i - a
              /\ i + b \in 1..(a + b + c)
          BY ONLY <4>2, a \in Nat, b \in Nat, c \in Nat
        <4> QED
          BY ONLY <4>1, <4>2, <4>3
      <3>2. s[i] = q[i - Len(p)]
        <4>1. \A k \in 1..(Len(p) + Len(q)) :
                 (p \o q)[k] = IF k <= Len(p) THEN p[k] ELSE q[k - Len(p)]
          BY ONLY ConcatProperties, p \in Seq(Nat), q \in Seq(Nat)
        <4> QED
          BY <1>3, <2>2, <3>1, <4>1
      <3>3. t[i + Len(x)] = q[(i + Len(x)) - Len(px)]
        BY <1>2, <3>1, ConcatProperties
      <3>4. QED
        BY <2>2, <3>1, <3>2, <3>3
    <2>3. QED
      BY <2>1, <2>2
  <1>6. \A i, j \in Nat : i < j => at(i) < at(j)
    BY <1>4
  <1>7. Increasing(t) /\ UpTo(t, n)
    BY <1>1, <1>2
  <1> HIDE DEF at
  <1>8. Increasing(s)
    <2> SUFFICES ASSUME NEW i \in 1..Len(s), NEW j \in 1..Len(s), i < j PROVE s[i] < s[j]
      BY DEF Increasing
    <2>1. i \in Nat /\ j \in Nat
      BY <1>4
    <2>2. QED
      BY <1>5, <1>6, <1>7, <2>1 DEF Increasing
  <1>9. UpTo(s, n)
    BY <1>5, <1>7 DEF UpTo
  <1>10. QED
    BY <1>3, <1>8, <1>9

\* The provers regroup a concatenation of many parts only if they do not look
\* into it.
Text == Seq(Nat)
Cat(s, t) == s \o t

\* Concatenation of lines, without the definition of a sequence.
LEMMA CatFacts ==
    /\ \A s, t \in Text : Cat(s, t) \in Text
    /\ \A s, t, v \in Text : Cat(Cat(s, t), v) = Cat(s, Cat(t, v))
  <1>1. \A s, t \in Text : Cat(s, t) \in Text
    BY ConcatProperties DEF Cat, Text
  <1>2. Regroups(Nat)
    BY Regroup
  <1>3. QED
    BY <1>1, <1>2 DEF Cat, Text, Regroups

\* The parts that the lines are spread over are sequences of lines.
LEMMA LogParts ==
    ASSUME TypeInv, NothingLater(output)
    PROVE  /\ OnDisk(output) \in Text /\ output.buffer \in Text
           /\ ToWrite \in Text /\ Lines(buffers) \in Text /\ Lines(currentBuffer) \in Text
           /\ LogText \in Text
  <1>1. output \in LogFileType
    BY DEF TypeInv, TypeOK
  <1>2. OnDisk(output) \in Text /\ output.buffer \in Text
    BY <1>1, FlushConserves, LogFileFields DEF Text
  <1>3. buffers \in Seq(Seq(Nat)) /\ currentBuffer \in Seq(Seq(Nat)) /\ buffersToWrite \in Seq(Seq(Nat))
    BY DEF TypeInv, TypeOK, BuffersOK, Buffer
  <1>4. Lines(buffers) \in Text /\ Lines(currentBuffer) \in Text
    BY <1>3, FlattenType DEF Lines, Text
  <1>5. ToWrite \in Text
    <2>1. written \in Nat /\ Len(buffersToWrite) \in Nat
      BY <1>3 DEF TypeInv, TypeOK
    <2>2. \A i \in written + 1..Len(buffersToWrite) : buffersToWrite[i] \in Seq(Nat)
      BY <1>3, <2>1
    <2>3. SubSeq(buffersToWrite, written + 1, Len(buffersToWrite)) \in Seq(Seq(Nat))
      BY <2>1, <2>2, SubSeqProperties
    <2>4. QED
      BY <2>3, FlattenType DEF Lines, Text, ToWrite
  <1>6. LogText \in Text
    <2>1. Cat(Cat(OnDisk(output), output.buffer),
              Cat(Cat(ToWrite, Lines(buffers)), Lines(currentBuffer))) \in Text
      BY <1>2, <1>4, <1>5, CatFacts
    <2>2. QED
      BY <2>1 DEF Cat, LogText
  <1>7. QED
    BY <1>2, <1>4, <1>5, <1>6

\* A line is appended to the text.
LEMMA LineText ==
    ASSUME LogInv, AppendLine \/ AppendFatal
    PROVE  LogText' = LogText \o <<lines + 1>>
  <1>1. /\ AppendTo(lines + 1)
        /\ UNCHANGED <<buffersToWrite, written, output>>
    BY DEF AppendLine, AppendFatal, back
  <1>2. OnDisk(output)' = OnDisk(output) /\ output.buffer' = output.buffer /\ ToWrite' = ToWrite
    BY <1>1 DEF ToWrite
  <1>3. PICK f \in Text : f = OnDisk(output) \o output.buffer
    BY LogParts, CatFacts DEF LogInv, Cat
  <1>4. PICK t \in Text : t = ToWrite
    BY LogParts DEF LogInv
  <1>5. PICK b \in Text : b = Lines(buffers)
    BY LogParts DEF LogInv
  <1>6. PICK c \in Text : c = Lines(currentBuffer)
    BY LogParts DEF LogInv
  <1>7. PICK l \in Text : l = <<lines + 1>>
    <2>1. lines + 1 \in Nat
      BY DEF LogInv, TypeInv, SparesInv
    <2>2. <<lines + 1>> \in Seq(Nat)
      BY <2>1
    <2>3. QED
      BY <2>2 DEF Text
  <1>8. LogText = f \o ((t \o b) \o c)
    BY <1>3, <1>4, <1>5, <1>6 DEF LogText
  <1>9. LogText' = f \o ((t \o Lines(buffers)') \o Lines(currentBuffer)')
    BY <1>2, <1>3, <1>4 DEF LogText
  <1>10. currentBuffer = <<c>> /\ currentBuffer[1] = c
    <2>1. currentBuffer = <<currentBuffer[1]>> /\ currentBuffer[1] \in Seq(Nat)
      <3>1. currentBuffer \in Seq(Buffer) /\ Len(currentBuffer) = 1
        BY DEF LogInv, TypeInv, TypeOK, BuffersOK
      <3>2. QED
        BY SMTT(15), <3>1 DEF Buffer
    <2>2. Lines(<<currentBuffer[1]>>) = currentBuffer[1]
      BY <2>1, FlattenOne DEF Lines
    <2>3. QED
      BY <1>6, <2>1, <2>2
  <1>11. CASE Len(c) < LinesPerBuffer
    <2>1. currentBuffer' = <<c \o l>> /\ buffers' = buffers
      BY <1>1, <1>7, <1>10, <1>11 DEF AppendTo
    <2>2. c \o l \in Seq(Nat)
      BY ConcatProperties DEF Text
    <2>3. Lines(currentBuffer)' = c \o l
      BY <2>1, <2>2, FlattenOne DEF Lines
    <2>4. Lines(buffers)' = b
      BY <1>5, <2>1
    <2>5. LogText' = f \o ((t \o b) \o (c \o l))
      BY <1>9, <2>3, <2>4
    <2>6. PICK w \in Text : w = t \o b
      BY CatFacts DEF Cat
    <2>7. Cat(f, Cat(w, Cat(c, l))) = Cat(Cat(f, Cat(w, c)), l)
      BY CatFacts
    <2>8. QED
      BY <1>7, <1>8, <2>5, <2>6, <2>7 DEF Cat
  <1>12. CASE ~(Len(c) < LinesPerBuffer)
    <2>1. /\ buffers' = buffers \o <<c>>
          /\ currentBuffer' = IF nextBuffer # null THEN <<nextBuffer[1] \o l>> ELSE <<Empty \o l>>
      BY <1>1, <1>7, <1>10, <1>12 DEF AppendTo
    <2>2. nextBuffer # null => nextBuffer[1] = Empty
      BY DEF LogInv, TypeInv, SparesInv
    <2>3. Empty \o l = l
      BY ConcatEmptySeq DEF Empty, Text
    <2>4. currentBuffer' = <<l>>
      BY <2>1, <2>2, <2>3
    <2>5. Lines(currentBuffer)' = l
      BY <2>4, FlattenOne DEF Lines, Text
    <2>6. Lines(buffers)' = b \o c
      <3>1. buffers \in Seq(Seq(Nat)) /\ c \in Seq(Nat)
        BY DEF LogInv, TypeInv, TypeOK, BuffersOK, Buffer, Text
      <3>2. FlattenSeq(buffers \o <<c>>) = FlattenSeq(buffers) \o c
        BY <3>1, FlattenAppend
      <3>3. QED
        BY <1>5, <2>1, <3>2 DEF Lines
    <2>7. LogText' = f \o ((t \o (b \o c)) \o l)
      BY <1>9, <2>5, <2>6
    <2>8. Cat(f, Cat(Cat(t, Cat(b, c)), l)) = Cat(Cat(f, Cat(Cat(t, b), c)), l)
      BY CatFacts
    <2>9. QED
      BY <1>7, <1>8, <2>7, <2>8 DEF Cat
  <1>13. QED
    BY <1>11, <1>12

\* The exchange moves the text of the front end to the back end.
LEMMA ExchangeText ==
    ASSUME LogInv, pc \in {"lock", "wait"}, Exchange
    PROVE  LogText' = LogText
  <1>1. /\ buffersToWrite = <<>> /\ written = 0 /\ newBuffer1 = <<Empty>>
        /\ buffersToWrite' = buffers \o currentBuffer /\ buffers' = <<>>
        /\ currentBuffer' = newBuffer1 /\ UNCHANGED <<written, output>>
    BY DEF LogInv, TypeInv, SparesInv, Exchange
  <1>2. OnDisk(output)' = OnDisk(output) /\ output.buffer' = output.buffer
    BY <1>1
  <1>3. PICK f \in Text : f = OnDisk(output) \o output.buffer
    BY LogParts, CatFacts DEF LogInv, Cat
  <1>4. PICK b \in Text : b = Lines(buffers)
    BY LogParts DEF LogInv
  <1>5. PICK c \in Text : c = Lines(currentBuffer)
    BY LogParts DEF LogInv
  <1>6. ToWrite = <<>>
    <2>1. SubSeq(<<>>, 1, 0) = <<>>
      BY SubSeqEmpty
    <2>2. SubSeq(buffersToWrite, written + 1, Len(buffersToWrite)) = <<>>
      BY <1>1, <2>1
    <2>3. QED
      BY <2>2, FlattenEmpty DEF ToWrite, Lines
  <1>7. ToWrite' = b \o c
    <2>1. buffers \in Seq(Seq(Nat)) /\ currentBuffer \in Seq(Seq(Nat))
      BY DEF LogInv, TypeInv, TypeOK, BuffersOK, Buffer
    <2>2. PICK q \in Seq(Seq(Nat)) : q = buffers \o currentBuffer
      BY <2>1, ConcatProperties
    <2>3. SubSeq(q, 1, Len(q)) = q
      BY SubSeqFull
    <2>4. SubSeq(buffersToWrite', written' + 1, Len(buffersToWrite')) = q
      BY <1>1, <2>2, <2>3
    <2>5. FlattenSeq(q) = FlattenSeq(buffers) \o FlattenSeq(currentBuffer)
      BY <2>1, <2>2, FlattenConcat
    <2>6. QED
      BY <1>4, <1>5, <2>4, <2>5 DEF ToWrite, Lines
  <1>8. Lines(buffers)' = <<>> /\ Lines(currentBuffer)' = <<>>
    <2>1. Empty \in Seq(Nat)
      BY EmptySeq DEF Empty
    <2>2. Lines(<<Empty>>) = Empty
      BY <2>1, FlattenOne DEF Lines
    <2>3. QED
      BY <1>1, <2>2, FlattenEmpty DEF Lines, Empty
  <1>9. LogText = f \o ((<<>> \o b) \o c)
    BY <1>3, <1>4, <1>5, <1>6 DEF LogText
  <1>10. LogText' = f \o (((b \o c) \o <<>>) \o <<>>)
    BY <1>2, <1>3, <1>7, <1>8 DEF LogText
  <1>11. <<>> \o b = b
    BY ConcatEmptySeq DEF Text
  <1>12. PICK bc \in Text : bc = b \o c
    BY CatFacts DEF Cat
  <1>13. bc \o <<>> = bc
    BY ConcatEmptySeq DEF Text
  <1>14. QED
    BY <1>9, <1>10, <1>11, <1>12, <1>13

\* A flush is not seen in the text.
LEMMA FlushText ==
    ASSUME LogInv, output' = Flush(output), ToWrite' = ToWrite, UNCHANGED <<buffers, currentBuffer>>
    PROVE  LogText' = LogText /\ NothingLater(output)' /\ output.name' = output.name
  <1>1. output \in LogFileType /\ NothingLater(output)
    BY DEF LogInv, TypeInv, TypeOK
  <1>2. PICK d \in Text : d = OnDisk(output)
    BY LogParts DEF LogInv
  <1>3. PICK u \in Text : u = output.buffer
    BY LogParts DEF LogInv
  <1>4. PICK new : new = Flush(output)
    OBVIOUS
  <1>5. /\ OnDisk(new) = d \o u /\ new.buffer = <<>> /\ new.name = output.name
        /\ NothingLater(new)
    BY <1>1, <1>2, <1>3, <1>4, FlushConserves
  <1>6. OnDisk(output)' = d \o u /\ output.buffer' = <<>> /\ output.name' = output.name
    BY <1>4, <1>5
  <1>7. NothingLater(output)'
    BY <1>4, <1>5
  <1>8. PICK du \in Text : du = d \o u
    BY CatFacts DEF Cat
  <1>9. du \o <<>> = du
    BY ConcatEmptySeq DEF Text
  <1>10. OnDisk(output)' \o output.buffer' = OnDisk(output) \o output.buffer
    BY <1>2, <1>3, <1>6, <1>8, <1>9
  <1>11. Lines(buffers)' = Lines(buffers) /\ Lines(currentBuffer)' = Lines(currentBuffer)
    OBVIOUS
  <1>12. LogText' = LogText
    BY <1>10, <1>11 DEF LogText
  <1>13. QED
    BY <1>6, <1>7, <1>12

\* One buffer moves to the log file.
LEMMA WriteText ==
    ASSUME LogInv, Write
    PROVE  LogText' = LogText /\ NothingLater(output)' /\ output.name' <= second
  <1>1. /\ output \in LogFileType /\ NothingLater(output) /\ second \in Seconds
        /\ output.name <= second
        /\ buffersToWrite \in Seq(Seq(Nat)) /\ written \in Nat /\ Len(buffersToWrite) \in Nat
        /\ written < Len(buffersToWrite)
    BY DEF LogInv, TypeInv, TypeOK, BuffersOK, Buffer, Write
  <1>2. PICK data \in Text : data = buffersToWrite[written + 1]
    BY <1>1 DEF Text
  <1>3. data \in Seq(Nat)
    BY DEF Text
  <1>4. PICK passed \in 0..(Len(output.buffer) + Len(data)) :
                output' = AppendUnlocked(output, data, passed, second)
    BY <1>2 DEF Write
  <1>5. written' = written + 1 /\ UNCHANGED <<buffersToWrite, buffers, currentBuffer, second>>
    BY DEF Write, front
  <1>6. PICK new : new = AppendUnlocked(output, data, passed, second)
    OBVIOUS
  <1>7. /\ new \in LogFileType /\ NothingLater(new) /\ new.name <= second
        /\ OnDisk(new) \o new.buffer = OnDisk(output) \o (output.buffer \o data)
    BY <1>1, <1>3, <1>6, AppendUnlockedConserves
  <1>8. NothingLater(output)' /\ output.name' <= second
    BY <1>4, <1>6, <1>7
  <1>9. PICK rest \in Seq(Seq(Nat)) :
               rest = SubSeq(buffersToWrite, written + 2, Len(buffersToWrite))
    <2>1. \A i \in written + 2..Len(buffersToWrite) : buffersToWrite[i] \in Seq(Nat)
      BY <1>1
    <2>2. SubSeq(buffersToWrite, written + 2, Len(buffersToWrite)) \in Seq(Seq(Nat))
      BY <1>1, <2>1, SubSeqProperties
    <2>3. QED
      BY <2>2
  <1>10. PICK t \in Text : t = Lines(rest)
    BY FlattenType DEF Lines, Text
  <1>11. ToWrite' = t
    <2>1. (written + 1) + 1 = written + 2
      BY <1>1
    <2>2. QED
      BY <1>5, <1>9, <1>10, <2>1 DEF ToWrite
  <1>12. ToWrite = data \o t
    <2>1. SubSeq(buffersToWrite, written + 1, Len(buffersToWrite)) = <<data>> \o rest
      <3>1. /\ written + 1 \in 1..Len(buffersToWrite)
            /\ Len(buffersToWrite) \in written + 1..Len(buffersToWrite)
            /\ (written + 1) + 1 = written + 2
        BY <1>1
      <3>2. SubSeq(buffersToWrite, written + 1, Len(buffersToWrite)) =
                <<buffersToWrite[written + 1]>>
                    \o SubSeq(buffersToWrite, (written + 1) + 1, Len(buffersToWrite))
        BY <1>1, <3>1, SubSeqRecursiveFirst
      <3>3. QED
        BY <1>2, <1>9, <3>1, <3>2
    <2>2. PICK one \in Seq(Seq(Nat)) : one = <<data>>
      BY <1>3, Singleton
    <2>3. FlattenSeq(one \o rest) = FlattenSeq(one) \o FlattenSeq(rest)
      BY FlattenConcat
    <2>4. FlattenSeq(one) = data
      BY <1>3, <2>2, FlattenOne
    <2>5. QED
      BY <1>10, <2>1, <2>2, <2>3, <2>4 DEF ToWrite, Lines
  <1>13. PICK d \in Text : d = OnDisk(output)
    BY LogParts DEF LogInv
  <1>14. PICK u \in Text : u = output.buffer
    BY LogParts DEF LogInv
  <1>15. PICK b \in Text : b = Lines(buffers)
    BY LogParts DEF LogInv
  <1>16. PICK c \in Text : c = Lines(currentBuffer)
    BY LogParts DEF LogInv
  <1>17. LogText = (d \o u) \o (((data \o t) \o b) \o c)
    BY <1>12, <1>13, <1>14, <1>15, <1>16 DEF LogText
  <1>18. OnDisk(output)' \o output.buffer' = d \o (u \o data)
    BY <1>4, <1>6, <1>7, <1>13, <1>14
  <1>19. LogText' = (d \o (u \o data)) \o ((t \o b) \o c)
    BY <1>5, <1>11, <1>15, <1>16, <1>18 DEF LogText
  <1>20. Cat(Cat(d, u), Cat(Cat(Cat(data, t), b), c)) = Cat(Cat(d, Cat(u, data)), Cat(Cat(t, b), c))
    BY SMTT(15), CatFacts
  <1>21. QED
    BY <1>8, <1>17, <1>19, <1>20 DEF Cat

\* Without overload the text stays; with it, it loses a part in the middle.
LEMMA DropText ==
    ASSUME LogInv, Drop
    PROVE  /\ Increasing(LogText)' /\ UpTo(LogText, lines)'
           /\ ~overloaded' => LogText' = LogText /\ ~overloaded
  <1>1. /\ buffersToWrite \in Seq(Seq(Nat)) /\ Len(buffersToWrite) \in Nat /\ written = 0
        /\ Increasing(LogText) /\ UpTo(LogText, lines) /\ lines \in Nat
    BY DEF LogInv, TypeInv, SparesInv, BuffersOK, Buffer, Drop
  <1>2. /\ UNCHANGED <<written, output, buffers, currentBuffer, lines>>
        /\ buffersToWrite' = Kept
        /\ overloaded' = (overloaded \/ Len(buffersToWrite) > Overload)
    BY DEF Drop, front
  <1>3. OnDisk(output)' = OnDisk(output) /\ output.buffer' = output.buffer
    BY <1>2
  <1>4. CASE ~(Len(buffersToWrite) > Overload)
    <2>1. buffersToWrite' = buffersToWrite
      BY <1>2, <1>4 DEF Kept
    <2>2. ToWrite' = ToWrite /\ Lines(buffers)' = Lines(buffers)
          /\ Lines(currentBuffer)' = Lines(currentBuffer)
      BY <1>2, <2>1 DEF ToWrite
    <2>3. LogText' = LogText
      BY <1>3, <2>2 DEF LogText
    <2>4. QED
      BY <1>1, <1>2, <2>3 DEF Increasing, UpTo
  <1>5. CASE Len(buffersToWrite) > Overload
    <2>1. Len(buffersToWrite) > 2
      BY <1>1, <1>5, LogAssumption
    <2>2. PICK kept \in Seq(Seq(Nat)) : kept = SubSeq(buffersToWrite, 1, 2)
      <3>1. \A i \in 1..2 : buffersToWrite[i] \in Seq(Nat)
        BY <1>1, <2>1
      <3>2. SubSeq(buffersToWrite, 1, 2) \in Seq(Seq(Nat))
        BY <3>1, SubSeqProperties
      <3>3. QED
        BY <3>2
    <2>3. PICK rest \in Seq(Seq(Nat)) : rest = SubSeq(buffersToWrite, 3, Len(buffersToWrite))
      <3>1. \A i \in 3..Len(buffersToWrite) : buffersToWrite[i] \in Seq(Nat)
        BY <1>1
      <3>2. SubSeq(buffersToWrite, 3, Len(buffersToWrite)) \in Seq(Seq(Nat))
        BY <1>1, <3>1, SubSeqProperties
      <3>3. QED
        BY <3>2
    <2>4. buffersToWrite = kept \o rest
      <3>1. /\ 1 \in 1..Len(buffersToWrite) + 1 /\ 2 \in 1 - 1..Len(buffersToWrite)
            /\ Len(buffersToWrite) \in 2..Len(buffersToWrite) /\ 2 + 1 = 3
        BY <1>1, <2>1
      <3>2. SubSeq(buffersToWrite, 1, 2) \o SubSeq(buffersToWrite, 2 + 1, Len(buffersToWrite))
                = SubSeq(buffersToWrite, 1, Len(buffersToWrite))
        BY <1>1, <3>1, ConcatAdjacentSubSeq
      <3>3. SubSeq(buffersToWrite, 1, Len(buffersToWrite)) = buffersToWrite
        BY <1>1, SubSeqFull
      <3>4. QED
        BY <2>2, <2>3, <3>1, <3>2, <3>3
    <2>5. PICK k \in Text : k = Lines(kept)
      BY FlattenType DEF Lines, Text
    <2>6. PICK x \in Text : x = Lines(rest)
      BY FlattenType DEF Lines, Text
    <2>7. ToWrite = k \o x
      <3>1. SubSeq(buffersToWrite, written + 1, Len(buffersToWrite)) = kept \o rest
        BY <1>1, <2>4, SubSeqFull
      <3>2. FlattenSeq(kept \o rest) = FlattenSeq(kept) \o FlattenSeq(rest)
        BY FlattenConcat
      <3>3. QED
        BY <2>5, <2>6, <3>1, <3>2 DEF ToWrite, Lines
    <2>8. ToWrite' = k
      <3>1. buffersToWrite' = kept
        BY <1>2, <1>5, <2>2 DEF Kept, First
      <3>2. SubSeq(kept, 1, Len(kept)) = kept
        BY SubSeqFull
      <3>3. SubSeq(buffersToWrite', written' + 1, Len(buffersToWrite')) = kept
        BY <1>1, <1>2, <3>1, <3>2
      <3>4. QED
        BY <2>5, <3>3 DEF ToWrite
    <2>9. PICK f \in Text : f = OnDisk(output) \o output.buffer
      BY LogParts, CatFacts DEF LogInv, Cat
    <2>10. PICK b \in Text : b = Lines(buffers)
      BY LogParts DEF LogInv
    <2>11. PICK c \in Text : c = Lines(currentBuffer)
      BY LogParts DEF LogInv
    <2>12. LogText = f \o (((k \o x) \o b) \o c)
      BY <2>7, <2>9, <2>10, <2>11 DEF LogText
    <2>13. LogText' = f \o ((k \o b) \o c)
      BY <1>2, <1>3, <2>8, <2>9, <2>10, <2>11 DEF LogText
    <2>14. PICK p \in Text : p = Cat(f, k)
      BY CatFacts
    <2>15. PICK q \in Text : q = Cat(b, c)
      BY CatFacts
    <2>16. /\ Cat(f, Cat(Cat(Cat(k, x), b), c)) = Cat(Cat(p, x), q)
           /\ Cat(f, Cat(Cat(k, b), c)) = Cat(p, q)
      BY <2>14, <2>15, CatFacts
    <2>17. LogText = (p \o x) \o q /\ LogText' = p \o q
      BY <2>12, <2>13, <2>16 DEF Cat
    <2>18. Increasing((p \o x) \o q) /\ UpTo((p \o x) \o q, lines)
      BY <1>1, <2>17
    <2>19. Increasing(p \o q) /\ UpTo(p \o q, lines)
      BY <1>1, <2>18, DropInOrder DEF Text
    <2>20. Increasing(LogText') /\ UpTo(LogText', lines')
      BY <1>2, <2>17, <2>19
    <2>21. overloaded'
      BY <1>2, <1>5
    <2>22. QED
      BY <2>20, <2>21
  <1>6. QED
    BY <1>4, <1>5

\* All that was to be written has been, and is flushed.
LEMMA RefillText ==
    ASSUME LogInv, Refill
    PROVE  LogText' = LogText /\ NothingLater(output)' /\ output.name' = output.name
  <1>1. /\ written = Len(buffersToWrite) /\ Len(buffersToWrite) \in Nat
        /\ buffersToWrite' = <<>> /\ written' = 0 /\ output' = Flush(output)
        /\ UNCHANGED <<buffers, currentBuffer>>
    BY DEF LogInv, TypeInv, TypeOK, BuffersOK, Refill, front
  <1>2. SubSeq(buffersToWrite, written + 1, Len(buffersToWrite)) = <<>>
    BY <1>1, SubSeqEmpty
  <1>3. SubSeq(buffersToWrite', written' + 1, Len(buffersToWrite')) = <<>>
    <2>1. SubSeq(<<>>, 0 + 1, 0) = <<>>
      BY SubSeqEmpty
    <2>2. QED
      BY <1>1, <2>1
  <1>4. ToWrite' = ToWrite
    BY <1>2, <1>3 DEF ToWrite
  <1>5. QED
    BY <1>1, <1>4, FlushText

\* Before the first line there is none anywhere.
LEMMA LogInit == Init => LogInv
  <1> SUFFICES ASSUME Init PROVE LogInv
    OBVIOUS
  <1>1. TypeInv
    BY TypeInit
  <1>2. /\ buffersToWrite = <<>> /\ written = 0 /\ buffers = <<>> /\ currentBuffer = <<Empty>>
        /\ output = NewLogFile(0) /\ second = 0 /\ lines = 0 /\ pc = "test"
    BY DEF Init
  <1>3. /\ output.disk = [s \in Seconds |-> <<>>] /\ output.name = 0 /\ output.buffer = <<>>
    BY <1>2 DEF NewLogFile
  <1>4. NothingLater(output)
    BY <1>3 DEF NothingLater
  <1>5. OnDisk(output) = <<>>
    <2>1. PICK a : a = [i \in 1..(MaxSeconds + 1) |-> output.disk[i - 1]]
      OBVIOUS
    <2>2. \A i \in 1..(MaxSeconds + 1) : i - 1 \in Seconds
      BY RollAssumption DEF Seconds
    <2>3. \A i \in 1..(MaxSeconds + 1) : output.disk[i - 1] = <<>>
      BY <1>3, <2>2
    <2>4. a \in Seq(Seq(Nat)) /\ Len(a) = MaxSeconds + 1
      <3>1. <<>> \in Seq(Nat) /\ MaxSeconds + 1 \in Nat
        BY RollAssumption
      <3>2. \A i \in 1..(MaxSeconds + 1) : output.disk[i - 1] \in Seq(Nat)
        BY <2>3, <3>1
      <3>3. QED
        BY <2>1, <3>1, <3>2
    <2>5. \A i \in 1..Len(a) : a[i] = <<>>
      BY <2>1, <2>3, <2>4
    <2>6. FlattenSeq(a) = <<>>
      BY <2>4, <2>5, FlattenNothing
    <2>7. QED
      BY <2>1, <2>6 DEF OnDisk
  <1>6. ToWrite = <<>>
    <2>1. SubSeq(<<>>, 0 + 1, 0) = <<>>
      BY SubSeqEmpty
    <2>2. QED
      BY <1>2, <2>1, FlattenEmpty DEF ToWrite, Lines
  <1>7. Lines(buffers) = <<>> /\ Lines(currentBuffer) = <<>>
    <2>1. Empty \in Seq(Nat)
      BY EmptySeq DEF Empty
    <2>2. Lines(<<Empty>>) = Empty
      BY <2>1, FlattenOne DEF Lines
    <2>3. QED
      BY <1>2, <2>2, FlattenEmpty DEF Lines, Empty
  <1>8. LogText = <<>>
    <2>1. <<>> \o <<>> = <<>>
      BY EmptySeq, ConcatEmptySeq
    <2>2. QED
      BY <1>3, <1>5, <1>6, <1>7, <2>1 DEF LogText
  <1>9. Increasing(LogText) /\ UpTo(LogText, lines) /\ Len(LogText) = lines
    BY <1>2, <1>8 DEF Increasing, UpTo
  <1>10. QED
    BY <1>1, <1>2, <1>3, <1>4, <1>9 DEF LogInv

\* The text and what it depends on stay, and with them the rest of the invariant.
LEMMA LogKept ==
    ASSUME LogInv, TypeInv', LogText' = LogText, NothingLater(output)',
           output.name' <= second', UNCHANGED <<lines, overloaded>>,
           pc' = "refill" => written' = Len(buffersToWrite')
    PROVE  LogInv'
  <1>1. Increasing(LogText)' /\ UpTo(LogText, lines)' /\ (~overloaded' => Len(LogText') = lines')
    BY DEF LogInv, Increasing, UpTo
  <1>2. QED
    BY <1>1 DEF LogInv

\* Every step keeps every line, or sets overloaded.
LEMMA LogNext == LogInv /\ [Next]_vars => LogInv'
  <1> SUFFICES ASSUME LogInv, [Next]_vars PROVE LogInv'
    OBVIOUS
  <1>1. TypeInv /\ TypeInv'
    BY TypeNext DEF LogInv
  <1>2. /\ NothingLater(output) /\ output.name <= second /\ output.name \in Nat /\ second \in Nat
        /\ lines \in Nat
        /\ pc = "refill" => written = Len(buffersToWrite)
    BY <1>1, LogFileFields DEF LogInv, TypeInv, TypeOK, SparesInv, Seconds
  <1>3. ASSUME UNCHANGED <<output, buffersToWrite, written, buffers, currentBuffer>>
        PROVE  LogText' = LogText /\ NothingLater(output)' /\ output.name' = output.name
    <2>1. /\ OnDisk(output)' = OnDisk(output) /\ output.buffer' = output.buffer
          /\ ToWrite' = ToWrite /\ Lines(buffers)' = Lines(buffers)
          /\ Lines(currentBuffer)' = Lines(currentBuffer)
      BY <1>3 DEF ToWrite
    <2>2. NothingLater(output)'
      BY <1>2, <1>3 DEF NothingLater
    <2>3. QED
      BY <1>3, <2>1, <2>2 DEF LogText
  <1>4. CASE AppendLine \/ AppendFatal
    <2>1. /\ UNCHANGED <<pc, written, buffersToWrite, output, second, overloaded>>
          /\ lines' = lines + 1
      BY <1>4 DEF AppendLine, AppendFatal, back
    <2>2. LogText' = LogText \o <<lines + 1>>
      BY <1>4, LineText
    <2>3. PICK t \in Seq(Nat) : t = LogText
      BY <1>1, <1>2, LogParts DEF Text
    <2>4. Increasing(t) /\ UpTo(t, lines) /\ (~overloaded => Len(t) = lines)
      BY <2>3 DEF LogInv
    <2>5. PICK s : s = t \o <<lines + 1>>
      OBVIOUS
    <2>6. Increasing(s) /\ UpTo(s, lines + 1) /\ Len(s) = Len(t) + 1
      BY <1>2, <2>4, <2>5, GrowInOrder
    <2>7. LogText' = s
      BY <2>2, <2>3, <2>5
    <2>8. /\ Increasing(LogText)' /\ UpTo(LogText, lines)'
          /\ ~overloaded' => Len(LogText') = lines'
      BY <2>1, <2>4, <2>6, <2>7
    <2>9. NothingLater(output)'
      BY <1>2, <2>1 DEF NothingLater
    <2>10. QED
      BY <1>1, <1>2, <2>1, <2>8, <2>9 DEF LogInv
  <1>5. CASE Stop \/ Abort \/ Wait \/ TestRunning
    <2>1. /\ UNCHANGED <<output, buffersToWrite, written, buffers, currentBuffer>>
          /\ UNCHANGED <<second, lines, overloaded>>
          /\ pc' = "refill" => pc = "refill"
      BY <1>5 DEF Stop, Abort, Wait, TestRunning, front, back
    <2>2. QED
      BY <1>1, <1>2, <1>3, <2>1, LogKept
  <1>6. CASE Tick
    <2>1. /\ UNCHANGED <<output, buffersToWrite, written, buffers, currentBuffer>>
          /\ UNCHANGED <<pc, lines, overloaded>> /\ second' = second + 1
      BY <1>6 DEF Tick, front, back
    <2>2. output.name' <= second'
      BY <1>2, <1>3, <2>1
    <2>3. QED
      BY <1>1, <1>2, <1>3, <2>1, <2>2, LogKept
  <1>7. CASE TakeFull \/ Wake
    <2>1. /\ Exchange /\ pc \in {"lock", "wait"}
          /\ UNCHANGED <<output, second, lines, overloaded>> /\ pc' = "drop"
      BY <1>7 DEF TakeFull, Wake, Exchange
    <2>2. LogText' = LogText
      BY <2>1, ExchangeText
    <2>3. NothingLater(output)' /\ output.name' <= second'
      BY <1>2, <2>1 DEF NothingLater
    <2>4. QED
      BY <1>1, <2>1, <2>2, <2>3, LogKept
  <1>8. CASE Drop
    <2>1. UNCHANGED <<output, second, lines>> /\ pc' = "write"
      BY <1>8 DEF Drop
    <2>2. NothingLater(output)' /\ output.name' <= second'
      BY <1>2, <2>1 DEF NothingLater
    <2>3. /\ Increasing(LogText)' /\ UpTo(LogText, lines)'
          /\ ~overloaded' => LogText' = LogText /\ ~overloaded
      BY <1>8, DropText
    <2>4. ~overloaded' => Len(LogText') = lines'
      BY <2>1, <2>3 DEF LogInv
    <2>5. QED
      BY <1>1, <2>1, <2>2, <2>3, <2>4 DEF LogInv
  <1>9. CASE Write
    <2>1. /\ UNCHANGED <<second, lines, overloaded, buffersToWrite>> /\ pc = "write"
          /\ pc' = IF written' = Len(buffersToWrite) THEN "refill" ELSE "write"
      BY <1>9 DEF Write
    <2>2. LogText' = LogText /\ NothingLater(output)' /\ output.name' <= second
      BY <1>9, WriteText
    <2>3. pc' = "refill" => written' = Len(buffersToWrite')
      BY <2>1
    <2>4. QED
      BY <1>1, <2>1, <2>2, <2>3, LogKept
  <1>10. CASE Refill
    <2>1. UNCHANGED <<second, lines, overloaded>> /\ pc' = "test"
      BY <1>10 DEF Refill
    <2>2. LogText' = LogText /\ NothingLater(output)' /\ output.name' = output.name
      BY <1>10, RefillText
    <2>3. QED
      BY <1>1, <1>2, <2>1, <2>2, LogKept
  <1>11. CASE Exit
    <2>1. /\ UNCHANGED <<buffersToWrite, written, buffers, currentBuffer, second, lines, overloaded>>
          /\ output' = Flush(output) /\ pc' = "done"
      BY <1>11 DEF Exit, front
    <2>2. ToWrite' = ToWrite
      BY <2>1 DEF ToWrite
    <2>3. LogText' = LogText /\ NothingLater(output)' /\ output.name' = output.name
      BY <2>1, <2>2, FlushText
    <2>4. QED
      BY <1>1, <1>2, <2>1, <2>3, LogKept
  <1>12. CASE UNCHANGED vars
    <2>1. /\ UNCHANGED <<output, buffersToWrite, written, buffers, currentBuffer>>
          /\ UNCHANGED <<second, pc, lines, overloaded>>
      BY <1>12 DEF vars, front, back
    <2>2. QED
      BY <1>1, <1>2, <1>3, <2>1, LogKept
  <1>13. QED
    BY <1>4, <1>5, <1>6, <1>7, <1>8, <1>9, <1>10, <1>11, <1>12 DEF Next, BackStep

\* The lines in the files, in the file buffer and pending are all lines there are.
LEMMA LogImplied == LogInv => LinesConserved
  <1> SUFFICES ASSUME LogInv PROVE LinesConserved
    OBVIOUS
  <1>1. OnDisk(output) \o output.buffer \o Pending = LogText
    BY DEF Pending, LogText, ToWrite
  <1>2. Increasing(LogText) /\ (~overloaded => Len(LogText) = lines)
    BY DEF LogInv
  <1>3. QED
    BY <1>1, <1>2 DEF LinesConserved, Increasing

\* Whatever the sizes of buffers and files, the overload limit, the number of
\* lines and the seconds that pass: no line is lost, repeated or overtaken on its
\* way from append to the files, unless an overload drops it
\* (AsyncLogThread.cpp:38-53, 68-125, LogFile.cpp:38-73).
THEOREM LinesAreConserved == Spec => []LinesConserved
  <1>1. Spec => []LogInv
    BY LogInit, LogNext, PTL DEF Spec
  <1>2. QED
    BY <1>1, LogImplied, PTL
=============================================================================
