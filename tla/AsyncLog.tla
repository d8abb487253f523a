------------------------------ MODULE AsyncLog ------------------------------
(***************************************************************************)
(* AsyncLogThread (base/AsyncLogThread.cpp): any thread appends lines to   *)
(* the current buffer under mutex_; one back end exchanges the front end's *)
(* buffers for two spare ones and writes them to a LogFile.  A FATAL line   *)
(* (base/Logging.cpp) goes the same way before it ends the process.        *)
(*                                                                         *)
(* Lines are numbered in the order in which append gets the mutex, a       *)
(* buffer is the sequence of its lines, and a unique_ptr is a sequence of  *)
(* at most one buffer, so that moving it to the end of a vector is \o.     *)
(***************************************************************************)
EXTENDS LogFile

CONSTANTS
    LinesPerBuffer,     \* lines a buffer takes (kLargeBuffer)
    Overload,           \* the back end drops buffers when it has more: 25
    Fatals,             \* BOOLEAN: a thread may log a FATAL line
    MaxLines            \* bound: calls of append

ASSUME LogAssumption ==
    /\ LinesPerBuffer \in Nat \ {0}
    /\ Overload \in Nat /\ Overload >= 2
    /\ Fatals \in BOOLEAN
    /\ MaxLines \in Nat

VARIABLES
    running,            \* running_
    currentBuffer, nextBuffer, buffers,                 \* under mutex_
    pc,                 \* where the back end is: see States
    newBuffer1, newBuffer2, buffersToWrite,             \* its locals
    written,            \* and how many of buffersToWrite are in the LogFile
    output,             \* the LogFile
    second,             \* time(nullptr)
    fatal,              \* the FATAL line that is about to end the process, 0 for none
    lines,              \* history: lines appended so far
    overloaded          \* history: buffers have been dropped

front == <<currentBuffer, nextBuffer, buffers>>
back == <<newBuffer1, newBuffer2, buffersToWrite, written, output>>
vars == <<running, front, pc, back, second, fatal, lines, overloaded>>

Buffer == Seq(Nat)
Empty == <<>>
null == <<>>

States == {"test", "lock", "wait", "drop", "write", "refill", "exit", "done", "aborted"}

BuffersOK ==
    /\ currentBuffer \in Seq(Buffer) /\ Len(currentBuffer) = 1
    /\ nextBuffer \in Seq(Buffer) /\ Len(nextBuffer) <= 1
    /\ buffers \in Seq(Buffer)
    /\ newBuffer1 \in Seq(Buffer) /\ Len(newBuffer1) <= 1
    /\ newBuffer2 \in Seq(Buffer) /\ Len(newBuffer2) <= 1
    /\ buffersToWrite \in Seq(Buffer)

TypeOK ==
    /\ running \in BOOLEAN
    /\ BuffersOK
    /\ pc \in States
    /\ written \in 0..Len(buffersToWrite)
    /\ output \in LogFileType
    /\ second \in Seconds
    /\ fatal \in 0..lines
    /\ lines \in 0..MaxLines
    /\ overloaded \in BOOLEAN

\* The constructor, start(), and the back end up to its loop.
Init ==
    /\ running = TRUE
    /\ currentBuffer = <<Empty>> /\ nextBuffer = <<Empty>> /\ buffers = <<>>
    /\ pc = "test"
    /\ newBuffer1 = <<Empty>> /\ newBuffer2 = <<Empty>> /\ buffersToWrite = <<>>
    /\ written = 0 /\ second = 0 /\ output = NewLogFile(second)
    /\ fatal = 0
    /\ lines = 0
    /\ overloaded = FALSE

----------------------------------------------------------------------------
(* The front end.                                                          *)

First(s, n) == SubSeq(s, 1, n)

Alive == pc # "aborted"

\* append: to the current buffer, or to the spare or a new one.
AppendTo(line) ==
    LET buffer == currentBuffer[1]
    IN  IF Len(buffer) < LinesPerBuffer
        THEN /\ currentBuffer' = <<buffer \o <<line>>>>
             /\ UNCHANGED <<nextBuffer, buffers>>
        ELSE /\ buffers' = buffers \o currentBuffer
             /\ currentBuffer' = IF nextBuffer # null
                                 THEN <<nextBuffer[1] \o <<line>>>>
                                 ELSE <<Empty \o <<line>>>>
             /\ nextBuffer' = null

\* ~Logger in any thread: the line goes to g_output.
AppendLine ==
    /\ Alive
    /\ lines < MaxLines
    /\ lines' = lines + 1
    /\ AppendTo(lines')
    /\ UNCHANGED <<running, pc, back, second, fatal, overloaded>>

\* ~Logger of a FATAL line, up to g_flush, which is still the one of stdout.
AppendFatal ==
    /\ Alive /\ Fatals /\ fatal = 0
    /\ lines < MaxLines
    /\ lines' = lines + 1
    /\ fatal' = lines'
    /\ AppendTo(lines')
    /\ UNCHANGED <<running, pc, back, second, overloaded>>

\* Its last statement, abort(): the files stay, all memory is lost.
Abort ==
    /\ Alive /\ fatal # 0
    /\ pc' = "aborted"
    /\ UNCHANGED <<running, front, back, second, fatal, lines, overloaded>>

Stop ==
    /\ Alive /\ running
    /\ running' = FALSE
    /\ UNCHANGED <<front, pc, back, second, fatal, lines, overloaded>>

Tick ==
    /\ Alive /\ second < MaxSeconds
    /\ second' = second + 1
    /\ UNCHANGED <<running, front, pc, back, fatal, lines, overloaded>>

----------------------------------------------------------------------------
(* The back end.                                                           *)

TestRunning ==
    /\ pc = "test"
    /\ pc' = IF running THEN "lock" ELSE "exit"
    /\ UNCHANGED <<running, front, back, second, fatal, lines, overloaded>>

\* Mutant: the second spare buffer is given away even if it is not needed.
ExchangeBoth ==
    /\ buffersToWrite' = buffers \o currentBuffer
    /\ buffers' = <<>>
    /\ currentBuffer' = newBuffer1
    /\ newBuffer1' = null
    /\ nextBuffer' = newBuffer2
    /\ newBuffer2' = null
    /\ pc' = "drop"
    /\ UNCHANGED <<running, written, output, second, fatal, lines, overloaded>>

\* Under mutex_, after the wait if there was one; its outcome is not looked at.
Exchange ==
    /\ buffersToWrite' = buffers \o currentBuffer
    /\ buffers' = <<>>
    /\ currentBuffer' = newBuffer1
    /\ newBuffer1' = null
    /\ nextBuffer' = IF nextBuffer = null THEN newBuffer2 ELSE nextBuffer
    /\ newBuffer2' = IF nextBuffer = null THEN null ELSE newBuffer2
    /\ pc' = "drop"
    /\ UNCHANGED <<running, written, output, second, fatal, lines, overloaded>>

\* The mutex is taken and there is a full buffer.
TakeFull ==
    /\ pc = "lock"
    /\ buffers # <<>>
    /\ Exchange

\* There is none: wait_for gives the mutex up.
Wait ==
    /\ pc = "lock"
    /\ buffers = <<>>
    /\ pc' = "wait"
    /\ UNCHANGED <<running, front, back, second, fatal, lines, overloaded>>

\* Mutant: a wait without the timeout.
WakeNotified ==
    /\ pc = "wait"
    /\ buffers # <<>> \/ ~running
    /\ Exchange

\* wait_for returns: notified, after flushSecond_, or for no reason.
Wake ==
    /\ pc = "wait"
    /\ Exchange

Kept == IF Len(buffersToWrite) > Overload THEN First(buffersToWrite, 2) ELSE buffersToWrite

\* In overload all but the oldest two are dropped.
Drop ==
    /\ pc = "drop"
    /\ overloaded' = (overloaded \/ Len(buffersToWrite) > Overload)
    /\ buffersToWrite' = Kept
    /\ pc' = "write"
    /\ UNCHANGED <<running, front, newBuffer1, newBuffer2, written, output, second, fatal, lines>>

\* One buffer is appended to the log file; stdio keeps what it likes of it.
Write ==
    /\ pc = "write"
    /\ LET data == buffersToWrite[written + 1]
       IN  \E passed \in 0..(Len(output.buffer) + Len(data)) :
               output' = AppendUnlocked(output, data, passed, second)
    /\ written' = written + 1
    /\ pc' = IF written' = Len(buffersToWrite) THEN "refill" ELSE "write"
    /\ UNCHANGED <<running, front, newBuffer1, newBuffer2, buffersToWrite, second, fatal,
                   lines, overloaded>>

Reset(buffer) == Empty

\* At most two buffers stay for reuse; each spare one that was given away is
\* replaced by the last of them.  Then the log is flushed.
Refill ==
    /\ pc = "refill"
    /\ LET resized == IF Len(buffersToWrite) > 2 THEN First(buffersToWrite, 2) ELSE buffersToWrite
           n       == Len(resized)
           left    == IF newBuffer1 = null THEN n - 1 ELSE n
       IN  /\ newBuffer1' = IF newBuffer1 = null THEN <<Reset(resized[n])>> ELSE newBuffer1
           /\ newBuffer2' = IF newBuffer2 = null THEN <<Reset(resized[left])>> ELSE newBuffer2
    /\ buffersToWrite' = <<>> /\ written' = 0
    /\ output' = Flush(output)
    /\ pc' = "test"
    /\ UNCHANGED <<running, front, second, fatal, lines, overloaded>>

\* The loop is left and the log is flushed and closed; what the front end holds
\* by then is not written.
Exit ==
    /\ pc = "exit"
    /\ output' = Flush(output)
    /\ pc' = "done"
    /\ UNCHANGED <<running, front, newBuffer1, newBuffer2, buffersToWrite, written, second,
                   fatal, lines, overloaded>>

----------------------------------------------------------------------------
BackStep ==
    TestRunning \/ TakeFull \/ Wait \/ Wake \/ Drop \/ Write \/ Refill \/ Exit

Next == AppendLine \/ AppendFatal \/ Abort \/ Stop \/ Tick \/ BackStep

\* The back end is a thread of its own and its wait has a timeout; nobody has
\* to log or to stop it.
Fairness == WF_vars(BackStep)

Spec == Init /\ [][Next]_vars /\ Fairness

----------------------------------------------------------------------------
(* Properties.                                                             *)

Lines(bs) == FlattenSeq(bs)

\* What has been appended and not yet been given to the log file, in its order.
Pending ==
    Lines(SubSeq(buffersToWrite, written + 1, Len(buffersToWrite)))
        \o Lines(buffers) \o Lines(currentBuffer)

\* Every line is in a file, in stdio's buffer, in a buffer that will be written
\* or in the current one: never twice and in the order of the appends, whichever
\* buffers change hands between the two ends and whenever a file is replaced,
\* even twice in a second; and unless an overload dropped some, all of them are
\* there.  So the files hold a prefix of the log if the process ends at any time.
LinesConserved ==
    LET all == OnDisk(output) \o output.buffer \o Pending
    IN  /\ \A i, j \in 1..Len(all) : i < j => all[i] < all[j]
        /\ ~overloaded => Len(all) = lines

\* The assertions of threadFunc (AsyncLogThread.cpp:70-72, 90, 108, 116): at
\* the top of the loop both spare buffers are there and empty, and there are
\* enough written buffers to replace the ones that were given away.
SparesReady ==
    /\ pc \in {"test", "lock", "wait"} =>
          newBuffer1 = <<Empty>> /\ newBuffer2 = <<Empty>> /\ buffersToWrite = <<>>
    /\ pc \in {"drop", "write"} => buffersToWrite # <<>>
    /\ pc = "refill" =>
          Len(buffersToWrite) >= (IF newBuffer1 = null THEN 1 ELSE 0)
                                 + (IF newBuffer2 = null THEN 1 ELSE 0)
    /\ nextBuffer # null => nextBuffer = <<Empty>>

\* A line is on its way to the disk within flushSecond_, even if no buffer ever
\* fills up, unless it was dropped, the thread was told to stop or the process
\* has ended.
EveryLineFlushed ==
    \A i \in 1..MaxLines :
        (lines >= i) ~>
            (overloaded \/ ~running \/ ~Alive \/ i \in ToSet(OnDisk(output)))

\* A FATAL line is in the file when it ends the process (Logging.cpp:121).
FatalLogged == ~Alive => fatal \in ToSet(OnDisk(output))
=============================================================================
