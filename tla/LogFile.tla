------------------------------ MODULE LogFile ------------------------------
(***************************************************************************)
(* LogFile (base/LogFile.cpp) and the WriteFile it holds (base/File.cpp):  *)
(* what is appended to the log stays in stdio's buffer until it is         *)
(* flushed, and a file that has become too long is replaced by one that is *)
(* named after the second in which it is opened.                           *)
(*                                                                         *)
(* A LogFile is a record and its member functions are operators on it.     *)
(* Files are sequences of lines; a file that was never opened is empty.    *)
(***************************************************************************)
EXTENDS Naturals, SequencesExt

CONSTANTS
    RollSize,       \* rollSize_, in lines
    MaxSeconds      \* bound: seconds that pass

ASSUME RollAssumption ==
    /\ RollSize \in Nat \ {0}
    /\ MaxSeconds \in Nat

Seconds == 0..MaxSeconds

LogFileType ==
    [disk     : [Seconds -> Seq(Nat)],      \* the files, by their names
     name     : Seconds,                    \* file_: the one that is open,
     buffer   : Seq(Nat),                   \* what stdio holds of it,
     writeLen : Nat]                        \* and what was appended to it

\* The constructor, with the clock at second.
NewLogFile(second) ==
    [disk |-> [s \in Seconds |-> <<>>], name |-> second, buffer |-> <<>>, writeLen |-> 0]

Flush(log) == [log EXCEPT !.disk[log.name] = @ \o log.buffer, !.buffer = <<>>]

\* Mutant: the new file is opened with "w".
RollFileTruncates(log, second) ==
    [Flush([log EXCEPT !.disk[second] = <<>>]) EXCEPT !.name = second, !.writeLen = 0]

\* The new file is opened, for appending, before the old one is flushed and
\* closed; within a second they are one and the same.
RollFile(log, second) == [Flush(log) EXCEPT !.name = second, !.writeLen = 0]

\* WriteFile::append, when stdio passes so much of what it holds on by itself.
FileAppend(log, data, passed) ==
    LET held == log.buffer \o data
    IN  [log EXCEPT !.disk[log.name] = @ \o SubSeq(held, 1, passed),
                    !.buffer = SubSeq(held, passed + 1, Len(held)),
                    !.writeLen = @ + Len(data)]

AppendUnlocked(log, data, passed, second) ==
    LET appended == FileAppend(log, data, passed)
    IN  IF appended.writeLen >= RollSize THEN RollFile(appended, second) ELSE appended

\* What a reader finds who opens the files in the order of their names.
OnDisk(log) == FlattenSeq([i \in 1..(MaxSeconds + 1) |-> log.disk[i - 1]])
=============================================================================
