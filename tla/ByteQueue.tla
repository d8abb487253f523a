------------------------------ MODULE ByteQueue ------------------------------
(***************************************************************************)
(* What a Buffer promises: a queue of bytes, written at its end or taken    *)
(* back from there, read at its front, where a header can be put in, too.   *)
(* Space is not a concern of its users.                                    *)
(***************************************************************************)
EXTENDS Naturals, Sequences

VARIABLES
    queue,      \* the bytes, oldest first
    io          \* the bytes the last call was given or has returned

vars == <<queue, io>>

Begins(s, t) == Len(s) <= Len(t) /\ \A i \in 1..Len(s) : t[i] = s[i]
Ends(s, t) == Len(s) <= Len(t) /\ \A i \in 1..Len(s) : t[Len(t) - Len(s) + i] = s[i]

\* t is r and then s.
Joins(r, s, t) == Begins(r, t) /\ Ends(s, t) /\ Len(t) = Len(r) + Len(s)

Init == queue = <<>> /\ io = <<>>

Put == Joins(queue, io', queue')
PutInFront == Joins(io', queue, queue')
Take == Joins(io', queue', queue)

\* Bytes that have been seen already leave at the front, or at the end.
Drop == io' = <<>> /\ Ends(queue', queue)
TakeBack == io' = <<>> /\ Begins(queue', queue)

Next == Put \/ PutInFront \/ Take \/ Drop \/ TakeBack

Spec == Init /\ [][Next]_vars
=============================================================================
