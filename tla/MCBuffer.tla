------------------------------ MODULE MCBuffer ------------------------------
(***************************************************************************)
(* Buffer for TLC: the data handed over, in pieces of different length.    *)
(***************************************************************************)
EXTENDS Buffer

Pieces == {<<1>>, <<1, 2>>, <<1, 2, 3>>}
=============================================================================
