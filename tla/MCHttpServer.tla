---------------------------- MODULE MCHttpServer ----------------------------
(***************************************************************************)
(* HttpServer for TLC: the kinds of requests the runs use.  A connection   *)
(* whose client has nothing more to say is at rest, hence no deadlock      *)
(* check.                                                                  *)
(***************************************************************************)
EXTENDS HttpServer

Kind(close, file, body, form) ==
    [close |-> close, file |-> file, lost |-> FALSE, body |-> body, form |-> form]

\* A request for a file that cannot be opened.
LostFile(close) == [Kind(close, 1, 0, "ok") EXCEPT !.lost = TRUE]

\* Well-formed requests with and without keep-alive, a body and a file, which the
\* socket's buffer may take whole or not, and two that are rejected: at the
\* request line, and by the automaton.
AllKinds ==
    {Kind(FALSE, 0, 2, "ok"), Kind(TRUE, 0, 0, "ok"), Kind(FALSE, 1, 0, "ok"),
     Kind(TRUE, 2, 0, "ok"), LostFile(TRUE), LostFile(FALSE),
     Kind(FALSE, 0, 0, "badMethod"), Kind(FALSE, 0, 0, "malformed")}
=============================================================================
