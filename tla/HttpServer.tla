----------------------------- MODULE HttpServer -----------------------------
(***************************************************************************)
(* HttpServer (http/HttpServer.cpp) on one TcpConnection object: a client  *)
(* sends requests, the connection's loop reads them in pieces, the parser  *)
(* consumes them, onMessage and onRequest answer, and when the connection  *)
(* is closed the object is recycled for another client (Epoll.cpp:126).    *)
(*                                                                         *)
(* A request is a sequence of parts: its request line, its header lines,   *)
(* then its body.  A read ends between two parts or inside a token of one   *)
(* of the first two; execute forgets where that token began                 *)
(* (http11_parser.rl:283-286) and takes the rest of it for all of it.  A    *)
(* response is a run of bytes, the header and what it carries in memory,    *)
(* and perhaps a file.                                                      *)
(***************************************************************************)
EXTENDS Connection

CONSTANTS
    Kinds,          \* the requests clients send: see KindType
    HeaderLength,   \* bytes of a response before the file
    MaxRequests,    \* bound: requests of one client
    MaxClients      \* bound: clients served, one after the other, by the object

KindType ==
    [close : BOOLEAN,   \* not keep-alive: onRequest shuts down after the answer
     file  : Nat,       \* size of the file in the answer, 0 for none
     lost  : BOOLEAN,   \* the file cannot be opened; file is what sendLen_ holds
     body  : Nat,       \* Content-Length, in parts
     form  : {"ok", "badMethod", "malformed"}]

\* A response has a status line.
ASSUME HttpAssumption ==
    /\ Kinds \subseteq KindType
    /\ HeaderLength \in Nat \ {0}
    /\ MaxRequests \in Nat /\ MaxClients \in Nat \ {0}

VARIABLES
    clients,        \* clients served so far, the current one included
    asked,          \* the kinds of the requests the client has sent
    wire,           \* the parts on their way to the server
    inputBuffer,    \* the parts read and not consumed
    parser,         \* context_: see ParserType
    answered,       \* history: the responses handed to send, oldest first
    tainted         \* history: what has misled the parser, see Taints

serverVars == <<clients, asked, wire, inputBuffer, parser, answered, tainted>>
httpVars == <<connVars, serverVars>>

\* The tokens the server makes use of, by the part they are in.  A method may be
\* cut so that setMethod takes the tail for one it knows: with strncmp that is
\* the empty one, left by a read that ends right behind it (HttpRequest.h:35).
Tokens ==
    [begin |-> {"method", "methodEnd", "path"}, end |-> {"Connection", "Content-Length"},
     body |-> {}]

\* cut: the token whose first piece an earlier read has taken
PartType ==
    [part : DOMAIN Tokens, request : 1..MaxRequests,
     cut  : {"none"} \cup UNION {Tokens[d] : d \in DOMAIN Tokens}]

ParserType ==
    [cs      : {"start", "partial", "finished", "error"},   \* the automaton
     error   : BOOLEAN,                                     \* error_
     request : 0..MaxRequests,                              \* whose head it has
     missed  : SUBSET {"path", "Connection", "Content-Length"}, \* not as sent
     body    : Nat]                                         \* parts of the body

\* A read that ended inside a token; an error of the object's previous client.
Taints == {"cut", "inherited"}

HttpTypeOK ==
    /\ ConnTypeOK
    /\ clients \in 1..MaxClients
    /\ asked \in Seq(Kinds)
    /\ wire \in Seq(PartType)
    /\ inputBuffer \in Seq(PartType)
    /\ parser \in ParserType
    /\ answered \in Seq([request : 0..MaxRequests, status : {"ok", "bad", "notFound"}])
    /\ tainted \subseteq Taints
    /\ parser.request <= Len(asked)
    /\ parser.cs = "start" => parser.request = 0 /\ parser.body = 0 /\ parser.missed = {}

HttpInit ==
    /\ ConnInit
    /\ clients = 1
    /\ asked = <<>>
    /\ wire = <<>>
    /\ inputBuffer = <<>>
    /\ parser = [cs |-> "start", error |-> FALSE, request |-> 0, missed |-> {}, body |-> 0]
    /\ answered = <<>>
    /\ tainted = {}

----------------------------------------------------------------------------
(* The parser.                                                             *)

\* Mutant: the request is kept.
ParserResetKeeps(p) == [p EXCEPT !.cs = "start"]

\* reset(): the automaton and the request start again, error_ stays.
ParserReset(p) == [p EXCEPT !.cs = "start", !.request = 0, !.missed = {}, !.body = 0]

\* The callbacks of the request line: a method that is not known, as the tail of
\* one is not, sets error_; any path will do.  Of a version only a tail can be
\* unknown, any other the automaton refuses (http11_parser.rl:222-223): cutting
\* it does what cutting the method does.
OnRequestLine(p, t) ==
    [p EXCEPT !.request = t.request,
              !.error = \/ @ \/ t.cut = "method"
                        \/ asked[t.request].form = "badMethod" /\ t.cut # "methodEnd",
              !.missed = {t.cut} \cap {"path"}]

\* The callbacks of the header lines: one that was cut has an empty name by
\* now, or a tail of its name, and is not found.
OnHeaderLines(p, t) == [p EXCEPT !.cs = "finished", !.missed = @ \cup ({t.cut} \ {"none"})]

\* The automaton takes one part; finished or in error it takes none.
Step(x) ==
    IF x.buf = <<>> \/ x.p.cs \in {"finished", "error"} THEN x
    ELSE LET t    == Head(x.buf)
             form == asked[t.request].form
             p    == IF x.p.cs = "start" /\ t.part = "begin"
                     THEN [OnRequestLine(x.p, t) EXCEPT !.cs = "partial"]
                     ELSE IF x.p.cs = "partial" /\ t.part = "end" /\ form # "malformed"
                     THEN OnHeaderLines(x.p, t)
                     ELSE [x.p EXCEPT !.cs = "error"]
         IN  [p |-> p, buf |-> Tail(x.buf)]

\* execute(): a head is two parts, and the automaton stops after it.
Execute(p, buf) == Step(Step([p |-> p, buf |-> buf]))

\* Mutant: a head that is not complete yet counts as an error.
HasErrorIfUnfinished(p) == p.error \/ p.cs # "finished"

HasError(p) == p.error \/ p.cs = "error"

\* getContentLength(), in parts
ContentLength(p) ==
    IF "Content-Length" \in p.missed THEN 0 ELSE asked[p.request].body

----------------------------------------------------------------------------
(* onMessage and onRequest, on what they change: the connection c, the     *)
(* parser p, and the histories h (bytes handed over) and a (responses).    *)

NextBytes(h, n) == [i \in 1..n |-> Len(h) + i]

\* Mutant: the connection stays open after the 400.
RejectOnly(x) ==
    [x EXCEPT !.c = SendInLoop(@, NextBytes(x.h, 1)),
              !.h = @ \o NextBytes(x.h, 1),
              !.a = Append(@, [request |-> x.p.request, status |-> "bad"])]

\* The 400 of onMessage: send(string_view) goes to sendInLoop in every state.
Reject(x) ==
    LET taken == x.c.state = "kConnected" \/ (x.c.state = "kDisconnecting" /\ ~x.c.fin)
    IN  [x EXCEPT !.c = Shutdown(SendInLoop(@, NextBytes(x.h, 1))),
                  !.h = IF taken THEN @ \o NextBytes(x.h, 1) ELSE @,
                  !.a = IF taken
                        THEN Append(@, [request |-> x.p.request, status |-> "bad"]) ELSE @]

\* The message handler does not know a tail of a path; without a Connection
\* header, too, the response closes the connection.
Response(p) ==
    LET kind == asked[p.request]
    IN  [close  |-> kind.close \/ "path" \in p.missed \/ "Connection" \in p.missed,
         file   |-> IF "path" \in p.missed THEN 0 ELSE kind.file,
         lost   |-> kind.lost,
         status |-> IF "path" \in p.missed THEN "notFound" ELSE "ok"]

\* setSendFile, if the response has a file
ResponseFile(c, response, bytes) ==
    IF response.file = 0 THEN c
    ELSE IF response.lost THEN SetLostFile(c, bytes) ELSE SetSendFile(c, bytes)

\* onRequest up to its send
Respond(x) ==
    LET response == Response(x.p)
        bytes    == NextBytes(x.h, HeaderLength + response.file)
        c        == ResponseFile(x.c, response, Rest(bytes, HeaderLength))
        sent     == [x EXCEPT !.c = SendBuffer(c, First(bytes, HeaderLength))]
    IN  IF x.c.state # "kConnected" THEN sent
        ELSE [sent EXCEPT
                 !.h = @ \o bytes,
                 !.a = Append(@, [request |-> x.p.request, status |-> response.status])]

\* Mutant: the context is not reset for the next request.
EndRequestNoReset(x) == IF Response(x.p).close THEN [x EXCEPT !.c = Shutdown(@)] ELSE x

\* The rest of onRequest: shutdown, or the reset for the next request.
EndRequest(x) ==
    IF Response(x.p).close THEN [x EXCEPT !.c = Shutdown(@)]
    ELSE [x EXCEPT !.c = IF x.c.sendFile THEN SendFileReset(@) ELSE @,
                   !.p = ParserReset(@)]

\* How many parts of the body onMessage takes from the buffer.
BodyRead(e) ==
    IF e.p.cs = "finished" THEN Least(ContentLength(e.p) - e.p.body, Len(e.buf)) ELSE 0

\* Mutant: the body is answered as soon as a part of it is there.
CompleteEarly(p) == p.cs = "finished"

Complete(p) == p.cs = "finished" /\ p.body = ContentLength(p)

\* The rest of onMessage after execute has left the parser e.p and the buffer
\* e.buf.  At most one request is answered, whatever the buffer holds.
OnMessage(e) ==
    LET x == [c |-> conn, p |-> e.p, h |-> handed, a |-> answered]
    IN  /\ inputBuffer' = Rest(e.buf, BodyRead(e))
        /\ \E y \in {IF HasError(e.p) THEN Reject(x) ELSE x} :
           \E z \in {[y EXCEPT !.p.body = @ + BodyRead(e)]} :
           \E s \in {IF Complete(z.p) THEN Respond(z) ELSE z} :
           \E r \in {IF Complete(z.p) THEN EndRequest(s) ELSE s} :
              /\ conn' = r.c
              /\ parser' = r.p
              /\ handed' = r.h
              /\ answered' = r.a

----------------------------------------------------------------------------
(* Steps of the server.                                                    *)

\* Whether a read may end inside a token of t: if the automaton, as e has left
\* it, takes the first piece at once.  (What it leaves in the buffer is
\* read again as a whole.)  A part is cut at most once.
Cuttable(e, t) ==
    /\ e.buf = <<>> /\ e.p.cs \in {"start", "partial"}
    /\ t.cut = "none"

\* handleRead with n > 0: it takes what has arrived, any number of parts and
\* perhaps a piece of the next one.
HandleRead ==
    /\ conn.isReading
    /\ peer # "reset"
    /\ \E m \in 0..Len(wire) :
         \E e \in {Execute(parser, inputBuffer \o First(wire, m))} :
             /\ \/ m > 0 /\ wire' = Rest(wire, m) /\ UNCHANGED tainted
                \/ /\ m < Len(wire)
                   /\ \E token \in Tokens[wire[m + 1].part] :
                         /\ Cuttable(e, wire[m + 1])
                         /\ wire' = Rest([wire EXCEPT ![m + 1].cut = token], m)
                   /\ tainted' = tainted \cup {"cut"}
             /\ OnMessage(e)
    /\ UNCHANGED <<peer, received, clients, asked>>

\* handleRead with n = 0, once everything has been read.
EventClose ==
    /\ wire = <<>> \/ peer = "reset"
    /\ EventRead

\* createConnection takes the object from the pool for the next client.
ConnectReset ==
    /\ conn.state = "kDisconnected"
    /\ clients < MaxClients
    /\ clients' = clients + 1
    /\ conn' = NewConnection
    /\ parser' = ParserReset(parser)
    /\ inputBuffer' = <<>>
    /\ peer' = "open"
    /\ received' = <<>> /\ handed' = <<>> /\ answered' = <<>>
    /\ asked' = <<>> /\ wire' = <<>>
    /\ tainted' = IF parser.error THEN {"inherited"} ELSE {}

----------------------------------------------------------------------------
(* The client and the network.                                             *)

\* A client may wait for its answers, or not; it may go on after a request that
\* closes the connection.
ClientSend(k) ==
    /\ peer = "open"
    /\ conn.state # "kConnecting"
    /\ Len(asked) < MaxRequests
    /\ LET Part(d) == [part |-> d, request |-> Len(asked) + 1, cut |-> "none"]
       IN  wire' = wire \o <<Part("begin"), Part("end")>> \o [i \in 1..k.body |-> Part("body")]
    /\ asked' = Append(asked, k)
    /\ UNCHANGED <<conn, peer, received, handed, clients, inputBuffer, parser, answered, tainted>>

----------------------------------------------------------------------------
HttpLoopStep ==
    \/ HandleRead
    \/ (ConnectEstablished \/ EventClose \/ EventWrite) /\ UNCHANGED serverVars

HttpNext ==
    \/ HttpLoopStep
    \/ ConnectReset
    \/ \E k \in Kinds : ClientSend(k)
    \/ (Deliver \/ PeerFin \/ PeerReset) /\ UNCHANGED serverVars

\* The loop serves what epoll reports, the network delivers; clients may stop
\* at any point, and no further client has to come.
HttpFairness ==
    WF_httpVars(HttpLoopStep) /\ WF_httpVars(Deliver /\ UNCHANGED serverVars)

HttpSpec == HttpInit /\ [][HttpNext]_httpVars /\ HttpFairness

----------------------------------------------------------------------------
(* Properties.                                                             *)

\* Responses leave in the order of the requests, one each but for a 400, which
\* every further read repeats, and none for a request that was not made: across
\* segments, bodies, keep-alive and reuse of the connection object
\* (HttpServer.cpp:49-101).
AnswersInOrder ==
    "cut" \notin tainted =>
        /\ \A i \in 1..Len(answered) : answered[i].request \in 1..Len(asked)
        /\ \A i, j \in 1..Len(answered) :
              i < j /\ answered[i].status # "bad" =>
                  answered[i].request < answered[j].request

\* Nothing of request r is still to be taken, from the input buffer or the wire.
Consumed(r) ==
    LET coming == inputBuffer \o wire
    IN  \A j \in 1..Len(coming) : coming[j].request # r

\* A request is answered when it has been read and consumed to its last part:
\* not before, so that nothing of it is taken for the next request, and not
\* later, as long as the connection is up (HttpServer.cpp:58-101).
AnswerAfterBody ==
    "cut" \notin tainted =>
        /\ \A i \in 1..Len(answered) :
              answered[i].status = "ok" => Consumed(answered[i].request)
        /\ conn.state = "kConnected" =>
              \A r \in 1..Len(asked) :
                  Consumed(r) => \E i \in 1..Len(answered) : answered[i].request = r

\* After a 400 error_ remains, and while the 400 waits for EPOLLOUT every further
\* request is answered with another.
Deserved ==
    \A i \in 1..Len(answered) :
        LET good == asked[answered[i].request].form = "ok"
        IN  /\ answered[i].status = "ok" => good
            /\ good => \/ answered[i].status = "ok"
                       \/ \E j \in 1..(i - 1) : answered[j].status = "bad"

\* The first 400 goes to a bad request, and no bad request gets another answer,
\* unless a read has ended inside a token or the object has an error from the
\* client before: whatever else the reads contain, each request is parsed on
\* its own.
RightAnswer == tainted = {} => Deserved

\* The same for every client of the object (HttpServer.cpp:97 says that the
\* context is reset for the next request, and connectReset relies on it).
FreshContext == "cut" \notin tainted => Deserved

\* The byte stream of TcpConnection, and its FIN, under the calls HttpServer makes.
ResponseIntact == StreamIntact /\ FinAfterData

\* onMessage answers one request for each read (line 60): what follows it in
\* the input buffer waits for the next read, and nothing more is coming.
Starved == wire = <<>> /\ inputBuffer # <<>> /\ parser.cs = "start"

\* Every request on a connection that stays up is answered, with whatever
\* answer, wherever the reads end.
EveryRequestAnswered ==
    \A r \in 1..MaxRequests :
        (Len(asked) >= r /\ Open) ~>
            \/ \E i \in 1..Len(answered) : answered[i].request = r
            \/ conn.state # "kConnected"
            \/ Starved

\* An answer after which the connection is to be closed has been given.
ClosingAnswer ==
    \E i \in 1..Len(answered) :
        answered[i].status # "ok" \/ asked[answered[i].request].close

\* The server shuts the connection down after the answer to a request without
\* keep-alive, and after a 400, unless sendfile sends nothing more of its file:
\* then neither the FIN nor the close ever comes from this side.
CloseFollows == ClosingAnswer ~> (conn.fin \/ ~Open \/ Exhausted)
=============================================================================
