-------------------------- MODULE HttpServerProofs --------------------------
(***************************************************************************)
(* What holds of an HttpServer for any kinds of requests, any sizes of     *)
(* headers and socket buffers, any number of requests and clients.         *)
(*                                                                         *)
(* The bytes: each of the calls onMessage and onRequest make keeps what    *)
(* TcpConnectionProofs says of a connection (whose own application, with   *)
(* its constants and the variable sends, plays no part here).  The         *)
(* requests: what is still to be consumed is laid out request by request,  *)
(* and the parser stands at a place of that layout.                        *)
(***************************************************************************)
EXTENDS HttpServer, TcpConnectionProofs

-----------------------------------------------------------------------------
(* The connection under onMessage and onRequest.                            *)

\* What a call of onMessage or onRequest leaves of a connection c to which
\* given has been handed over: r, to which all has been.
Served(c, r, got, all) ==
    /\ Good(r, got, all) /\ all \in Bytes
    /\ r.broken = c.broken
    /\ r.state \in {"kConnected", "kDisconnecting"}

\* Bytes not handed over yet are bytes, as many as were asked for.
LEMMA NextBytesOK ==
    ASSUME NEW h \in Bytes, NEW n \in Nat
    PROVE  /\ NextBytes(h, n) \in Bytes /\ Len(NextBytes(h, n)) = n
           /\ n > 0 => NextBytes(h, n) # <<>>
BY DEF NextBytes, Bytes

\* shutdown() of a connection that is good.
LEMMA ShutdownServed ==
    ASSUME NEW c, NEW got, NEW given, Good(c, got, given)
    PROVE  LET r == Shutdown(c)
           IN  /\ Good(r, got, given) /\ r.broken = c.broken
               /\ r.state # "kConnected"
               /\ c.state \in {"kConnected", "kDisconnecting"} => r.state = "kDisconnecting"
<1> DEFINE r == Shutdown(c)
<1>1. ConnOK(c) /\ Intact(c, got, given) /\ Delivered(c, got, given) /\ c \in ConnType
  BY DEF Good, ConnOK
<1>2. /\ ConnOK(r) /\ Intact(r, got, given)
      /\ r.sndbuf = c.sndbuf /\ r.broken = c.broken /\ r.strained = c.strained
  BY <1>1, ShutdownOK
<1>3. Delivered(r, got, given)
  BY <1>1, <1>2 DEF Delivered
<1>4. r.state = IF c.state = "kConnected" THEN "kDisconnecting" ELSE c.state
  BY <1>1 DEF Shutdown, ShutdownInLoop, ConnType
<1> HIDE DEF r
<1>5. /\ r.state # "kConnected"
      /\ c.state \in {"kConnected", "kDisconnecting"} => r.state = "kDisconnecting"
  BY <1>4
<1>6. Good(r, got, given)
  BY <1>2, <1>3 DEF Good
<1> QED
  BY <1>2, <1>5, <1>6 DEF r

\* send() leaves the state as it is.
LEMMA SendState ==
    ASSUME NEW c \in ConnType, NEW data
    PROVE  SendInLoop(c, data).state = c.state
BY ZenonT(20), SMTT(15) DEF SendInLoop, Buffered, SendFileInLoop, SentFile, Strain, SendFileReset,
       QueueWriteComplete, Queue, ConnType

\* The 400: handed over as long as the write side is open, and then the
\* connection is being closed.
LEMMA RejectOK ==
    ASSUME NEW c, NEW got \in Bytes, NEW given \in Bytes, Good(c, got, given),
           c.state \in {"kConnected", "kDisconnecting"}, NEW all,
           all = IF c.state = "kConnected" \/ (c.state = "kDisconnecting" /\ ~c.fin)
                 THEN given \o NextBytes(given, 1) ELSE given
    PROVE  LET r == Shutdown(SendInLoop(c, NextBytes(given, 1)))
           IN  Served(c, r, got, all) /\ r.state = "kDisconnecting"
<1> DEFINE data == NextBytes(given, 1)
           s    == SendInLoop(c, data)
<1>1. data \in Bytes /\ data # <<>>
  BY NextBytesOK
<1>2. c \in ConnType /\ Intact(c, got, given)
  BY DEF Good, ConnOK
<1>3. s.state = c.state
  BY <1>2, SendState
<1> HIDE DEF data
<1>4. all \in {given, given \o data}
  BY DEF data
<1>5. Up(c) => all = IF c.fin THEN given ELSE given \o data
  BY <1>2 DEF data, Intact
<1>6. Good(s, got, all) /\ s.broken = c.broken /\ all \in Bytes
  BY <1>1, <1>4, <1>5, SendOK
<1> HIDE DEF s
<1>7. /\ Good(Shutdown(s), got, all) /\ Shutdown(s).broken = s.broken
      /\ Shutdown(s).state = "kDisconnecting"
  BY <1>3, <1>6, ShutdownServed
<1> QED
  BY <1>6, <1>7 DEF Served, s, data

\* The bytes handed over once a send of bytes in kConnected is among them.
Given(c, given, bytes) == IF c.state = "kConnected" THEN given \o bytes ELSE given

\* A send in kConnected hands over what it is given.
LEMMA SendServed ==
    ASSUME NEW c, NEW got \in Bytes, NEW given \in Bytes, Good(c, got, given),
           c.state = "kConnected", NEW data \in Bytes, data # <<>>,
           NEW all, all = given \o data
    PROVE  /\ Good(SendInLoop(c, data), got, all)
           /\ SendInLoop(c, data).broken = c.broken /\ all \in Bytes
<1>1. Up(c) => all = IF c.fin THEN given ELSE given \o data
  BY DEF Good, Intact
<1>2. all \in {given, given \o data}
  OBVIOUS
<1> QED
  BY <1>1, <1>2, SendOK

\* setSendFile and send in kConnected hand over the response, else nothing.
LEMMA RespondOK ==
    ASSUME NEW c, NEW got \in Bytes, NEW given \in Bytes, Good(c, got, given),
           c.state \in {"kConnected", "kDisconnecting"}, NEW response,
           NEW n \in Nat, n = response.file,
           NEW bytes, bytes = NextBytes(given, HeaderLength + n),
           NEW all, all = Given(c, given, bytes),
           NEW c1, c1 = ResponseFile(c, response, Rest(bytes, HeaderLength)),
           NEW r, r = SendBuffer(c1, First(bytes, HeaderLength))
    PROVE  Served(c, r, got, all) /\ r.state = c.state
<1> DEFINE data == First(bytes, HeaderLength)
           file == Rest(bytes, HeaderLength)
<1>0. all = IF c.state = "kConnected" THEN given \o bytes ELSE given
  BY DEF Given
<1>1. HeaderLength \in Nat /\ HeaderLength > 0
  BY HttpAssumption
<1>2. bytes \in Bytes /\ Len(bytes) = HeaderLength + n
  <2>1. \A k \in Nat : NextBytes(given, k) \in Bytes /\ Len(NextBytes(given, k)) = k
    BY NextBytesOK
  <2>2. HeaderLength + n \in Nat
    BY ONLY <1>1, n \in Nat
  <2> QED
    BY <2>1, <2>2
<1>3. HeaderLength \in 0..Len(bytes)
  BY <1>1, <1>2
<1>4. /\ data \in Bytes /\ Len(data) = HeaderLength /\ file \in Bytes /\ data \o file = bytes
      /\ HeaderLength = Len(bytes) => data = bytes
  BY <1>2, <1>3, FirstRest
<1>5. data # <<>>
  <2>1. Len(<<>>) = 0
    BY EmptySeq
  <2> HIDE DEF data
  <2> QED
    BY <1>1, <1>4, <2>1
<1>6. ConnOK(c) /\ c \in ConnType /\ Intact(c, got, given) /\ Delivered(c, got, given)
  BY DEF Good, ConnOK
<1>c. c1 = IF n > 0 THEN IF response.lost THEN SetLostFile(c, file) ELSE SetSendFile(c, file)
           ELSE c
  BY DEF ResponseFile
<1>r. r = SendBuffer(c1, data)
  OBVIOUS
<1>7. CASE c.state = "kConnected" /\ n > 0 /\ ~response.lost
  <2> DEFINE d == SetSendFile(c, file)
             s == SendInLoop(d, data)
  <2>1. d \in ConnType /\ d.state = "kConnected"
    BY <1>4, <1>6, <1>7, SetSendFileOK DEF ConnOK
  <2>2. s.state = "kConnected"
    BY <2>1, SendState
  <2> HIDE DEF file, data
  <2>3. Good(s, got, given \o (data \o file)) /\ s.broken = c.broken
    BY <1>4, <1>5, <1>7, SendWithFileOK
  <2>4. r = s
    BY <1>c, <1>r, <1>7, <2>1 DEF SendBuffer, data, file
  <2>5. all = given \o (data \o file)
    BY <1>0, <1>4, <1>7
  <2>6. all \in Bytes
    BY <1>0, <1>2, <1>7, ConcatBytes
  <2> HIDE DEF s, d
  <2> QED
    BY <1>7, <2>2, <2>3, <2>4, <2>5, <2>6 DEF Served
<1>l. CASE n > 0 /\ response.lost
  <2> DEFINE d == SetLostFile(c, file)
             s == SendInLoop(d, data)
  <2>1. /\ ConnOK(d) /\ d.strained
        /\ d.state = c.state /\ d.fin = c.fin /\ d.broken = c.broken
    BY <1>4, <1>6, SetLostFileOK
  <2>2. c1 = d
    BY <1>c, <1>l
  <2> HIDE DEF d
  <2>3. ConnOK(s) /\ s.strained /\ s.broken = c.broken /\ s.state = c.state
    <3>1. d.state # "kConnecting" /\ d \in ConnType
      BY <2>1 DEF ConnOK
    <3> HIDE DEF data
    <3> QED
      BY <1>4, <1>5, <2>1, <3>1, SendStrainedOK, SendState
  <2>4. r \in {s, d}
    BY <1>r, <2>2 DEF SendBuffer
  <2>5. all \in Bytes
    BY <1>0, <1>2, ConcatBytes
  <2> HIDE DEF s
  <2>6. ConnOK(r) /\ r.strained /\ r.broken = c.broken /\ r.state = c.state
    BY <2>1, <2>3, <2>4
  <2>7. Good(r, got, all)
    BY <2>6, StrainedGood
  <2> QED
    BY <2>5, <2>6, <2>7 DEF Served
<1>8. CASE c.state = "kConnected" /\ n = 0
  <2> DEFINE s == SendInLoop(c, data)
  <2>1. data = bytes
    BY <1>1, <1>2, <1>4, <1>8
  <2>2. all = given \o data
    BY <1>0, <1>8, <2>1
  <2>3. s.state = "kConnected"
    BY <1>6, <1>8, SendState
  <2>4. r = s
    BY <1>c, <1>r, <1>8 DEF SendBuffer
  <2> HIDE DEF data
  <2>5. data \in Bytes /\ data # <<>>
    BY <1>4, <1>5
  <2>6. Good(s, got, all) /\ s.broken = c.broken /\ all \in Bytes
    BY <1>8, <2>2, <2>5, SendServed
  <2> HIDE DEF s
  <2> QED
    BY <1>8, <2>3, <2>4, <2>6 DEF Served
<1>9. CASE c.state # "kConnected" /\ n > 0 /\ ~response.lost
  <2> DEFINE d == SetSendFile(c, file)
  <2>1. /\ ConnOK(d) /\ d.state = c.state /\ d.broken = c.broken
        /\ d.strained <=> c.strained \/ c.sendLen > 0 \/ c.state # "kConnected"
    BY <1>4, <1>6, SetSendFileOK
  <2> HIDE DEF d
  <2>2. Good(d, got, given)
    BY <1>9, <2>1 DEF Good, Intact, Up, Delivered
  <2>3. r = d
    BY <1>c, <1>r, <1>9, <2>1 DEF SendBuffer, d
  <2>4. all = given
    BY <1>0, <1>9
  <2> QED
    BY <2>1, <2>2, <2>3, <2>4 DEF Served
<1>10. CASE c.state # "kConnected" /\ n = 0
  <2>1. r = c /\ all = given
    BY <1>0, <1>c, <1>r, <1>10 DEF SendBuffer
  <2> QED
    BY <2>1 DEF Served
<1> QED
  BY <1>7, <1>l, <1>8, <1>9, <1>10

\* The end of onRequest: shutdown, or the file is given up.
LEMMA EndRequestOK ==
    ASSUME NEW c, NEW got, NEW given \in Bytes, Good(c, got, given),
           c.state \in {"kConnected", "kDisconnecting"}, NEW close
    PROVE  LET r == IF close THEN Shutdown(c)
                    ELSE IF c.sendFile THEN SendFileReset(c) ELSE c
           IN  /\ Served(c, r, got, given)
               /\ close => r.state = "kDisconnecting"
               /\ ~close => r.state = c.state
<1>1. CASE close
  BY <1>1, ShutdownServed DEF Served
<1>2. CASE ~close /\ c.sendFile
  <2> DEFINE r == SendFileReset(c)
  <2>1. ConnOK(c) /\ Intact(c, got, given) /\ Delivered(c, got, given)
    BY DEF Good
  <2>2. /\ ConnOK(r) /\ Intact(r, got, given) /\ r.state = c.state /\ r.broken = c.broken
        /\ r.sndbuf = c.sndbuf /\ (r.strained <=> c.strained \/ c.sendLen > 0)
    BY <2>1, SendFileResetOK
  <2> HIDE DEF r
  <2>3. Delivered(r, got, given)
    BY <2>1, <2>2 DEF Delivered
  <2>4. Good(r, got, given)
    BY <2>2, <2>3 DEF Good
  <2> QED
    BY <1>2, <2>2, <2>4 DEF Served, r
<1>3. CASE ~close /\ ~c.sendFile
  BY <1>3 DEF Served
<1> QED
  BY <1>1, <1>2, <1>3

-----------------------------------------------------------------------------
(* The requests: the invariant.  ks are the kinds of the requests sent.     *)

\* A part as HandleRead may have cut it, of a request that has been sent.
PartOf(ks) ==
    {t \in PartType : t.request <= Len(ks) /\ t.cut \in {"none"} \cup Tokens[t.part]}

\* What the fields of a parser never contradict.
ParserOK(ks, p) ==
    /\ p \in ParserType
    /\ p.request <= Len(ks)
    /\ p.cs = "start" => p.request = 0 /\ p.body = 0 /\ p.missed = {}
    /\ p.cs \in {"partial", "finished"} => p.request >= 1
    /\ p.cs = "partial" => p.body = 0
    /\ p.cs = "finished" /\ "Content-Length" \in p.missed => p.body = 0
    /\ p.cs = "finished" => p.body <= ks[p.request].body

Rejected(a) == \E i \in 1..Len(a) : a[i].status = "bad"

\* A connection being closed is so because of a 400 or of an answer that closes
\* it: then the parser stays where it is.
Phase(p, a, state) ==
    /\ state = "kConnecting" => a = <<>> /\ p.cs = "start"
    /\ Rejected(a) \/ Complete(p) => state # "kConnected"
    /\ Complete(p) => Response(p).close
    /\ state = "kDisconnecting" => Rejected(a) \/ Complete(p)

\* The parts still to be consumed, s, are those of the requests in their order:
\* e[r] of them are left when request r has been consumed.
Layout(ks, e, s) ==
    /\ e[Len(ks)] = 0
    /\ \A r \in 1..Len(ks) : e[r - 1] = e[r] + 2 + ks[r].body
    /\ \A q, r \in 0..Len(ks) : q < r => e[r] < e[q]
    /\ \A j \in 1..Len(s) :
          LET r == s[j].request
              b == Len(s) - j
          IN  /\ r \in 1..Len(ks) /\ e[r] <= b /\ b < e[r - 1]
              /\ s[j].part = IF b = e[r - 1] - 1 THEN "begin"
                             ELSE IF b = e[r - 1] - 2 THEN "end" ELSE "body"
              /\ s[j].cut = "none"

\* Where the parser p stands when n parts are still to be consumed.
Position(ks, e, p, n) ==
    /\ p.missed = {}
    /\ p.cs = "start" => \E r \in 0..Len(ks) : n = e[r]
    /\ p.cs # "start" => p.request \in 1..Len(ks)
    /\ p.cs = "partial" => n = e[p.request - 1] - 1
    /\ p.cs = "finished" => /\ n = e[p.request - 1] - (2 + p.body)
                            /\ ks[p.request].form # "malformed"
    /\ p.cs = "error" => ks[p.request].form = "malformed"
    /\ p.cs \in {"partial", "finished"} /\ ~p.error => ks[p.request].form # "badMethod"

\* An answer other than a 400 is to a request that is good, has been consumed,
\* and comes before the one the parser is at.
Settled(ks, e, p, n, r, state) ==
    /\ ks[r].form = "ok"
    /\ n <= e[r]
    /\ p.cs # "start" =>
          \/ r < p.request
          \/ r = p.request /\ p.cs = "finished" /\ ~p.error /\ state # "kConnected"

Answers(ks, e, p, n, a, state) ==
    \A i \in 1..Len(a) :
        /\ a[i].request \in 1..Len(ks)
        /\ a[i].status \in {"ok", "bad"}
        /\ a[i].status = "ok" =>
              /\ Settled(ks, e, p, n, a[i].request, state)
              /\ \A j \in (i + 1)..Len(a) : a[i].request < a[j].request

HasAnswer(a, r) == \E i \in 1..Len(a) : a[i].request = r

\* While the connection is up, what has been consumed has been answered.
Replied(ks, e, n, a, state) ==
    state \in {"kConnecting", "kConnected"} =>
        \A r \in 1..Len(ks) : n <= e[r] => HasAnswer(a, r)

Orderly(ks, e, s, p, a, state) ==
    /\ e \in [0..Len(ks) -> Nat]
    /\ Layout(ks, e, s)
    /\ Position(ks, e, p, Len(s))
    /\ Answers(ks, e, p, Len(s), a, state)
    /\ Replied(ks, e, Len(s), a, state)

\* An error has been answered, and the first 400 goes to a bad request.
Blamed(ks, p, a) ==
    /\ HasError(p) => Rejected(a)
    /\ \A i \in 1..Len(a) :
          a[i].status = "bad" => \/ ks[a[i].request].form # "ok"
                                 \/ \E j \in 1..(i - 1) : a[j].status = "bad"

Coming == inputBuffer \o wire

ServerOK ==
    /\ clients \in 1..MaxClients
    /\ asked \in Seq(Kinds) /\ Len(asked) <= MaxRequests
    /\ wire \in Seq(PartOf(asked))
    /\ inputBuffer \in Seq(PartOf(asked))
    /\ ParserOK(asked, parser)
    /\ answered \in Seq([request : 0..MaxRequests, status : {"ok", "bad", "notFound"}])
    /\ tainted \subseteq Taints

HttpInv ==
    /\ ConnInv
    /\ ServerOK
    /\ Phase(parser, answered, conn.state)
    /\ "cut" \notin tainted =>
          \E e \in [0..Len(asked) -> Nat] :
              Orderly(asked, e, Coming, parser, answered, conn.state)
    /\ tainted = {} => Blamed(asked, parser, answered)

-----------------------------------------------------------------------------
(* The parser.                                                              *)

\* What a part read is, and what it can make the parser miss.
LEMMA PartFields ==
    ASSUME NEW ks, NEW t \in PartOf(ks)
    PROVE  /\ t.part \in {"begin", "end", "body"}
           /\ t.request \in Nat /\ t.request >= 1 /\ t.request <= MaxRequests
           /\ t.request <= Len(ks)
           /\ {t.cut} \cap {"path"} \subseteq {"path", "Connection", "Content-Length"}
           /\ t.part = "end" =>
                 {t.cut} \ {"none"} \subseteq {"path", "Connection", "Content-Length"}
<1>1. /\ t \in PartType /\ t.request <= Len(ks) /\ t.cut \in {"none"} \cup Tokens[t.part]
  BY DEF PartOf
<1>2. DOMAIN Tokens = {"begin", "end", "body"}
  BY DEF Tokens
<1>3. t.part \in {"begin", "end", "body"} /\ t.request \in 1..MaxRequests
  BY <1>1, <1>2 DEF PartType
<1>4. t.part = "end" => t.cut \in {"none", "Connection", "Content-Length"}
  BY <1>1 DEF Tokens
<1> QED
  BY <1>1, <1>3, <1>4, HttpAssumption

\* The kind of a request that has been sent.
LEMMA KindFields ==
    ASSUME NEW ks \in Seq(Kinds), NEW r \in 1..Len(ks)
    PROVE  /\ ks[r].close \in BOOLEAN /\ ks[r].file \in Nat /\ ks[r].body \in Nat
           /\ ks[r].form \in {"ok", "badMethod", "malformed"}
<1>1. ks[r] \in KindType
  BY HttpAssumption
<1> QED
  BY <1>1 DEF KindType

\* What the automaton does with the part t.
Take(p, t) ==
    IF p.cs = "start" /\ t.part = "begin"
    THEN [OnRequestLine(p, t) EXCEPT !.cs = "partial"]
    ELSE IF p.cs = "partial" /\ t.part = "end" /\ asked[t.request].form # "malformed"
    THEN OnHeaderLines(p, t)
    ELSE [p EXCEPT !.cs = "error"]

LEMMA StepForm ==
    ASSUME NEW p, NEW buf
    PROVE  Step([p |-> p, buf |-> buf]) =
              IF buf = <<>> \/ p.cs \in {"finished", "error"} THEN [p |-> p, buf |-> buf]
              ELSE [p |-> Take(p, Head(buf)), buf |-> Tail(buf)]
BY DEF Step, Take

\* The fields of the parser after a part, by the case of Take.
LEMMA TakeFields ==
    ASSUME NEW p \in ParserType, NEW t, NEW q, q = Take(p, t)
    PROVE  /\ q.body = p.body
           /\ p.cs = "start" /\ t.part = "begin" =>
                 /\ q.cs = "partial" /\ q.request = t.request
                 /\ q.error <=> \/ p.error \/ t.cut = "method"
                                \/ asked[t.request].form = "badMethod" /\ t.cut # "methodEnd"
                 /\ q.missed = {t.cut} \cap {"path"}
           /\ ~(p.cs = "start" /\ t.part = "begin") =>
                 /\ q.request = p.request
                 /\ q.error <=> p.error
           /\ p.cs = "partial" /\ t.part = "end" /\ asked[t.request].form # "malformed" =>
                 /\ q.cs = "finished"
                 /\ q.missed = p.missed \cup ({t.cut} \ {"none"})
           /\ /\ ~(p.cs = "start" /\ t.part = "begin")
              /\ ~(p.cs = "partial" /\ t.part = "end" /\ asked[t.request].form # "malformed")
              => q.cs = "error" /\ q.missed = p.missed
           /\ q = [cs |-> q.cs, error |-> q.error, request |-> q.request,
                   missed |-> q.missed, body |-> q.body]
BY DEF Take, OnRequestLine, OnHeaderLines, ParserType

\* A parser that has taken a part is a parser.
LEMMA TakeTyped ==
    ASSUME asked \in Seq(Kinds), NEW p, ParserOK(asked, p), p.cs \in {"start", "partial"},
           NEW t \in PartOf(asked)
    PROVE  ParserOK(asked, Take(p, t))
<1>1. PICK q : q = Take(p, t)
  OBVIOUS
<1> DEFINE M == {"path", "Connection", "Content-Length"}
<1>2. /\ p \in ParserType /\ p.request <= Len(asked) /\ p.body = 0
      /\ p.cs = "partial" => p.request >= 1
  BY DEF ParserOK
<1>3. /\ p.request \in 0..MaxRequests /\ p.body \in Nat /\ p.missed \subseteq M
      /\ p.error \in BOOLEAN
  BY <1>2 DEF ParserType
<1>4. /\ t.request \in Nat /\ t.request >= 1 /\ t.request <= MaxRequests
      /\ t.request <= Len(asked) /\ {t.cut} \cap {"path"} \subseteq M
      /\ t.part = "end" => {t.cut} \ {"none"} \subseteq M
  BY PartFields
<1>5. /\ q.body = 0
      /\ q.request \in 0..MaxRequests /\ q.request <= Len(asked)
      /\ q.cs \in {"partial", "finished", "error"}
      /\ q.cs # "error" => q.request >= 1
  BY <1>1, <1>2, <1>3, <1>4, TakeFields, HttpAssumption
<1>6. q.missed \subseteq M
  <2>1. \/ q.missed = {t.cut} \cap {"path"}
        \/ t.part = "end" /\ q.missed = p.missed \cup ({t.cut} \ {"none"})
        \/ q.missed = p.missed
    BY <1>1, <1>2, TakeFields
  <2> QED
    BY <1>3, <1>4, <2>1
<1>7. q.error \in BOOLEAN
  <2>1. CASE p.cs = "start" /\ t.part = "begin"
    <3>1. q.error = (p.error \/ t.cut = "method"
                     \/ (asked[t.request].form = "badMethod" /\ t.cut # "methodEnd"))
      BY <1>1, <1>2, <2>1 DEF Take, OnRequestLine, ParserType
    <3> QED
      BY <1>3, <3>1, Zenon
  <2>2. CASE ~(p.cs = "start" /\ t.part = "begin")
    <3>1. q.error = p.error
      BY <1>1, <1>2, <2>2 DEF Take, OnHeaderLines, ParserType
    <3> QED
      BY <1>3, <3>1
  <2> QED
    BY <2>1, <2>2
<1>8. q = [cs |-> q.cs, error |-> q.error, request |-> q.request,
           missed |-> q.missed, body |-> q.body]
  BY <1>1, <1>2, TakeFields
<1>9. q \in ParserType
  <2>1. q.body \in Nat
    BY <1>5
  <2>2. q.cs \in {"start", "partial", "finished", "error"} /\ q.missed \in SUBSET M
    BY <1>5, <1>6
  <2> QED
    BY <1>5, <1>7, <1>8, <2>1, <2>2 DEF ParserType
<1>10. q.cs = "finished" => asked[q.request].body \in Nat
  <2>1. Len(asked) \in Nat
    OBVIOUS
  <2>2. q.cs = "finished" => q.request \in 1..Len(asked)
    BY <1>5, <2>1, HttpAssumption
  <2> QED
    BY <2>2, KindFields
<1> QED
  BY <1>1, <1>5, <1>9, <1>10 DEF ParserOK

\* What is left of a sequence of parts read.
LEMMA TailParts ==
    ASSUME NEW S, NEW s \in Seq(S), s # <<>>
    PROVE  /\ Head(s) \in S /\ Tail(s) \in Seq(S) /\ Len(s) \in Nat /\ Len(s) >= 1
           /\ Len(Tail(s)) = Len(s) - 1
           /\ Head(s) = s[1]
           /\ \A j \in 1..(Len(s) - 1) : Tail(s)[j] = s[j + 1]
BY EmptySeq

\* The same of the sequence with what has not been read.
LEMMA TailComing ==
    ASSUME NEW S, NEW s \in Seq(S), NEW u \in Seq(S), s # <<>>
    PROVE  /\ s \o u # <<>> /\ Head(s \o u) = Head(s) /\ Tail(s \o u) = Tail(s) \o u
<1>1. Len(s) \in Nat /\ Len(s) >= 1
  BY TailParts
<1>2. s \o u \in Seq(S) /\ Len(s \o u) = Len(s) + Len(u) /\ Len(u) \in Nat
  BY ConcatProperties
<1>3. s \o u # <<>>
  BY <1>1, <1>2, EmptySeq
<1>4. Head(s \o u) = Head(s)
  BY <1>1, <1>2, <1>3
<1>5. Tail(s \o u) = Tail(s) \o u
  BY <1>1, <1>2, <1>3
<1> QED
  BY <1>3, <1>4, <1>5

\* The tail of a layout is a layout.
LEMMA TailLayout ==
    ASSUME NEW ks, NEW e, NEW S, NEW s \in Seq(S), s # <<>>, Layout(ks, e, s)
    PROVE  Layout(ks, e, Tail(s))
<1> DEFINE u == Tail(s)
<1>1. /\ Len(s) \in Nat /\ Len(s) >= 1 /\ Len(u) = Len(s) - 1
      /\ \A j \in 1..(Len(s) - 1) : u[j] = s[j + 1]
  BY TailParts
<1> HIDE DEF u
<1>2. ASSUME NEW j \in 1..Len(u)
      PROVE  /\ j + 1 \in 1..Len(s) /\ u[j] = s[j + 1]
             /\ Len(s) - (j + 1) = Len(u) - j
  BY <1>1
<1>3. Layout(ks, e, u)
  BY SMTT(15), <1>2 DEF Layout
<1> QED
  BY <1>3 DEF u

\* What a layout says of the requests and of the part that comes first.
LEMMA LayoutFirst ==
    ASSUME NEW ks \in Seq(Kinds), NEW e \in [0..Len(ks) -> Nat], NEW S, NEW s \in Seq(S),
           s # <<>>, Layout(ks, e, s), NEW t, t = Head(s)
    PROVE  /\ t.request \in 1..Len(ks) /\ t.cut = "none"
           /\ e[t.request] < Len(s) /\ Len(s) <= e[t.request - 1]
           /\ t.part = IF Len(s) = e[t.request - 1] THEN "begin"
                       ELSE IF Len(s) = e[t.request - 1] - 1 THEN "end" ELSE "body"
<1>1. Len(s) \in Nat /\ Len(s) >= 1 /\ t = s[1] /\ Len(ks) \in Nat
  BY TailParts
<1>2. 1 \in 1..Len(s)
  BY <1>1
<1>3. /\ t.request \in 1..Len(ks) /\ t.cut = "none"
      /\ e[t.request] <= Len(s) - 1 /\ Len(s) - 1 < e[t.request - 1]
      /\ t.part = IF Len(s) - 1 = e[t.request - 1] - 1 THEN "begin"
                  ELSE IF Len(s) - 1 = e[t.request - 1] - 2 THEN "end" ELSE "body"
  BY SMTT(15), <1>1, <1>2 DEF Layout
<1>4. PICK r \in 1..Len(ks) : r = t.request
  BY <1>3
<1>5. PICK a \in Nat : a = e[r]
  BY <1>1
<1>6. PICK b \in Nat : b = e[r - 1]
  <2>1. r - 1 \in 0..Len(ks)
    BY <1>1
  <2> QED
    BY <2>1
<1>7. PICK n \in Nat : n = Len(s)
  BY <1>1
<1>8. a < n /\ n <= b
  BY <1>3, <1>4, <1>5, <1>6, <1>7
<1>9. t.part = IF n = b THEN "begin" ELSE IF n = b - 1 THEN "end" ELSE "body"
  BY <1>3, <1>4, <1>6, <1>7
<1> QED
  BY <1>3, <1>4, <1>5, <1>6, <1>7, <1>8, <1>9

\* Between two requests what comes is the beginning of the next one.
LEMMA NextIsBegin ==
    ASSUME NEW ks \in Seq(Kinds), NEW e \in [0..Len(ks) -> Nat], NEW S, NEW s \in Seq(S),
           s # <<>>, Layout(ks, e, s), NEW r \in 0..Len(ks), Len(s) = e[r], NEW t, t = Head(s)
    PROVE  t.request = r + 1 /\ t.part = "begin"
<1>1. /\ t.request \in 1..Len(ks) /\ e[t.request] < Len(s) /\ Len(s) <= e[t.request - 1]
      /\ Len(s) = e[t.request - 1] => t.part = "begin"
  BY LayoutFirst
<1>2. PICK q \in 1..Len(ks) : q = t.request
  BY <1>1
<1>3. Len(ks) \in Nat /\ q - 1 \in 0..Len(ks) /\ q \in 0..Len(ks)
  OBVIOUS
<1>4. e[q] \in Nat /\ e[q - 1] \in Nat /\ e[r] \in Nat
  BY <1>3
<1>5. \A i, j \in 0..Len(ks) : i < j => e[j] < e[i]
  BY DEF Layout
<1>6. ~(q < r)
  <2>1. q < r => e[r] < e[q]
    BY <1>3, <1>5
  <2> QED
    BY <1>1, <1>2, <1>4, <2>1
<1>7. q # r
  BY <1>1, <1>2, <1>4
<1>8. ~(r < q - 1)
  <2>1. r < q - 1 => e[q - 1] < e[r]
    BY <1>3, <1>5
  <2> QED
    BY <1>1, <1>2, <1>4, <2>1
<1>9. q = r + 1
  BY <1>3, <1>6, <1>7, <1>8
<1>10. q - 1 = r
  BY <1>9
<1> QED
  BY <1>1, <1>2, <1>9, <1>10

\* After the request line of r come its header lines.
LEMMA NextIsEnd ==
    ASSUME NEW ks \in Seq(Kinds), NEW e \in [0..Len(ks) -> Nat], NEW S, NEW s \in Seq(S),
           s # <<>>, Layout(ks, e, s), NEW r \in 1..Len(ks), Len(s) = e[r - 1] - 1,
           NEW t, t = Head(s)
    PROVE  t.request = r /\ t.part = "end"
<1>1. /\ t.request \in 1..Len(ks) /\ e[t.request] < Len(s) /\ Len(s) <= e[t.request - 1]
      /\ t.part = IF Len(s) = e[t.request - 1] THEN "begin"
                  ELSE IF Len(s) = e[t.request - 1] - 1 THEN "end" ELSE "body"
  BY LayoutFirst
<1>2. PICK q \in 1..Len(ks) : q = t.request
  BY <1>1
<1>3. /\ Len(ks) \in Nat /\ q - 1 \in 0..Len(ks) /\ q \in 0..Len(ks)
      /\ r - 1 \in 0..Len(ks) /\ r \in 0..Len(ks)
  OBVIOUS
<1>4. e[q] \in Nat /\ e[q - 1] \in Nat /\ e[r] \in Nat /\ e[r - 1] \in Nat
  BY <1>3
<1>5. \A i, j \in 0..Len(ks) : i < j => e[j] < e[i]
  BY DEF Layout
<1>6. e[r - 1] = e[r] + 2 + ks[r].body /\ ks[r].body \in Nat
  BY KindFields DEF Layout
<1>7. ~(q < r)
  <2>1. CASE q = r - 1
    BY <1>1, <1>2, <1>4, <2>1
  <2>2. CASE q < r - 1
    <3>1. e[r - 1] < e[q]
      BY <1>3, <1>5, <2>2
    <3> QED
      BY <1>1, <1>2, <1>4, <3>1
  <2> QED
    BY <1>3, <2>1, <2>2
<1>8. ~(r < q)
  <2>1. CASE r = q - 1
    BY SMTT(15), <1>1, <1>2, <1>4, <1>6, <2>1
  <2>2. CASE r < q - 1
    <3>1. e[q - 1] < e[r]
      BY <1>3, <1>5, <2>2
    <3>2. Len(s) <= e[q - 1] /\ Len(s) = e[r - 1] - 1
      BY <1>1, <1>2
    <3> QED
      BY <1>4, <1>6, <3>1, <3>2
  <2> QED
    BY <1>3, <2>1, <2>2
<1>9. q = r
  BY <1>3, <1>7, <1>8
<1>10. Len(s) # e[q - 1]
  BY <1>4, <1>9
<1> QED
  BY <1>1, <1>2, <1>9, <1>10

\* The automaton keeps its place, and an answer given stays settled.
LEMMA TakeOrderly ==
    ASSUME asked \in Seq(Kinds), NEW p, ParserOK(asked, p), p.cs \in {"start", "partial"},
           NEW e \in [0..Len(asked) -> Nat], NEW S, NEW s \in Seq(S), s # <<>>,
           Layout(asked, e, s), Position(asked, e, p, Len(s)), NEW q, q = Take(p, Head(s))
    PROVE  /\ Position(asked, e, q, Len(s) - 1)
           /\ q.cs # "start"
           /\ HasError(q) => HasError(p) \/ asked[q.request].form # "ok"
           /\ \A r \in 1..Len(asked) : \A state :
                 Settled(asked, e, p, Len(s), r, state) =>
                 Settled(asked, e, q, Len(s) - 1, r, state)
<1> DEFINE t == Head(s)
<1>1. /\ t.request \in 1..Len(asked) /\ t.cut = "none"
      /\ e[t.request] < Len(s) /\ Len(s) <= e[t.request - 1]
  BY LayoutFirst
<1>2. p \in ParserType /\ p.body = 0 /\ p.missed = {}
  BY DEF ParserOK, Position
<1>3. Len(s) \in Nat /\ Len(asked) \in Nat
  OBVIOUS
<1>4. \A r \in 1..Len(asked) : e[r] \in Nat /\ e[r - 1] \in Nat
  BY SMTT(15), <1>3
<1>5. CASE p.cs = "start"
  <2>1. PICK k \in 0..Len(asked) : Len(s) = e[k]
    BY <1>5 DEF Position
  <2>2. t.request = k + 1 /\ t.part = "begin"
    BY <2>1, NextIsBegin
  <2> HIDE DEF t
  <2>3. /\ q.cs = "partial" /\ q.request = t.request
        /\ q.error <=> \/ p.error \/ t.cut = "method"
                       \/ asked[t.request].form = "badMethod" /\ t.cut # "methodEnd"
        /\ q.missed = {t.cut} \cap {"path"} /\ q.body = 0
    BY <1>2, <1>5, <2>2, TakeFields DEF t
  <2>4. q.missed = {} /\ Len(s) = e[q.request - 1] /\ q.request \in 1..Len(asked)
    BY <1>1, <2>1, <2>2, <2>3
  <2>5. Position(asked, e, q, Len(s) - 1)
    BY <1>1, <2>3, <2>4 DEF Position
  <2>6. HasError(q) => HasError(p) \/ asked[q.request].form # "ok"
    BY <1>1, <2>3 DEF HasError
  <2>7. ASSUME NEW r \in 1..Len(asked), NEW state, Settled(asked, e, p, Len(s), r, state)
        PROVE  Settled(asked, e, q, Len(s) - 1, r, state)
    <3>1. asked[r].form = "ok" /\ e[k] <= e[r]
      BY <2>1, <2>7 DEF Settled
    <3>2. r < k + 1
      <4>1. r \in 0..Len(asked) /\ (k < r => e[r] < e[k])
        BY <1>3 DEF Layout
      <4> QED
        BY <1>3, <1>4, <3>1, <4>1
    <3>3. Len(s) - 1 <= e[r]
      BY <1>3, <1>4, <2>1, <3>1
    <3> QED
      BY <2>2, <2>3, <3>1, <3>2, <3>3 DEF Settled
  <2> QED
    BY <2>3, <2>5, <2>6, <2>7
<1>6. CASE p.cs = "partial"
  <2>1. p.request \in 1..Len(asked) /\ Len(s) = e[p.request - 1] - 1
    BY <1>6 DEF Position
  <2>2. t.request = p.request /\ t.part = "end"
    BY <2>1, NextIsEnd
  <2>3. ASSUME NEW r \in 1..Len(asked), NEW state, Settled(asked, e, p, Len(s), r, state),
               q.request = p.request
        PROVE  Settled(asked, e, q, Len(s) - 1, r, state)
    <3>1. asked[r].form = "ok" /\ Len(s) <= e[r] /\ r < p.request
      BY <1>6, <2>3 DEF Settled
    <3>2. Len(s) - 1 <= e[r]
      BY <1>3, <1>4, <3>1
    <3> QED
      BY <2>3, <3>1, <3>2 DEF Settled
  <2>4. q.request = p.request /\ q.body = 0 /\ (q.error <=> p.error)
    BY <1>2, <1>6, TakeFields
  <2> HIDE DEF t
  <2>5. CASE asked[t.request].form # "malformed"
    <3>1. q = Take(p, t)
      BY DEF t
    <3>2. q.cs = "finished" /\ q.missed = p.missed \cup ({t.cut} \ {"none"})
      <4>1. p.cs = "partial" /\ t.part = "end" /\ asked[t.request].form # "malformed" =>
               q.cs = "finished" /\ q.missed = p.missed \cup ({t.cut} \ {"none"})
        <5>1. p \in ParserType
          BY <1>2
        <5> HIDE DEF t
        <5> QED BY ONLY <5>1, <3>1, TakeFields
      <4> QED
        BY <1>6, <2>2, <2>5, <4>1
    <3>3. q.missed = {}
      BY <1>1, <1>2, <3>2
    <3>4. Len(s) - 1 = e[p.request - 1] - (2 + 0)
      BY <1>3, <1>4, <2>1
    <3>5. p.error \/ asked[p.request].form # "badMethod"
      BY <1>6 DEF Position
    <3>6. Position(asked, e, q, Len(s) - 1)
      BY <2>1, <2>2, <2>4, <2>5, <3>2, <3>3, <3>4, <3>5 DEF Position
    <3>7. HasError(q) => HasError(p)
      BY <2>4, <3>2 DEF HasError
    <3> QED
      BY <2>3, <2>4, <3>2, <3>6, <3>7
  <2>6. CASE asked[t.request].form = "malformed"
    <3>1. q.cs = "error" /\ q.missed = {}
      BY <1>2, <1>6, <2>2, <2>6, TakeFields DEF t
    <3>2. Position(asked, e, q, Len(s) - 1)
      BY <2>1, <2>2, <2>4, <2>6, <3>1 DEF Position
    <3> QED
      BY <2>2, <2>3, <2>4, <2>6, <3>1, <3>2
  <2> QED
    BY <2>5, <2>6
<1> QED
  BY <1>5, <1>6

\* The parser is in error because of an earlier request or of the one it is at.
Fault(p, rejected) ==
    HasError(p) => rejected \/ (p.cs # "start" /\ asked[p.request].form # "ok")

\* What is taken is of one request, the one the parser gets to or stays at.
OneRequest(e, p, s, q, u) ==
    /\ p.cs # "start" => q.cs # "start" /\ q.request = p.request
    /\ p.cs = "error" => q.cs = "error"
    /\ q.cs = "start" => Len(u) = Len(s)
    /\ q.cs \in {"partial", "finished"} => Len(s) <= e[q.request - 1]

\* From the parser p with s to come to the parser q with u to come.
Keeps(e, p, s, q, u) ==
    Layout(asked, e, s) /\ Position(asked, e, p, Len(s)) =>
        /\ Layout(asked, e, u)
        /\ Position(asked, e, q, Len(u))
        /\ \A rejected : Fault(p, rejected) => Fault(q, rejected)
        /\ \A r \in 1..Len(asked) : \A state :
              Settled(asked, e, p, Len(s), r, state) => Settled(asked, e, q, Len(u), r, state)
        /\ OneRequest(e, p, s, q, u)

LEMMA KeepsTransitive ==
    ASSUME NEW e, NEW p, NEW s, NEW q, NEW u, NEW r, NEW v, ParserOK(asked, q),
           Keeps(e, p, s, q, u), Keeps(e, q, u, r, v)
    PROVE  Keeps(e, p, s, r, v)
<1>1. q.cs \in {"start", "partial", "finished", "error"}
  BY DEF ParserOK, ParserType
<1>2. OneRequest(e, p, s, q, u) /\ OneRequest(e, q, u, r, v) => OneRequest(e, p, s, r, v)
  BY <1>1 DEF OneRequest
<1> QED
  BY <1>2 DEF Keeps

\* In a request, at most the whole of it is still to come.
LEMMA InRequest ==
    ASSUME asked \in Seq(Kinds), NEW p, ParserOK(asked, p), p.cs \in {"partial", "finished"},
           NEW e \in [0..Len(asked) -> Nat], NEW n, Position(asked, e, p, n)
    PROVE  n <= e[p.request - 1]
<1>1. /\ p.request \in 1..Len(asked) /\ p.body \in Nat
      /\ n = e[p.request - 1] - 1 \/ n = e[p.request - 1] - (2 + p.body)
  BY DEF ParserOK, ParserType, Position
<1>2. PICK k \in Nat : k = e[p.request - 1]
  <2>1. p.request - 1 \in 0..Len(asked)
    BY <1>1
  <2> QED
    BY <2>1
<1> QED
  BY <1>1, <1>2

LEMMA KeepsSame ==
    ASSUME asked \in Seq(Kinds), NEW p, ParserOK(asked, p),
           NEW e \in [0..Len(asked) -> Nat], NEW s
    PROVE  Keeps(e, p, s, p, s)
BY InRequest DEF Keeps, OneRequest

LEMMA TakeKeeps ==
    ASSUME asked \in Seq(Kinds), NEW p, ParserOK(asked, p), p.cs \in {"start", "partial"},
           NEW e \in [0..Len(asked) -> Nat], NEW S, NEW s \in Seq(S), s # <<>>
    PROVE  Keeps(e, p, s, Take(p, Head(s)), Tail(s))
<1> SUFFICES ASSUME Layout(asked, e, s), Position(asked, e, p, Len(s))
             PROVE  LET q == Take(p, Head(s))
                    IN  /\ Layout(asked, e, Tail(s))
                        /\ Position(asked, e, q, Len(Tail(s)))
                        /\ \A rejected : Fault(p, rejected) => Fault(q, rejected)
                        /\ \A r \in 1..Len(asked) : \A state :
                              Settled(asked, e, p, Len(s), r, state) =>
                              Settled(asked, e, q, Len(Tail(s)), r, state)
                        /\ OneRequest(e, p, s, q, Tail(s))
  BY DEF Keeps
<1>1. PICK q : q = Take(p, Head(s))
  OBVIOUS
<1>2. /\ Position(asked, e, q, Len(s) - 1)
      /\ q.cs # "start"
      /\ HasError(q) => HasError(p) \/ asked[q.request].form # "ok"
      /\ \A r \in 1..Len(asked) : \A state :
            Settled(asked, e, p, Len(s), r, state) =>
            Settled(asked, e, q, Len(s) - 1, r, state)
  BY <1>1, TakeOrderly
<1>3. Len(Tail(s)) = Len(s) - 1 /\ Layout(asked, e, Tail(s))
  BY TailParts, TailLayout
<1>4. p.cs = "partial" => q.request = p.request
  <2>1. p \in ParserType
    BY DEF ParserOK
  <2> QED
    BY <1>1, <2>1, TakeFields
<1>5. \A rejected : Fault(p, rejected) => Fault(q, rejected)
  BY <1>2, <1>4 DEF Fault
<1>6. OneRequest(e, p, s, q, Tail(s))
  <2>1. p.cs = "partial" => Len(s) <= e[p.request - 1]
    BY InRequest
  <2>2. p.cs = "start" => q.cs = "error" \/ Len(s) <= e[q.request - 1]
    <3>1. p \in ParserType
      BY DEF ParserOK
    <3>2. PICK t : t = Head(s)
      OBVIOUS
    <3>3. Len(s) <= e[t.request - 1]
      BY <3>2, LayoutFirst
    <3>4. CASE p.cs = "start" /\ t.part = "begin"
      <4>1. q.request = t.request
        BY <1>1, <3>1, <3>2, <3>4, TakeFields
      <4> QED
        BY <3>3, <4>1
    <3>5. CASE p.cs = "start" /\ t.part # "begin"
      BY <1>1, <3>1, <3>2, <3>5, TakeFields
    <3> QED
      BY <3>4, <3>5
  <2> QED
    BY <1>2, <1>4, <2>1, <2>2 DEF OneRequest
<1> QED
  BY <1>1, <1>2, <1>3, <1>5, <1>6

\* One step of the automaton, on a buffer with rest behind it.
LEMMA StepOK ==
    ASSUME asked \in Seq(Kinds), NEW p, ParserOK(asked, p), NEW buf \in Seq(PartOf(asked)),
           NEW y, y = Step([p |-> p, buf |-> buf])
    PROVE  /\ y = [p |-> y.p, buf |-> y.buf]
           /\ ParserOK(asked, y.p) /\ y.buf \in Seq(PartOf(asked))
           /\ y.p.cs = "start" => p.cs = "start" /\ buf = <<>>
           /\ p.cs \in {"finished", "error"} => y.p = p
           /\ \A e \in [0..Len(asked) -> Nat], rest \in Seq(PartOf(asked)) :
                 Keeps(e, p, buf \o rest, y.p, y.buf \o rest)
<1>1. p.cs \in {"start", "partial", "finished", "error"}
  BY DEF ParserOK, ParserType
<1>2. CASE buf = <<>> \/ p.cs \in {"finished", "error"}
  <2>1. y = [p |-> p, buf |-> buf]
    BY <1>2, StepForm
  <2>2. y.p = p /\ y.buf = buf
    BY <2>1
  <2>3. \A e \in [0..Len(asked) -> Nat] : \A rest : Keeps(e, p, buf \o rest, p, buf \o rest)
    BY KeepsSame
  <2> QED
    BY <1>2, <2>1, <2>2, <2>3
<1>3. CASE ~(buf = <<>> \/ p.cs \in {"finished", "error"})
  <2>1. y = [p |-> Take(p, Head(buf)), buf |-> Tail(buf)]
    BY <1>3, StepForm
  <2>2. /\ y.p = Take(p, Head(buf)) /\ y.buf = Tail(buf) /\ buf # <<>>
        /\ p.cs \in {"start", "partial"} /\ p.cs \notin {"finished", "error"}
        /\ y = [p |-> y.p, buf |-> y.buf]
    BY <1>1, <1>3, <2>1
  <2>3. Head(buf) \in PartOf(asked) /\ Tail(buf) \in Seq(PartOf(asked))
    BY <2>2, TailParts
  <2>4. ParserOK(asked, y.p) /\ y.buf \in Seq(PartOf(asked))
    BY <2>2, <2>3, TakeTyped
  <2>5. y.p.cs # "start"
    <3>1. p \in ParserType
      BY DEF ParserOK
    <3>2. PICK t : t = Head(buf)
      OBVIOUS
    <3>3. PICK q : q = Take(p, t)
      OBVIOUS
    <3>4. q.cs # "start"
      BY ONLY SMTT(20), <2>2, <3>1, <3>3, TakeFields
    <3> QED
      BY ONLY <2>2, <3>2, <3>3, <3>4
  <2>6. ASSUME NEW e \in [0..Len(asked) -> Nat], NEW rest \in Seq(PartOf(asked))
        PROVE  Keeps(e, p, buf \o rest, y.p, y.buf \o rest)
    <3>1. /\ buf \o rest # <<>> /\ Head(buf \o rest) = Head(buf)
          /\ Tail(buf \o rest) = Tail(buf) \o rest /\ buf \o rest \in Seq(PartOf(asked))
      BY <2>2, TailComing, ConcatProperties
    <3>2. Keeps(e, p, buf \o rest, Take(p, Head(buf \o rest)), Tail(buf \o rest))
      BY <2>2, <3>1, TakeKeeps
    <3> QED
      BY <2>2, <3>1, <3>2
  <2> QED
    BY <2>2, <2>4, <2>5, <2>6
<1> QED
  BY <1>2, <1>3

\* execute: the automaton takes what it can of two parts.
LEMMA ExecuteOK ==
    ASSUME asked \in Seq(Kinds), NEW p, ParserOK(asked, p), NEW buf \in Seq(PartOf(asked)),
           NEW y, y = Execute(p, buf)
    PROVE  /\ ParserOK(asked, y.p) /\ y.buf \in Seq(PartOf(asked))
           /\ y.p.cs = "start" => buf = <<>>
           /\ p.cs \in {"finished", "error"} => y.p = p
           /\ \A e \in [0..Len(asked) -> Nat], rest \in Seq(PartOf(asked)) :
                 Keeps(e, p, buf \o rest, y.p, y.buf \o rest)
<1>1. PICK x : x = Step([p |-> p, buf |-> buf])
  OBVIOUS
<1>2. PICK q, u : q = x.p /\ u = x.buf
  OBVIOUS
<1>3. /\ x = [p |-> q, buf |-> u]
      /\ ParserOK(asked, q) /\ u \in Seq(PartOf(asked))
      /\ q.cs = "start" => buf = <<>>
      /\ p.cs \in {"finished", "error"} => q = p
      /\ \A e \in [0..Len(asked) -> Nat], rest \in Seq(PartOf(asked)) :
            Keeps(e, p, buf \o rest, q, u \o rest)
  BY <1>1, <1>2, StepOK
<1>4. y = Step([p |-> q, buf |-> u])
  BY <1>1, <1>3 DEF Execute
<1>5. /\ ParserOK(asked, y.p) /\ y.buf \in Seq(PartOf(asked))
      /\ y.p.cs = "start" => q.cs = "start"
      /\ q.cs \in {"finished", "error"} => y.p = q
      /\ \A e \in [0..Len(asked) -> Nat], rest \in Seq(PartOf(asked)) :
            Keeps(e, q, u \o rest, y.p, y.buf \o rest)
  BY <1>3, <1>4, StepOK
<1>6. y.p.cs = "start" => buf = <<>>
  BY <1>3, <1>5
<1>7. p.cs \in {"finished", "error"} => y.p = p
  BY <1>3, <1>5
<1>8. ASSUME NEW e \in [0..Len(asked) -> Nat], NEW rest \in Seq(PartOf(asked))
      PROVE  Keeps(e, p, buf \o rest, y.p, y.buf \o rest)
  <2>1. Keeps(e, p, buf \o rest, q, u \o rest)
    BY <1>3
  <2>2. Keeps(e, q, u \o rest, y.p, y.buf \o rest)
    BY <1>5
  <2> QED
    BY <1>3, <2>1, <2>2, KeepsTransitive
<1> QED
  BY <1>5, <1>6, <1>7, <1>8

\* What is left when n parts are taken, with more behind it.
LEMMA RestComing ==
    ASSUME NEW S, NEW s \in Seq(S), NEW u \in Seq(S), NEW n \in 0..Len(s)
    PROVE  /\ Rest(s, n) \in Seq(S)
           /\ Len(Rest(s, n) \o u) = Len(s \o u) - n
           /\ \A j \in 1..Len(Rest(s, n) \o u) :
                 /\ j + n \in 1..Len(s \o u)
                 /\ (Rest(s, n) \o u)[j] = (s \o u)[j + n]
<1> DEFINE r == Rest(s, n)
<1>1. /\ r \in Seq(S) /\ Len(r) = Len(s) - n /\ Len(s) \in Nat /\ Len(u) \in Nat
      /\ \A j \in 1..(Len(s) - n) : r[j] = s[j + n]
  BY DEF Rest
<1> HIDE DEF r
<1>2. Len(r \o u) = Len(r) + Len(u) /\ Len(s \o u) = Len(s) + Len(u)
  BY <1>1, ConcatProperties
<1>3. ASSUME NEW j \in 1..Len(r \o u)
      PROVE  j + n \in 1..Len(s \o u) /\ (r \o u)[j] = (s \o u)[j + n]
  <2>1. j + n \in 1..Len(s \o u)
    BY <1>1, <1>2
  <2>2. CASE j <= Len(r)
    <3>1. j \in 1..(Len(s) - n) /\ j + n <= Len(s)
      BY <1>1, <1>2, <2>2
    <3> QED
      BY <1>1, <1>2, <2>1, <2>2, <3>1
  <2>3. CASE j > Len(r)
    <3>1. j + n > Len(s) /\ j - Len(r) = j + n - Len(s)
      BY <1>1, <1>2, <2>3
    <3> QED
      BY <1>1, <1>2, <2>1, <2>3, <3>1
  <2> QED
    BY <1>1, <2>2, <2>3
<1>4. Len(r \o u) = Len(s \o u) - n
  BY <1>1, <1>2
<1> QED
  BY <1>1, <1>3, <1>4 DEF r

LEMMA RestLayout ==
    ASSUME NEW ks, NEW e, NEW S, NEW s \in Seq(S), NEW u \in Seq(S), NEW n \in 0..Len(s),
           Layout(ks, e, s \o u)
    PROVE  Layout(ks, e, Rest(s, n) \o u)
<1>1. PICK v \in Seq(S) : v = Rest(s, n) \o u
  BY RestComing, ConcatProperties
<1>2. PICK w \in Seq(S) : w = s \o u
  BY ConcatProperties
<1>3. /\ Len(v) = Len(w) - n /\ Len(w) \in Nat /\ Len(v) \in Nat
      /\ \A j \in 1..Len(v) : j + n \in 1..Len(w) /\ v[j] = w[j + n]
  BY <1>1, <1>2, RestComing
<1>4. ASSUME NEW j \in 1..Len(v)
      PROVE  j + n \in 1..Len(w) /\ v[j] = w[j + n] /\ Len(w) - (j + n) = Len(v) - j
  BY <1>3
<1>5. Layout(ks, e, w)
  BY <1>2
<1>6. ASSUME NEW j \in 1..Len(v)
      PROVE  LET r == v[j].request
                 b == Len(v) - j
             IN  /\ r \in 1..Len(ks) /\ e[r] <= b /\ b < e[r - 1]
                 /\ v[j].part = IF b = e[r - 1] - 1 THEN "begin"
                                ELSE IF b = e[r - 1] - 2 THEN "end" ELSE "body"
                 /\ v[j].cut = "none"
  <2>1. PICK i \in 1..Len(w) : i = j + n
    BY <1>4
  <2>2. v[j] = w[i] /\ Len(v) - j = Len(w) - i
    BY <1>4, <2>1
  <2>3. LET r == w[i].request
            b == Len(w) - i
        IN  /\ r \in 1..Len(ks) /\ e[r] <= b /\ b < e[r - 1]
            /\ w[i].part = IF b = e[r - 1] - 1 THEN "begin"
                           ELSE IF b = e[r - 1] - 2 THEN "end" ELSE "body"
            /\ w[i].cut = "none"
    BY <1>5 DEF Layout
  <2> QED
    BY <2>2, <2>3
<1>7. Layout(ks, e, v)
  BY <1>5, <1>6 DEF Layout
<1> QED
  BY <1>1, <1>7

\* onMessage takes what there is of the body, and no more than is missing of it.
LEMMA BodyOK ==
    ASSUME asked \in Seq(Kinds), NEW x, ParserOK(asked, x.p), x.buf \in Seq(PartOf(asked)),
           NEW b, b = BodyRead(x), NEW q, q = [x.p EXCEPT !.body = @ + b]
    PROVE  /\ b \in 0..Len(x.buf) /\ ParserOK(asked, q)
           /\ Rest(x.buf, b) \in Seq(PartOf(asked))
           /\ q.cs = x.p.cs /\ (q.error <=> x.p.error) /\ q.request = x.p.request
           /\ q.missed = x.p.missed
           /\ Complete(x.p) => q = x.p
           /\ \A e \in [0..Len(asked) -> Nat], rest \in Seq(PartOf(asked)) :
                 Keeps(e, x.p, x.buf \o rest, q, Rest(x.buf, b) \o rest)
<1>1. PICK p : p = x.p
  OBVIOUS
<1>2. PICK buf \in Seq(PartOf(asked)) : buf = x.buf
  OBVIOUS
<1>3. /\ p \in ParserType /\ p.body \in Nat /\ p.request \in 0..MaxRequests
      /\ p.request <= Len(asked)
      /\ p.cs = "start" => p.request = 0 /\ p.body = 0 /\ p.missed = {}
      /\ p.cs \in {"partial", "finished"} => p.request >= 1
      /\ p.cs = "partial" => p.body = 0
      /\ p.cs = "finished" /\ "Content-Length" \in p.missed => p.body = 0
      /\ p.cs = "finished" => p.body <= asked[p.request].body
  BY <1>1 DEF ParserOK, ParserType
<1>4. p.cs = "finished" => asked[p.request].body \in Nat
  <2>1. p.cs = "finished" => p.request \in 1..Len(asked)
    BY <1>3, HttpAssumption
  <2> QED
    BY <2>1, KindFields
<1>5. p.cs = "finished" => ContentLength(p) \in Nat /\ p.body <= ContentLength(p)
  BY <1>3, <1>4 DEF ContentLength
<1>6. Len(buf) \in Nat
  OBVIOUS
<1>7. b = IF p.cs = "finished" THEN Least(ContentLength(p) - p.body, Len(buf)) ELSE 0
  BY <1>1, <1>2 DEF BodyRead
<1>8. /\ b \in 0..Len(buf) /\ b \in Nat /\ (p.cs # "finished" => b = 0)
      /\ p.cs = "finished" => p.body + b <= ContentLength(p)
      /\ p.cs = "finished" /\ p.body = ContentLength(p) => b = 0
  <2>1. CASE p.cs = "finished"
    <3>1. PICK n \in Nat : n = ContentLength(p)
      BY <1>5, <2>1
    <3>2. b = Least(n - p.body, Len(buf)) /\ p.body <= n
      BY <1>5, <1>7, <2>1, <3>1
    <3> QED
      BY <1>3, <1>6, <2>1, <3>1, <3>2 DEF Least
  <2>2. CASE p.cs # "finished"
    BY <1>6, <1>7, <2>2
  <2> QED
    BY <2>1, <2>2
<1>9. q = [p EXCEPT !.body = p.body + b]
  BY <1>1
<1>10. /\ q.cs = p.cs /\ q.request = p.request /\ q.missed = p.missed
       /\ q.body = p.body + b /\ q \in ParserType
  BY SMTT(15), <1>3, <1>8, <1>9 DEF ParserType
<1>11. q.error <=> p.error
  BY <1>3, <1>9 DEF ParserType
<1>12. b = 0 => q = p
  <2>1. b = 0 => p.body + b = p.body
    BY <1>3
  <2> QED
    BY <1>3, <1>9, <2>1 DEF ParserType
<1>13. p.cs = "finished" =>
          /\ ContentLength(p) <= asked[p.request].body
          /\ "Content-Length" \in p.missed => ContentLength(p) = 0
  BY <1>3, <1>4 DEF ContentLength
<1>14. ParserOK(asked, q)
  <2>1. q.body \in Nat
    BY <1>3, <1>8, <1>10
  <2>2. p.cs = "finished" => /\ q.body <= asked[p.request].body
                             /\ "Content-Length" \in p.missed => q.body = 0
    BY <1>3, <1>4, <1>5, <1>8, <1>10, <1>13
  <2>3. p.cs # "finished" => q.body = p.body
    BY <1>3, <1>8, <1>10
  <2>4. q.request <= Len(asked) /\ (q.cs \in {"partial", "finished"} => q.request >= 1)
    BY <1>3, <1>10
  <2>5. q.cs = "start" => q.request = 0 /\ q.body = 0 /\ q.missed = {}
    BY <1>3, <1>10, <2>3
  <2>6. q.cs = "partial" => q.body = 0
    BY <1>3, <1>10, <2>3
  <2>7. /\ q.cs = "finished" /\ "Content-Length" \in q.missed => q.body = 0
        /\ q.cs = "finished" => q.body <= asked[q.request].body
    BY <1>10, <2>2
  <2> QED
    BY <1>10, <2>4, <2>5, <2>6, <2>7 DEF ParserOK
<1>15. Complete(p) => q = p
  BY <1>8, <1>12 DEF Complete
<1>16. Rest(buf, b) \in Seq(PartOf(asked))
  BY <1>8 DEF Rest
<1>17. ASSUME NEW e \in [0..Len(asked) -> Nat], NEW rest \in Seq(PartOf(asked))
       PROVE  Keeps(e, p, buf \o rest, q, Rest(buf, b) \o rest)
  <2>1. PICK n \in Nat : n = Len(buf \o rest)
    BY ConcatProperties
  <2>2. PICK v \in Seq(PartOf(asked)) : v = Rest(buf, b) \o rest
    BY <1>16, ConcatProperties
  <2>3. Len(v) = n - b
    BY <1>8, <2>1, <2>2, RestComing
  <2> SUFFICES ASSUME Layout(asked, e, buf \o rest), Position(asked, e, p, n)
               PROVE  /\ Layout(asked, e, v)
                      /\ Position(asked, e, q, Len(v))
                      /\ \A rejected : Fault(p, rejected) => Fault(q, rejected)
                      /\ \A r \in 1..Len(asked) : \A state :
                            Settled(asked, e, p, n, r, state) =>
                            Settled(asked, e, q, Len(v), r, state)
                      /\ OneRequest(e, p, buf \o rest, q, v)
    BY <2>1, <2>2 DEF Keeps
  <2>4. Layout(asked, e, v)
    BY <1>8, <2>2, RestLayout
  <2>5. ASSUME p.cs = "finished" PROVE Position(asked, e, q, Len(v))
    <3>1. p.request \in 1..Len(asked) /\ n = e[p.request - 1] - (2 + p.body)
      BY <2>5 DEF Position
    <3>2. PICK k \in Nat : k = e[p.request - 1]
      <4>1. p.request - 1 \in 0..Len(asked)
        BY <3>1
      <4> QED
        BY <4>1
    <3>3. p.body \in Nat /\ b \in Nat
      BY <1>3, <1>8
    <3>4. n = k - (2 + p.body) /\ Len(v) = n - b /\ q.body = p.body + b
      BY <1>10, <2>3, <3>1, <3>2
    <3>5. Len(v) = k - (2 + q.body)
      BY ONLY <3>3, <3>4
    <3>6. q.error \/ asked[q.request].form # "badMethod"
      BY <1>10, <1>11, <2>5 DEF Position
    <3>7. q.missed = {} /\ asked[q.request].form # "malformed" /\ q.cs = "finished"
      BY <1>10, <2>5 DEF Position
    <3>8. Len(v) = e[q.request - 1] - (2 + q.body) /\ q.request \in 1..Len(asked)
      BY <1>10, <3>1, <3>2, <3>5
    <3> QED
      BY <3>6, <3>7, <3>8 DEF Position
  <2>6. ASSUME p.cs # "finished" PROVE Position(asked, e, q, Len(v))
    <3>1. b = 0
      BY <1>8, <2>6
    <3>2. Len(v) = n /\ q = p
      BY <1>12, <2>3, <3>1
    <3> QED
      BY <3>2
  <2>7. \A rejected : Fault(p, rejected) => Fault(q, rejected)
    BY <1>10, <1>11 DEF Fault, HasError
  <2>8. ASSUME NEW r \in 1..Len(asked), NEW state, Settled(asked, e, p, n, r, state)
        PROVE  Settled(asked, e, q, Len(v), r, state)
    <3>1. n <= e[r] /\ e[r] \in Nat
      BY <2>8 DEF Settled
    <3>2. Len(v) <= e[r]
      BY <1>8, <2>3, <3>1
    <3> QED
      BY <1>10, <1>11, <2>8, <3>2 DEF Settled
  <2>9. OneRequest(e, p, buf \o rest, q, v)
    <3>1. p.cs \in {"partial", "finished"} => n <= e[p.request - 1]
      <4>1. ParserOK(asked, p)
        BY <1>1
      <4> QED
        BY <4>1, InRequest
    <3>2. q.cs = "start" => Len(v) = n
      BY <1>8, <1>10, <2>3
    <3> QED
      BY <1>10, <2>1, <3>1, <3>2 DEF OneRequest
  <2> QED
    BY <2>4, <2>5, <2>6, <2>7, <2>8, <2>9
<1> QED
  BY <1>1, <1>2, <1>8, <1>10, <1>11, <1>14, <1>15, <1>16, <1>17

-----------------------------------------------------------------------------
(* onMessage.                                                               *)

\* Reject on the connection c, the parser p and the histories h and a.
LEMMA RejectServed ==
    ASSUME NEW got \in Bytes, NEW c, NEW p, NEW h \in Bytes, NEW a, Good(c, got, h),
           c.state \in {"kConnected", "kDisconnecting"},
           NEW y, y = Reject([c |-> c, p |-> p, h |-> h, a |-> a])
    PROVE  /\ y = [c |-> y.c, p |-> p, h |-> y.h, a |-> y.a]
           /\ Served(c, y.c, got, y.h) /\ y.c.state = "kDisconnecting"
           /\ y.a = IF c.state = "kConnected" \/ (c.state = "kDisconnecting" /\ ~c.fin)
                    THEN Append(a, [request |-> p.request, status |-> "bad"]) ELSE a
<1>1. PICK c1 : c1 = Shutdown(SendInLoop(c, NextBytes(h, 1)))
  OBVIOUS
<1>2. PICK h1 : h1 = IF c.state = "kConnected" \/ (c.state = "kDisconnecting" /\ ~c.fin)
                     THEN h \o NextBytes(h, 1) ELSE h
  OBVIOUS
<1>3. PICK a1 : a1 = IF c.state = "kConnected" \/ (c.state = "kDisconnecting" /\ ~c.fin)
                     THEN Append(a, [request |-> p.request, status |-> "bad"]) ELSE a
  OBVIOUS
<1>4. Served(c, c1, got, h1) /\ c1.state = "kDisconnecting"
  BY <1>1, <1>2, RejectOK
<1>5. y = [c |-> c1, p |-> p, h |-> h1, a |-> a1]
  BY <1>1, <1>2, <1>3 DEF Reject
<1>6. y.c = c1 /\ y.h = h1 /\ y.a = a1
  BY <1>5
<1>7. y = [c |-> y.c, p |-> p, h |-> y.h, a |-> y.a]
  BY <1>5, <1>6
<1> QED
  BY <1>3, <1>4, <1>6, <1>7

\* A response has a file that has a size.
LEMMA ResponseFields ==
    ASSUME asked \in Seq(Kinds), NEW p, ParserOK(asked, p), p.cs = "finished"
    PROVE  /\ Response(p).file \in Nat
           /\ Response(p).status = IF "path" \in p.missed THEN "notFound" ELSE "ok"
<1>1. p.request \in 1..Len(asked)
  BY HttpAssumption DEF ParserOK, ParserType
<1> QED
  BY <1>1, KindFields DEF Response

\* onRequest on them.
LEMMA OnRequestServed ==
    ASSUME asked \in Seq(Kinds), NEW got \in Bytes, NEW c, NEW p, ParserOK(asked, p),
           p.cs = "finished", NEW h \in Bytes, NEW a, Good(c, got, h),
           c.state \in {"kConnected", "kDisconnecting"},
           NEW s, s = Respond([c |-> c, p |-> p, h |-> h, a |-> a]),
           NEW r, r = EndRequest(s)
    PROVE  /\ Served(c, r.c, got, r.h)
           /\ r.c.state = IF Response(p).close THEN "kDisconnecting" ELSE c.state
           /\ r.p = IF Response(p).close THEN p ELSE ParserReset(p)
           /\ r.a = IF c.state = "kConnected"
                    THEN Append(a, [request |-> p.request, status |-> Response(p).status])
                    ELSE a
<1>1. PICK response : response = Response(p)
  OBVIOUS
<1>2. PICK n \in Nat : n = response.file
  BY <1>1, ResponseFields
<1>b. PICK bytes : bytes = NextBytes(h, HeaderLength + n)
  OBVIOUS
<1>3. PICK h1 : h1 = Given(c, h, bytes)
  OBVIOUS
<1>4. PICK c1 : c1 = ResponseFile(c, response, Rest(bytes, HeaderLength))
  OBVIOUS
<1>5. PICK c2 : c2 = SendBuffer(c1, First(bytes, HeaderLength))
  OBVIOUS
<1>6. Served(c, c2, got, h1) /\ c2.state = c.state
  BY ONLY got \in Bytes, h \in Bytes, Good(c, got, h), n \in Nat,
          c.state \in {"kConnected", "kDisconnecting"},
          <1>2, <1>b, <1>3, <1>4, <1>5, RespondOK
<1>7. PICK c3 : c3 = IF response.close THEN Shutdown(c2)
                     ELSE IF c2.sendFile THEN SendFileReset(c2) ELSE c2
  OBVIOUS
<1>8. Good(c2, got, h1) /\ h1 \in Bytes /\ c2.broken = c.broken
  BY <1>6 DEF Served
<1>9. PICK close : close = response.close
  OBVIOUS
<1>10. /\ Served(c2, c3, got, h1)
       /\ close => c3.state = "kDisconnecting"
       /\ ~close => c3.state = c2.state
  BY <1>6, <1>7, <1>8, <1>9, EndRequestOK
<1>11. Served(c, c3, got, h1)
  BY <1>8, <1>10 DEF Served
<1>12. PICK p1 : p1 = IF response.close THEN p ELSE ParserReset(p)
  OBVIOUS
<1>13. PICK a1 : a1 = IF c.state = "kConnected"
                      THEN Append(a, [request |-> p.request, status |-> response.status])
                      ELSE a
  OBVIOUS
<1>s. s = [c |-> c2, p |-> p, h |-> h1, a |-> a1]
  BY <1>1, <1>2, <1>b, <1>3, <1>4, <1>5, <1>13 DEF Respond, Given
<1>14. r = [c |-> c3, p |-> p1, h |-> h1, a |-> a1]
  <2>1. s.c = c2 /\ s.p = p
    BY <1>s
  <2>2. PICK d : d = Shutdown(c2)
    OBVIOUS
  <2>3. PICK g : g = IF c2.sendFile THEN SendFileReset(c2) ELSE c2
    OBVIOUS
  <2>4. PICK q : q = ParserReset(p)
    OBVIOUS
  <2>5. r = IF response.close THEN [s EXCEPT !.c = d] ELSE [s EXCEPT !.c = g, !.p = q]
    BY <1>1, <2>1, <2>2, <2>3, <2>4 DEF EndRequest
  <2>6. /\ c3 = IF response.close THEN d ELSE g
        /\ p1 = IF response.close THEN p ELSE q
    BY <1>7, <1>12, <2>2, <2>3, <2>4
  <2> QED
    BY ONLY <1>s, <2>5, <2>6
<1>15. r.c = c3 /\ r.h = h1 /\ r.p = p1 /\ r.a = a1
  BY <1>14
<1>16. c3.state = IF response.close THEN "kDisconnecting" ELSE c.state
  BY <1>6, <1>9, <1>10
<1> QED
  BY <1>1, <1>11, <1>15, <1>16, <1>12, <1>13

\* What onMessage leaves, when execute has left e.
LEMMA MessageOK ==
    ASSUME ConnInv, asked \in Seq(Kinds), conn.state \in {"kConnected", "kDisconnecting"},
           NEW e, ParserOK(asked, e.p), e.buf \in Seq(PartOf(asked)), OnMessage(e),
           NEW q, q = [e.p EXCEPT !.body = @ + BodyRead(e)]
    PROVE  /\ Good(conn', received, handed') /\ handed' \in Bytes
           /\ conn'.broken = conn.broken
           /\ conn'.state = IF HasError(e.p) \/ (Complete(q) /\ Response(q).close)
                            THEN "kDisconnecting" ELSE conn.state
           /\ parser' = IF Complete(q) /\ ~Response(q).close THEN ParserReset(q) ELSE q
           /\ inputBuffer' = Rest(e.buf, BodyRead(e))
           /\ HasError(e.p) =>
                 answered' = IF conn.state = "kConnected" \/ ~conn.fin
                             THEN Append(answered, [request |-> e.p.request, status |-> "bad"])
                             ELSE answered
           /\ ~HasError(e.p) =>
                 answered' = IF Complete(q) /\ conn.state = "kConnected"
                             THEN Append(answered, [request |-> q.request,
                                                    status  |-> Response(q).status])
                             ELSE answered
<1> DEFINE x == [c |-> conn, p |-> e.p, h |-> handed, a |-> answered]
<1>1. PICK y : y = IF HasError(e.p) THEN Reject(x) ELSE x
  OBVIOUS
<1>2. PICK z : z = [y EXCEPT !.p.body = @ + BodyRead(e)]
  OBVIOUS
<1>s. PICK s : s = IF Complete(z.p) THEN Respond(z) ELSE z
  OBVIOUS
<1>3. PICK r : r = IF Complete(z.p) THEN EndRequest(s) ELSE s
  OBVIOUS
<1>4. conn' = r.c /\ parser' = r.p /\ handed' = r.h /\ answered' = r.a
  BY <1>1, <1>2, <1>s, <1>3 DEF OnMessage
<1>5. inputBuffer' = Rest(e.buf, BodyRead(e))
  BY DEF OnMessage
<1>6. Good(conn, received, handed) /\ received \in Bytes /\ handed \in Bytes
  BY DEF ConnInv
<1>7. conn.state \in {"kConnected", "kDisconnecting"}
  OBVIOUS
<1>8. PICK c1, h1, a1 :
         /\ y = [c |-> c1, p |-> e.p, h |-> h1, a |-> a1]
         /\ Served(conn, c1, received, h1)
         /\ c1.state = IF HasError(e.p) THEN "kDisconnecting" ELSE conn.state
         /\ HasError(e.p) =>
               a1 = IF conn.state = "kConnected" \/ ~conn.fin
                    THEN Append(answered, [request |-> e.p.request, status |-> "bad"])
                    ELSE answered
         /\ ~HasError(e.p) => a1 = answered
  <2>1. CASE HasError(e.p)
    <3>1. y = Reject(x)
      BY <1>1, <2>1
    <3>2. /\ y = [c |-> y.c, p |-> e.p, h |-> y.h, a |-> y.a]
          /\ Served(conn, y.c, received, y.h) /\ y.c.state = "kDisconnecting"
          /\ y.a = IF conn.state = "kConnected" \/ (conn.state = "kDisconnecting" /\ ~conn.fin)
                   THEN Append(answered, [request |-> e.p.request, status |-> "bad"])
                   ELSE answered
      BY <1>6, <1>7, <3>1, RejectServed
    <3>3. y.a = IF conn.state = "kConnected" \/ ~conn.fin
                THEN Append(answered, [request |-> e.p.request, status |-> "bad"])
                ELSE answered
      BY <1>7, <3>2
    <3> QED
      BY <2>1, <3>2, <3>3
  <2>2. CASE ~HasError(e.p)
    <3>1. y = x
      BY <1>1, <2>2
    <3>2. Served(conn, conn, received, handed)
      BY <1>6 DEF Served
    <3> QED
      BY <2>2, <3>1, <3>2
  <2> QED
    BY <2>1, <2>2
<1>9. z = [c |-> c1, p |-> q, h |-> h1, a |-> a1]
  BY <1>2, <1>8
<1>10. z.p = q
  BY <1>9
<1>11. ParserOK(asked, q)
  BY BodyOK
<1>12. /\ Good(c1, received, h1) /\ h1 \in Bytes /\ c1.broken = conn.broken
       /\ c1.state \in {"kConnected", "kDisconnecting"}
  BY <1>8 DEF Served
<1>13. CASE Complete(q)
  <2>1. /\ s = Respond([c |-> c1, p |-> q, h |-> h1, a |-> a1]) /\ r = EndRequest(s)
        /\ q.cs = "finished"
    BY <1>s, <1>3, <1>9, <1>10, <1>13 DEF Complete
  <2>2. /\ Served(c1, r.c, received, r.h)
        /\ r.c.state = IF Response(q).close THEN "kDisconnecting" ELSE c1.state
        /\ r.p = IF Response(q).close THEN q ELSE ParserReset(q)
        /\ r.a = IF c1.state = "kConnected"
                 THEN Append(a1, [request |-> q.request, status |-> Response(q).status])
                 ELSE a1
    <3>1. /\ asked \in Seq(Kinds) /\ received \in Bytes /\ ParserOK(asked, q)
          /\ q.cs = "finished" /\ h1 \in Bytes /\ Good(c1, received, h1)
          /\ c1.state \in {"kConnected", "kDisconnecting"}
          /\ s = Respond([c |-> c1, p |-> q, h |-> h1, a |-> a1]) /\ r = EndRequest(s)
      BY <1>6, <1>11, <1>12, <2>1
    <3> QED
      BY ONLY <3>1, OnRequestServed
  <2>3. /\ Good(conn', received, handed') /\ handed' \in Bytes
        /\ conn'.broken = conn.broken /\ conn' = r.c
    BY <1>4, <1>12, <2>2 DEF Served
  <2>4. parser' = IF Response(q).close THEN q ELSE ParserReset(q)
    BY <1>4, <2>2
  <2>5. answered' = IF c1.state = "kConnected"
                    THEN Append(a1, [request |-> q.request, status |-> Response(q).status])
                    ELSE a1
    BY <1>4, <2>2
  <2>6. conn'.state = IF HasError(e.p) \/ Response(q).close THEN "kDisconnecting" ELSE conn.state
    BY <1>8, <2>2, <2>3
  <2>7. conn'.state = IF HasError(e.p) \/ (Complete(q) /\ Response(q).close)
                     THEN "kDisconnecting" ELSE conn.state
    BY <1>13, <2>6
  <2>8. parser' = IF Complete(q) /\ ~Response(q).close THEN ParserReset(q) ELSE q
    BY <1>13, <2>4
  <2>9. HasError(e.p) => answered' = a1
    BY <1>8, <2>5
  <2>10. ~HasError(e.p) =>
            answered' = IF Complete(q) /\ conn.state = "kConnected"
                        THEN Append(answered, [request |-> q.request,
                                               status  |-> Response(q).status])
                        ELSE answered
    BY <1>8, <1>13, <2>5
  <2> QED
    BY <1>5, <1>8, <2>3, <2>7, <2>8, <2>9, <2>10
<1>14. CASE ~Complete(q)
  <2>1. conn' = c1 /\ parser' = q /\ handed' = h1 /\ answered' = a1
    BY <1>s, <1>3, <1>4, <1>9, <1>10, <1>14
  <2> QED
    BY <1>5, <1>8, <1>12, <1>14, <2>1
<1> QED
  BY <1>13, <1>14

\* A read: execute takes the parser from p to p1, the body to q, and with the
\* responses a and the state st before it onMessage leaves r, a1 and st1.
Outcome(p, p1, q, r, a, a1, st, st1, fin) ==
    /\ p.cs \in {"finished", "error"} => p1 = p
    /\ Complete(p1) => q = p1
    /\ q.cs = p1.cs /\ (q.error <=> p1.error) /\ q.request = p1.request /\ q.missed = p1.missed
    /\ st \in {"kConnected", "kDisconnecting"}
    /\ st1 = IF HasError(p1) \/ (Complete(q) /\ Response(q).close) THEN "kDisconnecting" ELSE st
    /\ r = IF Complete(q) /\ ~Response(q).close THEN ParserReset(q) ELSE q
    /\ HasError(p1) =>
          a1 = IF st = "kConnected" \/ ~fin
               THEN Append(a, [request |-> p1.request, status |-> "bad"]) ELSE a
    /\ ~HasError(p1) =>
          a1 = IF Complete(q) /\ st = "kConnected"
               THEN Append(a, [request |-> q.request, status |-> Response(q).status]) ELSE a

AnswerType == [request : 0..MaxRequests, status : {"ok", "bad", "notFound"}]

\* The responses with one more.
LEMMA AppendAnswer ==
    ASSUME NEW a \in Seq(AnswerType), NEW x \in AnswerType
    PROVE  /\ Append(a, x) \in Seq(AnswerType) /\ Len(Append(a, x)) = Len(a) + 1
           /\ Len(a) \in Nat
           /\ \A i \in 1..Len(a) : Append(a, x)[i] = a[i]
           /\ Append(a, x)[Len(a) + 1] = x
           /\ Rejected(Append(a, x)) <=> Rejected(a) \/ x.status = "bad"
<1>1. /\ Append(a, x) \in Seq(AnswerType) /\ Len(Append(a, x)) = Len(a) + 1
      /\ Len(a) \in Nat
      /\ \A i \in 1..Len(a) : Append(a, x)[i] = a[i]
      /\ Append(a, x)[Len(a) + 1] = x
  OBVIOUS
<1>2. PICK b : b = Append(a, x)
  OBVIOUS
<1>3. ASSUME Rejected(b) PROVE Rejected(a) \/ x.status = "bad"
  <2>1. PICK i \in 1..Len(b) : b[i].status = "bad"
    BY <1>3 DEF Rejected
  <2>2. CASE i = Len(a) + 1
    BY <1>1, <1>2, <2>1, <2>2
  <2>3. CASE i \in 1..Len(a)
    BY <1>1, <1>2, <2>1, <2>3 DEF Rejected
  <2> QED
    BY <1>1, <1>2, <2>2, <2>3
<1>4. ASSUME Rejected(a) PROVE Rejected(b)
  <2>1. PICK i \in 1..Len(a) : a[i].status = "bad"
    BY <1>4 DEF Rejected
  <2>2. i \in 1..Len(b) /\ b[i].status = "bad"
    BY <1>1, <1>2, <2>1
  <2> QED
    BY <2>2 DEF Rejected
<1>5. ASSUME x.status = "bad" PROVE Rejected(b)
  <2>1. Len(a) + 1 \in 1..Len(b) /\ b[Len(a) + 1].status = "bad"
    BY <1>1, <1>2, <1>5
  <2> QED
    BY <2>1 DEF Rejected
<1> QED
  BY <1>1, <1>2, <1>3, <1>4, <1>5

\* The answer that a read adds, if it adds one.
Added(p1, q, a, a1, st, fin) ==
    \/ a1 = a /\ (HasError(p1) => st = "kDisconnecting" /\ fin)
    \/ \E x \in AnswerType :
          /\ a1 = Append(a, x) /\ x.request = p1.request
          /\ \/ HasError(p1) /\ x.status = "bad"
             \/ /\ ~HasError(p1) /\ Complete(q) /\ st = "kConnected"
                /\ x.status # "bad"
                /\ x.status = IF "path" \in q.missed THEN "notFound" ELSE "ok"

LEMMA OutcomeAnswer ==
    ASSUME asked \in Seq(Kinds), NEW p, NEW p1, NEW q, NEW r, NEW a \in Seq(AnswerType),
           NEW a1, NEW st, NEW st1, NEW fin, ParserOK(asked, p1), ParserOK(asked, q),
           Outcome(p, p1, q, r, a, a1, st, st1, fin)
    PROVE  Added(p1, q, a, a1, st, fin)
<1>1. p1.request \in 0..MaxRequests
  BY DEF ParserOK, ParserType
<1>2. CASE HasError(p1)
  <2> DEFINE x == [request |-> p1.request, status |-> "bad"]
  <2>1. x \in AnswerType /\ x.request = p1.request /\ x.status = "bad"
    BY <1>1 DEF AnswerType
  <2>2. a1 = Append(a, x) \/ (a1 = a /\ st = "kDisconnecting" /\ fin)
    BY <1>2 DEF Outcome
  <2> HIDE DEF x
  <2> QED
    BY <1>2, <2>1, <2>2 DEF Added
<1>3. CASE ~HasError(p1)
  <2>1. CASE Complete(q) /\ st = "kConnected"
    <3> DEFINE x == [request |-> q.request, status |-> Response(q).status]
    <3>1. Response(q).status = IF "path" \in q.missed THEN "notFound" ELSE "ok"
      BY <2>1, ResponseFields DEF Complete
    <3>2. /\ x.request = p1.request /\ x.status = Response(q).status
          /\ x.status \in {"ok", "notFound"}
      BY <3>1 DEF Outcome
    <3>3. x \in AnswerType
      BY <1>1, <3>1 DEF AnswerType, Outcome
    <3>4. a1 = Append(a, x)
      BY <1>3, <2>1 DEF Outcome
    <3> HIDE DEF x
    <3> QED
      BY <1>3, <2>1, <3>1, <3>2, <3>3, <3>4 DEF Added
  <2>2. CASE ~(Complete(q) /\ st = "kConnected")
    BY <1>3, <2>2 DEF Outcome, Added
  <2> QED
    BY <2>1, <2>2
<1> QED
  BY <1>2, <1>3

\* Whether a 400 has been sent.
LEMMA OutcomeRejected ==
    ASSUME asked \in Seq(Kinds), NEW p, NEW p1, NEW q, NEW r, NEW a \in Seq(AnswerType),
           NEW a1, NEW st, NEW st1, NEW fin, ParserOK(asked, p1), ParserOK(asked, q),
           Outcome(p, p1, q, r, a, a1, st, st1, fin)
    PROVE  /\ Rejected(a) => Rejected(a1)
           /\ HasError(p1) /\ st # "kDisconnecting" => Rejected(a1)
           /\ Rejected(a1) => Rejected(a) \/ HasError(p1)
<1>1. CASE a1 = a /\ (HasError(p1) => st = "kDisconnecting" /\ fin)
  BY <1>1
<1>2. CASE \E x \in AnswerType :
              /\ a1 = Append(a, x)
              /\ \/ HasError(p1) /\ x.status = "bad"
                 \/ ~HasError(p1) /\ x.status # "bad"
  <2>1. PICK x \in AnswerType :
              /\ a1 = Append(a, x)
              /\ \/ HasError(p1) /\ x.status = "bad"
                 \/ ~HasError(p1) /\ x.status # "bad"
    BY <1>2
  <2>2. Rejected(a1) <=> Rejected(a) \/ x.status = "bad"
    BY <2>1, AppendAnswer
  <2> QED
    BY <2>1, <2>2
<1>3. Added(p1, q, a, a1, st, fin)
  BY OutcomeAnswer
<1> QED
  BY <1>1, <1>2, <1>3 DEF Added

\* What a read leaves of Phase.
LEMMA OutcomePhase ==
    ASSUME asked \in Seq(Kinds), NEW p, NEW p1, NEW q, NEW r, NEW a \in Seq(AnswerType),
           NEW a1, NEW st, NEW st1, NEW fin, ParserOK(asked, p1), ParserOK(asked, q),
           Outcome(p, p1, q, r, a, a1, st, st1, fin), Phase(p, a, st)
    PROVE  Phase(r, a1, st1)
<1>1. /\ st \in {"kConnected", "kDisconnecting"}
      /\ st1 = IF HasError(p1) \/ (Complete(q) /\ Response(q).close) THEN "kDisconnecting" ELSE st
      /\ r = IF Complete(q) /\ ~Response(q).close THEN ParserReset(q) ELSE q
  BY DEF Outcome
<1>2. /\ Rejected(a) => Rejected(a1)
      /\ HasError(p1) /\ st # "kDisconnecting" => Rejected(a1)
      /\ Rejected(a1) => Rejected(a) \/ HasError(p1)
  BY OutcomeRejected
<1>3. Complete(r) => r = q /\ Complete(q) /\ Response(q).close
  <2>1. ~Complete(ParserReset(q))
    <3>1. ParserReset(q).cs = "start"
      BY DEF ParserReset, ParserOK, ParserType
    <3> QED
      BY <3>1 DEF Complete
  <2> QED
    BY <1>1, <2>1
<1>4. Rejected(a) => st = "kDisconnecting"
  BY <1>1 DEF Phase
<1>5. Complete(p) => q = p
  <2>1. ASSUME Complete(p) PROVE q = p
    <3>1. p1 = p
      BY <2>1 DEF Complete, Outcome
    <3> QED
      BY <2>1, <3>1 DEF Outcome
  <2> QED
    BY <2>1
<1>6. st = "kDisconnecting" => Rejected(a1) \/ Complete(r)
  <2>1. ASSUME Complete(p) PROVE Complete(r)
    <3>1. Response(p).close
      BY <2>1 DEF Phase
    <3>2. r = q /\ q = p
      BY <1>1, <1>5, <2>1, <3>1
    <3> QED
      BY <2>1, <3>2
  <2> QED
    BY <1>2, <2>1 DEF Phase
<1>7. st1 = "kDisconnecting" => Rejected(a1) \/ Complete(r)
  BY <1>1, <1>2, <1>6
<1>8. Rejected(a1) \/ Complete(r) => st1 = "kDisconnecting"
  BY <1>1, <1>2, <1>3, <1>4
<1>9. Complete(r) => Response(r).close
  BY <1>3
<1> QED
  BY <1>1, <1>7, <1>8, <1>9 DEF Phase

\* What a read leaves of Blamed: an error is answered with a 400, unless it has
\* been already.
LEMMA OutcomeBlamed ==
    ASSUME asked \in Seq(Kinds), NEW p, NEW p1, NEW q, NEW r, NEW a \in Seq(AnswerType),
           NEW a1, NEW st, NEW st1, NEW fin, ParserOK(asked, p1), ParserOK(asked, q),
           Outcome(p, p1, q, r, a, a1, st, st1, fin), Phase(p, a, st), Blamed(asked, p, a),
           \A rejected : Fault(p, rejected) => Fault(p1, rejected)
    PROVE  Blamed(asked, r, a1)
<1>1. HasError(p1) => Rejected(a) \/ asked[p1.request].form # "ok"
  <2>1. Fault(p, Rejected(a))
    BY DEF Fault, Blamed
  <2>2. Fault(p1, Rejected(a))
    BY <2>1
  <2> QED
    BY <2>2 DEF Fault
<1>2. /\ Rejected(a) => Rejected(a1)
      /\ HasError(p1) /\ st # "kDisconnecting" => Rejected(a1)
  BY OutcomeRejected
<1>3. HasError(r) => HasError(p1)
  <2>1. HasError(q) => HasError(p1)
    BY DEF HasError, Outcome
  <2>2. HasError(ParserReset(q)) => HasError(q)
    BY DEF HasError, ParserReset, ParserOK, ParserType
  <2> QED
    BY <2>1, <2>2 DEF Outcome
<1>4. st = "kDisconnecting" /\ HasError(p1) => Rejected(a)
  <2>1. ASSUME Complete(p), HasError(p1) PROVE Rejected(a)
    <3>1. p1 = p
      BY <2>1 DEF Complete, Outcome
    <3> QED
      BY <2>1, <3>1 DEF Blamed
  <2> QED
    BY <2>1 DEF Phase
<1>5. HasError(r) => Rejected(a1)
  BY <1>2, <1>3, <1>4
<1>6. ASSUME NEW i \in 1..Len(a1), a1[i].status = "bad"
      PROVE  asked[a1[i].request].form # "ok" \/ \E j \in 1..(i - 1) : a1[j].status = "bad"
  <2>1. CASE a1 = a
    BY <1>6, <2>1 DEF Blamed
  <2>2. CASE \E x \in AnswerType :
                 /\ a1 = Append(a, x) /\ x.request = p1.request
                 /\ \/ HasError(p1) /\ x.status = "bad"
                    \/ x.status # "bad"
    <3>1. PICK x \in AnswerType :
                 /\ a1 = Append(a, x) /\ x.request = p1.request
                 /\ \/ HasError(p1) /\ x.status = "bad"
                    \/ x.status # "bad"
      BY <2>2
    <3>2. /\ Len(a1) = Len(a) + 1 /\ Len(a) \in Nat
          /\ \A k \in 1..Len(a) : a1[k] = a[k]
          /\ a1[Len(a) + 1] = x
      BY <3>1, AppendAnswer
    <3>3. CASE i = Len(a) + 1
      <4>1. HasError(p1) /\ a1[i].request = p1.request
        BY <1>6, <3>1, <3>2, <3>3
      <4>2. CASE Rejected(a)
        <5>1. PICK k \in 1..Len(a) : a[k].status = "bad"
          BY <4>2 DEF Rejected
        <5>2. k \in 1..(i - 1) /\ a1[k].status = "bad"
          BY <3>2, <3>3, <5>1
        <5> QED
          BY <5>2
      <4>3. CASE asked[p1.request].form # "ok"
        BY <4>1, <4>3
      <4> QED
        BY <1>1, <4>1, <4>2, <4>3
    <3>4. CASE i \in 1..Len(a)
      <4>1. a1[i] = a[i] /\ \A j \in 1..(i - 1) : a1[j] = a[j]
        BY <3>2, <3>4
      <4>2. asked[a[i].request].form # "ok" \/ \E j \in 1..(i - 1) : a[j].status = "bad"
        BY <1>6, <3>4, <4>1 DEF Blamed
      <4> QED
        BY <4>1, <4>2
    <3> QED
      BY <3>2, <3>3, <3>4
  <2>3. Added(p1, q, a, a1, st, fin)
    BY OutcomeAnswer
  <2> QED
    BY <2>1, <2>2, <2>3 DEF Added
<1> QED
  BY <1>5, <1>6 DEF Blamed

\* What is settled for p, with m parts to come, is for q with n.
StaysSettled(e, p, m, q, n, st) ==
    \A k \in 1..Len(asked) : Settled(asked, e, p, m, k, st) => Settled(asked, e, q, n, k, st)

\* What a read leaves of the order: n parts were to come after execute, n1 are
\* after the body.
LEMMA OutcomeOrderly ==
    ASSUME asked \in Seq(Kinds), NEW p, NEW p1, NEW q, NEW r, NEW a \in Seq(AnswerType),
           NEW a1, NEW st, NEW st1, NEW fin, ParserOK(asked, p1), ParserOK(asked, q),
           Outcome(p, p1, q, r, a, a1, st, st1, fin), p1.cs # "start",
           NEW e \in [0..Len(asked) -> Nat], NEW m, NEW n, NEW n1 \in Nat,
           NEW u, Layout(asked, e, u), Position(asked, e, q, n1), Answers(asked, e, p, m, a, st),
           StaysSettled(e, p, m, p1, n, st), StaysSettled(e, p1, n, q, n1, st)
    PROVE  Position(asked, e, r, n1) /\ Answers(asked, e, r, n1, a1, st1)
<1>1. /\ st \in {"kConnected", "kDisconnecting"}
      /\ st1 = IF HasError(p1) \/ (Complete(q) /\ Response(q).close) THEN "kDisconnecting" ELSE st
      /\ r = IF Complete(q) /\ ~Response(q).close THEN ParserReset(q) ELSE q
      /\ q.cs = p1.cs /\ q.request = p1.request /\ (q.error <=> p1.error)
  BY DEF Outcome
<1>2. q.cs # "start" /\ q.request \in 1..Len(asked) /\ q.missed = {}
  BY <1>1 DEF Position
<1>3. HasError(q) <=> HasError(p1)
  BY <1>1 DEF HasError
<1>4. PICK k \in 1..Len(asked) : k = q.request
  BY <1>2
<1>5. Complete(q) => n1 = e[k] /\ q.cs = "finished"
  <2>1. SUFFICES ASSUME Complete(q) PROVE n1 = e[k] /\ q.cs = "finished"
    OBVIOUS
  <2>2. q.cs = "finished" /\ q.body = ContentLength(q)
    BY <2>1 DEF Complete
  <2>3. ContentLength(q) = asked[k].body
    BY <1>2, <1>4 DEF ContentLength
  <2>4. n1 = e[k - 1] - (2 + asked[k].body)
    BY <1>4, <2>2, <2>3 DEF Position
  <2>5. e[k - 1] = e[k] + 2 + asked[k].body /\ asked[k].body \in Nat
    BY KindFields DEF Layout
  <2>6. e[k] \in Nat
    <3>1. k \in 0..Len(asked)
      OBVIOUS
    <3> QED
      BY <3>1
  <2>7. n1 = e[k]
    BY <2>4, <2>5, <2>6
  <2> QED
    BY <2>2, <2>7
<1>6. /\ Complete(q) /\ ~Response(q).close => r.cs = "start" /\ r.missed = {}
      /\ ~(Complete(q) /\ ~Response(q).close) => r = q
  BY <1>1 DEF ParserReset, ParserOK, ParserType
<1>7. Position(asked, e, r, n1)
  <2>1. CASE Complete(q) /\ ~Response(q).close
    <3>1. k \in 0..Len(asked) /\ n1 = e[k]
      BY <1>5, <2>1
    <3>2. r.cs = "start" /\ r.missed = {}
      BY <1>6, <2>1
    <3> QED
      BY <3>1, <3>2 DEF Position
  <2>2. CASE ~(Complete(q) /\ ~Response(q).close)
    BY <1>6, <2>2
  <2> QED
    BY <2>1, <2>2
<1>8. ASSUME NEW i \in 1..Len(asked), Settled(asked, e, p, m, i, st)
      PROVE  /\ Settled(asked, e, r, n1, i, st1)
             /\ HasError(p1) \/ (Complete(q) /\ st = "kConnected") => i < k
  <2>1. Settled(asked, e, q, n1, i, st)
    BY <1>8 DEF StaysSettled
  <2>2. i < k \/ (i = k /\ q.cs = "finished" /\ ~q.error /\ st # "kConnected")
    BY <1>2, <1>4, <2>1 DEF Settled
  <2>3. HasError(p1) \/ (Complete(q) /\ st = "kConnected") => i < k
    BY <1>3, <2>2 DEF HasError
  <2>4. st # "kConnected" => st1 # "kConnected"
    BY <1>1
  <2>5. Settled(asked, e, r, n1, i, st1)
    BY <1>6, <2>1, <2>4 DEF Settled
  <2> QED
    BY <2>3, <2>5
<1>9. ASSUME ~HasError(p1), Complete(q), st = "kConnected"
      PROVE  Settled(asked, e, r, n1, k, st1)
  <2>1. q.cs = "finished" /\ n1 = e[k] /\ n1 <= e[k]
    BY <1>5, <1>9
  <2>2. ~q.error
    BY <1>3, <1>9 DEF HasError
  <2>3. asked[k].form # "malformed" /\ asked[k].form # "badMethod"
    BY <1>4, <2>1, <2>2 DEF Position
  <2>4. asked[k].form = "ok"
    BY <2>3, KindFields
  <2>5. r.cs # "start" => r = q /\ Response(q).close
    BY <1>6, <1>9
  <2>6. r.cs # "start" => k = r.request /\ r.cs = "finished" /\ ~r.error /\ st1 # "kConnected"
    BY <1>1, <1>4, <1>9, <2>1, <2>2, <2>5
  <2> QED
    BY <2>1, <2>4, <2>6 DEF Settled
<1>10. Added(p1, q, a, a1, st, fin)
  BY OutcomeAnswer
<1>11. ASSUME NEW i \in 1..Len(a)
       PROVE  /\ a[i].request \in 1..Len(asked)
              /\ a[i].status \in {"ok", "bad"}
              /\ a[i].status = "ok" =>
                    /\ Settled(asked, e, r, n1, a[i].request, st1)
                    /\ HasError(p1) \/ (Complete(q) /\ st = "kConnected") => a[i].request < k
                    /\ \A j \in (i + 1)..Len(a) : a[i].request < a[j].request
  BY <1>8 DEF Answers
<1>12. CASE a1 = a
  BY <1>7, <1>11, <1>12 DEF Answers
<1>13. CASE \E x \in AnswerType :
               /\ a1 = Append(a, x) /\ x.request = p1.request
               /\ \/ HasError(p1) /\ x.status = "bad"
                  \/ /\ ~HasError(p1) /\ Complete(q) /\ st = "kConnected"
                     /\ x.status = IF "path" \in q.missed THEN "notFound" ELSE "ok"
  <2>1. PICK x \in AnswerType :
               /\ a1 = Append(a, x) /\ x.request = p1.request
               /\ \/ HasError(p1) /\ x.status = "bad"
                  \/ /\ ~HasError(p1) /\ Complete(q) /\ st = "kConnected"
                     /\ x.status = IF "path" \in q.missed THEN "notFound" ELSE "ok"
    BY <1>13
  <2>2. /\ Len(a1) = Len(a) + 1 /\ Len(a) \in Nat
        /\ \A i \in 1..Len(a) : a1[i] = a[i]
        /\ a1[Len(a) + 1] = x
    BY <2>1, AppendAnswer
  <2>3. x.request = k /\ x.status \in {"ok", "bad"}
    BY <1>1, <1>2, <1>4, <2>1
  <2>4. x.status = "ok" => Settled(asked, e, r, n1, k, st1)
    BY <1>9, <2>1
  <2>5. HasError(p1) \/ (Complete(q) /\ st = "kConnected")
    BY <2>1
  <2>6. ASSUME NEW i \in 1..Len(a1)
        PROVE  /\ a1[i].request \in 1..Len(asked)
               /\ a1[i].status \in {"ok", "bad"}
               /\ a1[i].status = "ok" =>
                     /\ Settled(asked, e, r, n1, a1[i].request, st1)
                     /\ \A j \in (i + 1)..Len(a1) : a1[i].request < a1[j].request
    <3>1. CASE i = Len(a) + 1
      <4>1. a1[i] = x /\ \A j \in (i + 1)..Len(a1) : FALSE
        BY <2>2, <3>1
      <4> QED
        BY <2>3, <2>4, <4>1
    <3>2. CASE i \in 1..Len(a)
      <4>1. a1[i] = a[i]
        BY <2>2, <3>2
      <4>2. ASSUME a[i].status = "ok", NEW j \in (i + 1)..Len(a1)
            PROVE  a[i].request < a1[j].request
        <5>1. CASE j = Len(a) + 1
          <6>1. a1[j] = x
            BY <2>2, <5>1
          <6> QED
            BY <1>11, <2>3, <2>5, <3>2, <4>2, <6>1
        <5>2. CASE j \in (i + 1)..Len(a)
          <6>1. a1[j] = a[j]
            BY <2>2, <3>2, <5>2
          <6> QED
            BY <1>11, <3>2, <4>2, <5>2, <6>1
        <5>3. j = Len(a) + 1 \/ j \in (i + 1)..Len(a)
          <6>1. PICK l \in Nat : l = Len(a)
            BY <2>2
          <6>2. j \in (i + 1)..(l + 1) /\ i \in 1..l
            BY <2>2, <3>2, <6>1
          <6> QED
            BY <6>1, <6>2
        <5> QED
          BY <5>1, <5>2, <5>3
      <4> QED
        BY <1>11, <3>2, <4>1, <4>2
    <3> QED
      BY <2>2, <3>1, <3>2
  <2>7. Answers(asked, e, r, n1, a1, st1)
    BY <2>6 DEF Answers
  <2> QED
    BY <1>7, <2>7
<1> QED
  BY <1>10, <1>12, <1>13 DEF Added

\* Of what a read has consumed nothing is left without an answer, unless the
\* connection is being closed.
LEMMA OutcomeReplied ==
    ASSUME asked \in Seq(Kinds), NEW p, NEW p1, NEW q, NEW r, NEW a \in Seq(AnswerType),
           NEW a1, NEW st, NEW st1, NEW fin, ParserOK(asked, p1), ParserOK(asked, q),
           Outcome(p, p1, q, r, a, a1, st, st1, fin), p1.cs # "start",
           NEW e \in [0..Len(asked) -> Nat], NEW s, NEW m \in Nat, m = Len(s), NEW n1 \in Nat,
           NEW u, Layout(asked, e, u), Position(asked, e, q, n1), OneRequest(e, p, s, q, u),
           Replied(asked, e, m, a, st)
    PROVE  Replied(asked, e, n1, a1, st1)
<1>1. /\ st \in {"kConnected", "kDisconnecting"}
      /\ st1 = IF HasError(p1) \/ (Complete(q) /\ Response(q).close) THEN "kDisconnecting" ELSE st
      /\ q.cs = p1.cs /\ q.request = p1.request
  BY DEF Outcome
<1> SUFFICES ASSUME st1 \in {"kConnecting", "kConnected"}, NEW j \in 1..Len(asked), n1 <= e[j]
             PROVE  HasAnswer(a1, j)
  BY DEF Replied
<1>2. ~HasError(p1) /\ st = "kConnected"
  BY <1>1
<1>3. q.cs \in {"partial", "finished"} /\ q.missed = {}
  <2>1. p1.cs \in {"partial", "finished"}
    BY <1>2 DEF HasError, ParserOK, ParserType
  <2> QED
    BY <1>1, <2>1 DEF Position
<1>4. PICK k \in 1..Len(asked) : k = q.request
  BY <1>3 DEF Position
<1>5. k - 1 \in 0..Len(asked) /\ k \in 0..Len(asked) /\ j \in 0..Len(asked)
  OBVIOUS
<1>6. e[k - 1] \in Nat /\ e[k] \in Nat /\ e[j] \in Nat
  BY <1>5
<1>7. m <= e[k - 1]
  BY <1>3, <1>4 DEF OneRequest
<1>8. PICK b \in Nat : b = asked[k].body
  BY KindFields
<1>9. e[k - 1] = e[k] + 2 + b
  BY <1>4, <1>8 DEF Layout
<1>10. /\ q.body \in Nat
       /\ q.cs = "partial" => n1 = e[k - 1] - 1
       /\ q.cs = "finished" => n1 = e[k - 1] - (2 + q.body) /\ q.body <= b
  BY <1>4, <1>8 DEF Position, ParserOK, ParserType
<1>11. e[k] <= n1 /\ (q.cs = "partial" \/ q.body # b => e[k] < n1)
  <2>1. PICK x \in Nat, y \in Nat : x = e[k] /\ y = q.body
    BY <1>6, <1>10
  <2>2. e[k - 1] = x + 2 + b
    BY <1>9, <2>1
  <2>3. CASE q.cs = "partial"
    <3>1. n1 = (x + 2 + b) - 1
      BY <1>10, <2>2, <2>3
    <3>2. x < n1
      BY ONLY <3>1, n1 \in Nat, x \in Nat, b \in Nat
    <3> QED
      BY ONLY <2>1, <3>2, x \in Nat, n1 \in Nat
  <2>4. CASE q.cs = "finished"
    <3>1. n1 = (x + 2 + b) - (2 + y) /\ y <= b
      BY <1>10, <2>1, <2>2, <2>4
    <3>2. x <= n1 /\ (y # b => x < n1)
      BY ONLY <3>1, n1 \in Nat, x \in Nat, y \in Nat, b \in Nat
    <3> QED
      BY <2>1, <2>4, <3>2
  <2> QED
    BY <1>3, <2>3, <2>4
<1>12. \A i \in 0..Len(asked) : k < i => e[i] < e[k]
  BY <1>5 DEF Layout
<1>13. j <= k
  <2>1. ~(e[j] < e[k])
    BY <1>6, <1>11
  <2>2. ~(k < j)
    BY <1>5, <1>12, <2>1
  <2> QED
    BY ONLY <2>2, j \in 1..Len(asked), k \in 1..Len(asked), Len(asked) \in Nat
<1>14. Added(p1, q, a, a1, st, fin)
  BY OutcomeAnswer
<1>15. HasAnswer(a, j) => HasAnswer(a1, j)
  <2>1. a1 = a \/ \E x \in AnswerType : a1 = Append(a, x)
    BY <1>14 DEF Added
  <2>2. ASSUME NEW x \in AnswerType, a1 = Append(a, x), HasAnswer(a, j) PROVE HasAnswer(a1, j)
    <3>1. PICK i \in 1..Len(a) : a[i].request = j
      BY <2>2 DEF HasAnswer
    <3>2. i \in 1..Len(a1) /\ a1[i] = a[i]
      BY <2>2, AppendAnswer
    <3> QED
      BY <3>1, <3>2 DEF HasAnswer
  <2> QED
    BY <2>1, <2>2
<1>16. CASE j < k
  <2>1. \A i \in 0..Len(asked) : i < k - 1 => e[k - 1] < e[i]
    BY <1>5 DEF Layout
  <2>2. j = k - 1 \/ j < k - 1
    BY <1>16
  <2>3. e[k - 1] <= e[j]
    BY <1>5, <1>6, <2>1, <2>2
  <2>4. m <= e[j]
    BY <1>6, <1>7, <2>3
  <2>5. HasAnswer(a, j)
    BY <1>2, <2>4 DEF Replied
  <2> QED
    BY <1>15, <2>5
<1>17. CASE j = k
  <2>1. q.cs = "finished" /\ q.body = b
    BY <1>3, <1>6, <1>11, <1>17
  <2>2. Complete(q)
    BY <1>3, <1>4, <1>8, <2>1 DEF Complete, ContentLength
  <2>3. a1 = Append(a, [request |-> q.request, status |-> Response(q).status])
    BY <1>2, <2>2 DEF Outcome
  <2>4. PICK x \in AnswerType : a1 = Append(a, x) /\ x.request = k
    <3>1. k \in 0..MaxRequests
      BY <1>4 DEF ParserOK, ParserType
    <3>2. PICK t : t = Response(q).status
      OBVIOUS
    <3>3. t \in {"ok", "notFound"}
      BY <3>2 DEF Response
    <3>4. PICK x : x = [request |-> k, status |-> t]
      OBVIOUS
    <3>5. x \in AnswerType /\ x.request = k
      BY ONLY <3>1, <3>3, <3>4 DEF AnswerType
    <3>6. a1 = Append(a, x)
      BY <1>4, <2>3, <3>2, <3>4
    <3> QED
      BY <3>5, <3>6
  <2>5. Len(a) + 1 \in 1..Len(a1) /\ a1[Len(a) + 1].request = k
    BY <2>4, AppendAnswer
  <2> QED
    BY <1>17, <2>5 DEF HasAnswer
<1> QED
  BY <1>13, <1>16, <1>17

-----------------------------------------------------------------------------
(* The steps.                                                               *)

\* FirstRest for sequences of anything.
LEMMA CutInTwo ==
    ASSUME NEW S, NEW s \in Seq(S), NEW m \in 0..Len(s)
    PROVE  /\ First(s, m) \in Seq(S) /\ Len(First(s, m)) = m
           /\ Rest(s, m) \in Seq(S)
           /\ First(s, m) \o Rest(s, m) = s
<1>1. First(s, m) \in Seq(S) /\ Len(First(s, m)) = m /\ Rest(s, m) \in Seq(S)
  BY DEF First, Rest
<1>2. /\ 1 \in 1..(Len(s) + 1) /\ m \in (1 - 1)..Len(s) /\ Len(s) \in m..Len(s)
  OBVIOUS
<1>3. SubSeq(s, 1, m) \o SubSeq(s, m + 1, Len(s)) = SubSeq(s, 1, Len(s))
  BY ONLY s \in Seq(S), <1>2, ConcatAdjacentSubSeq
<1> QED
  BY <1>1, <1>3, SubSeqFull DEF First, Rest

\* A read: what has arrived is cut where the read ends.
LEMMA ReadParts ==
    ASSUME ServerOK, NEW m \in 0..Len(wire)
    PROVE  /\ inputBuffer \o First(wire, m) \in Seq(PartOf(asked))
           /\ Rest(wire, m) \in Seq(PartOf(asked))
           /\ (inputBuffer \o First(wire, m)) \o Rest(wire, m) = Coming
           /\ m > 0 => inputBuffer \o First(wire, m) # <<>>
<1>1. /\ wire \in Seq(PartOf(asked)) /\ inputBuffer \in Seq(PartOf(asked))
      /\ Len(wire) \in Nat /\ m \in Nat
  BY DEF ServerOK
<1>2. PICK f \in Seq(PartOf(asked)) : f = First(wire, m)
  BY <1>1, CutInTwo
<1>3. PICK g \in Seq(PartOf(asked)) : g = Rest(wire, m)
  BY <1>1, CutInTwo
<1>4. f \o g = wire /\ Len(f) = m
  BY <1>1, <1>2, <1>3, CutInTwo
<1>5. (inputBuffer \o f) \o g = inputBuffer \o (f \o g)
  BY SMTT(15), <1>1, ConcatAssociative
<1>6. inputBuffer \o f \in Seq(PartOf(asked)) /\ Len(inputBuffer \o f) = Len(inputBuffer) + m
  BY <1>1, <1>4, ConcatProperties
<1>7. m > 0 => inputBuffer \o f # <<>>
  BY <1>1, <1>6, EmptySeq
<1> QED
  BY <1>2, <1>3, <1>4, <1>5, <1>6, <1>7 DEF Coming

\* A cut part is a part.
LEMMA CutParts ==
    ASSUME ServerOK, NEW m \in 0..Len(wire), m < Len(wire), NEW token \in Tokens[wire[m + 1].part]
    PROVE  Rest([wire EXCEPT ![m + 1].cut = token], m) \in Seq(PartOf(asked))
<1>1. wire \in Seq(PartOf(asked)) /\ Len(wire) \in Nat /\ m \in Nat /\ m + 1 \in 1..Len(wire)
  BY DEF ServerOK
<1>2. PICK t \in PartOf(asked) : t = wire[m + 1]
  BY <1>1
<1>3. PICK u : u = [t EXCEPT !.cut = token]
  OBVIOUS
<1>4. PICK w : w = [wire EXCEPT ![m + 1] = u]
  OBVIOUS
<1>5. w = [wire EXCEPT ![m + 1].cut = token]
  BY <1>1, <1>2, <1>3, <1>4
<1>6. /\ t.part \in DOMAIN Tokens /\ t.request \in 1..MaxRequests /\ t.request <= Len(asked)
      /\ t \in PartType
  BY DEF PartOf, PartType
<1>7. /\ u = [part |-> t.part, request |-> t.request, cut |-> token]
      /\ u.part = t.part /\ u.request = t.request /\ u.cut = token
  BY <1>3, <1>6 DEF PartType
<1>8. token \in UNION {Tokens[d] : d \in DOMAIN Tokens}
  BY <1>2, <1>6
<1>9. u \in PartType
  BY <1>6, <1>7, <1>8 DEF PartType
<1>10. u \in PartOf(asked)
  BY <1>2, <1>6, <1>7, <1>9 DEF PartOf
<1>11. w \in Seq(PartOf(asked)) /\ Len(w) = Len(wire)
  BY <1>1, <1>4, <1>10
<1>12. Rest(w, m) \in Seq(PartOf(asked))
  BY <1>1, <1>11 DEF Rest
<1> QED
  BY <1>5, <1>12

\* A parser that has been reset.
LEMMA ResetParser ==
    ASSUME asked \in Seq(Kinds), NEW p \in ParserType, NEW r, r = ParserReset(p)
    PROVE  /\ ParserOK(asked, r)
           /\ r.cs = "start" /\ r.missed = {}
           /\ r.error <=> p.error
<1>1. p.error \in BOOLEAN
  BY DEF ParserType
<1>2. PICK b \in BOOLEAN : b = p.error
  BY <1>1
<1>3. r = [cs |-> "start", error |-> b, request |-> 0, missed |-> {}, body |-> 0]
  BY <1>2 DEF ParserReset, ParserType
<1>4. /\ r.cs = "start" /\ r.request = 0 /\ r.missed = {} /\ r.body = 0
  BY <1>3
<1>5. r.error = b
  BY <1>3
<1>6. r \in ParserType
  <2>1. 0 \in 0..MaxRequests
    BY HttpAssumption
  <2> QED
    BY <1>3, <2>1 DEF ParserType
<1>7. 0 <= Len(asked)
  OBVIOUS
<1> QED
  BY <1>2, <1>4, <1>5, <1>6, <1>7 DEF ParserOK

\* A read has an outcome.
ReadOutcome ==
    \E p1, q : /\ ParserOK(asked, p1) /\ ParserOK(asked, q)
               /\ Outcome(parser, p1, q, parser', answered, answered',
                          conn.state, conn'.state, conn.fin)

\* handleRead with bytes to read.
LEMMA HandleReadStep ==
    ASSUME HttpInv, HandleRead PROVE HttpInv' /\ ReadOutcome
<1>1. /\ ConnInv /\ ServerOK /\ Phase(parser, answered, conn.state)
      /\ asked \in Seq(Kinds) /\ ParserOK(asked, parser) /\ answered \in Seq(AnswerType)
  BY DEF HttpInv, ServerOK, AnswerType
<1>2. conn.state \in {"kConnected", "kDisconnecting"}
  BY <1>1, Fields DEF HandleRead, ConnInv, Good, ConnOK, States
<1>3. PICK m \in 0..Len(wire) :
        \E e \in {Execute(parser, inputBuffer \o First(wire, m))} :
             /\ \/ m > 0 /\ wire' = Rest(wire, m) /\ UNCHANGED tainted
                \/ /\ m < Len(wire)
                   /\ \E token \in Tokens[wire[m + 1].part] :
                         wire' = Rest([wire EXCEPT ![m + 1].cut = token], m)
                   /\ tainted' = tainted \cup {"cut"}
             /\ OnMessage(e)
  BY DEF HandleRead
<1>4. PICK buf \in Seq(PartOf(asked)) : buf = inputBuffer \o First(wire, m)
  BY <1>1, ReadParts
<1>5. PICK rest \in Seq(PartOf(asked)) : rest = Rest(wire, m)
  BY <1>1, ReadParts
<1>6. PICK e : e = Execute(parser, buf)
  OBVIOUS
<1>7. /\ \/ m > 0 /\ wire' = rest /\ UNCHANGED tainted
         \/ /\ m < Len(wire)
            /\ \E token \in Tokens[wire[m + 1].part] :
                  wire' = Rest([wire EXCEPT ![m + 1].cut = token], m)
            /\ tainted' = tainted \cup {"cut"}
      /\ OnMessage(e)
  BY <1>3, <1>4, <1>5, <1>6
<1>8. PICK p1 : p1 = e.p
  OBVIOUS
<1>9. PICK q : q = [e.p EXCEPT !.body = @ + BodyRead(e)]
  OBVIOUS
<1>10. /\ ParserOK(asked, p1) /\ e.buf \in Seq(PartOf(asked))
       /\ p1.cs = "start" => buf = <<>>
       /\ parser.cs \in {"finished", "error"} => p1 = parser
       /\ \A f \in [0..Len(asked) -> Nat] :
             Keeps(f, parser, buf \o rest, p1, e.buf \o rest)
  BY <1>1, <1>6, <1>8, ExecuteOK
<1>11. PICK left \in Seq(PartOf(asked)) : left = Rest(e.buf, BodyRead(e))
  <2>1. asked \in Seq(Kinds) /\ ParserOK(asked, e.p) /\ e.buf \in Seq(PartOf(asked))
    BY ONLY <1>1, <1>8, <1>10
  <2>2. Rest(e.buf, BodyRead(e)) \in Seq(PartOf(asked))
    BY SMTT(20), <1>9, <2>1, BodyOK
  <2> QED
    BY ONLY <2>2
<1>12. /\ ParserOK(asked, q)
       /\ q.cs = p1.cs /\ (q.error <=> p1.error) /\ q.request = p1.request
       /\ q.missed = p1.missed
       /\ Complete(p1) => q = p1
       /\ \A f \in [0..Len(asked) -> Nat] : Keeps(f, p1, e.buf \o rest, q, left \o rest)
  BY <1>1, <1>8, <1>9, <1>10, <1>11, BodyOK
<1>13. /\ Good(conn', received, handed') /\ handed' \in Bytes
       /\ conn'.broken = conn.broken
       /\ conn'.state = IF HasError(p1) \/ (Complete(q) /\ Response(q).close)
                        THEN "kDisconnecting" ELSE conn.state
       /\ parser' = IF Complete(q) /\ ~Response(q).close THEN ParserReset(q) ELSE q
       /\ inputBuffer' = left
       /\ HasError(p1) =>
             answered' = IF conn.state = "kConnected" \/ ~conn.fin
                         THEN Append(answered, [request |-> p1.request, status |-> "bad"])
                         ELSE answered
       /\ ~HasError(p1) =>
             answered' = IF Complete(q) /\ conn.state = "kConnected"
                         THEN Append(answered, [request |-> q.request,
                                                status  |-> Response(q).status])
                         ELSE answered
  BY <1>1, <1>2, <1>7, <1>8, <1>9, <1>10, <1>11, MessageOK
<1>14. Outcome(parser, p1, q, parser', answered, answered', conn.state, conn'.state, conn.fin)
  BY <1>2, <1>10, <1>12, <1>13 DEF Outcome
<1>15. UNCHANGED <<peer, received, clients, asked>>
  BY DEF HandleRead
<1>16. ConnInv'
  BY <1>1, <1>13, <1>15 DEF ConnInv
<1>17. wire' \in Seq(PartOf(asked))
  BY <1>1, <1>7, CutParts
<1>18. ParserOK(asked, parser')
  <2>1. CASE Complete(q) /\ ~Response(q).close
    <3>1. /\ parser' = ParserReset(q) /\ q \in ParserType
      BY <1>12, <1>13, <2>1 DEF ParserOK
    <3> QED
      BY <1>1, <3>1, ResetParser
  <2>2. CASE ~(Complete(q) /\ ~Response(q).close)
    BY <1>12, <1>13, <2>2
  <2> QED
    BY <2>1, <2>2
<1>19. answered' \in Seq(AnswerType)
  <2>1. Added(p1, q, answered, answered', conn.state, conn.fin)
    BY <1>1, <1>10, <1>12, <1>14, OutcomeAnswer
  <2> QED
    BY <1>1, <2>1, AppendAnswer DEF Added
<1>20. tainted' \subseteq Taints
  BY <1>1, <1>7 DEF ServerOK, Taints
<1>21. ServerOK'
  BY <1>1, <1>13, <1>15, <1>17, <1>18, <1>19, <1>20 DEF ServerOK, AnswerType
<1>22. Phase(parser', answered', conn'.state)
  BY <1>1, <1>10, <1>12, <1>14, OutcomePhase
<1>23. /\ inputBuffer' \o rest = left \o rest
       /\ Coming = buf \o rest
       /\ left \o rest \in Seq(PartOf(asked)) /\ e.buf \o rest \in Seq(PartOf(asked))
  BY <1>1, <1>4, <1>5, <1>10, <1>13, ReadParts, ConcatProperties
<1>24. ASSUME "cut" \notin tainted'
       PROVE  /\ \E f \in [0..Len(asked) -> Nat] :
                    Orderly(asked, f, left \o rest, parser', answered', conn'.state)
              /\ \A rejected : Fault(parser, rejected) => Fault(p1, rejected)
  <2>1. m > 0 /\ wire' = rest /\ tainted' = tainted
    BY <1>7, <1>24
  <2>2. PICK f \in [0..Len(asked) -> Nat] :
           Orderly(asked, f, Coming, parser, answered, conn.state)
    BY <1>24, <2>1 DEF HttpInv
  <2>3. /\ Layout(asked, f, buf \o rest)
        /\ Position(asked, f, parser, Len(buf \o rest))
        /\ Answers(asked, f, parser, Len(buf \o rest), answered, conn.state)
    BY <1>23, <2>2 DEF Orderly
  <2>4. Keeps(f, parser, buf \o rest, p1, e.buf \o rest)
    BY <1>10
  <2>5. /\ Layout(asked, f, e.buf \o rest) /\ Position(asked, f, p1, Len(e.buf \o rest))
        /\ \A rejected : Fault(parser, rejected) => Fault(p1, rejected)
        /\ \A k \in 1..Len(asked) : \A st :
              Settled(asked, f, parser, Len(buf \o rest), k, st) =>
              Settled(asked, f, p1, Len(e.buf \o rest), k, st)
    BY <2>3, <2>4 DEF Keeps
  <2>6. Keeps(f, p1, e.buf \o rest, q, left \o rest)
    BY <1>12
  <2>7. /\ Layout(asked, f, left \o rest) /\ Position(asked, f, q, Len(left \o rest))
        /\ \A k \in 1..Len(asked) : \A st :
              Settled(asked, f, p1, Len(e.buf \o rest), k, st) =>
              Settled(asked, f, q, Len(left \o rest), k, st)
    BY <2>5, <2>6 DEF Keeps
  <2>8. p1.cs # "start"
    BY <1>1, <1>4, <1>10, <2>1, ReadParts
  <2>9. PICK m0, n, n1 : m0 = Len(buf \o rest) /\ n = Len(e.buf \o rest) /\ n1 = Len(left \o rest)
    OBVIOUS
  <2>10. n1 \in Nat
    BY <1>23, <2>9
  <2>11. /\ Position(asked, f, q, n1) /\ Answers(asked, f, parser, m0, answered, conn.state)
         /\ StaysSettled(f, parser, m0, p1, n, conn.state)
         /\ StaysSettled(f, p1, n, q, n1, conn.state)
    BY <2>3, <2>5, <2>7, <2>9 DEF StaysSettled
  <2>12. Position(asked, f, parser', n1) /\ Answers(asked, f, parser', n1, answered', conn'.state)
    <3>1. /\ asked \in Seq(Kinds) /\ answered \in Seq(AnswerType)
          /\ ParserOK(asked, p1) /\ ParserOK(asked, q)
          /\ Layout(asked, f, left \o rest)
      BY <1>1, <1>10, <1>12, <2>7
    <3> QED
      BY ONLY <3>1, f \in [0..Len(asked) -> Nat], <1>14, <2>8, <2>10, <2>11, OutcomeOrderly
  <2>13. Replied(asked, f, n1, answered', conn'.state)
    <3>1. Keeps(f, parser, buf \o rest, q, left \o rest)
      BY <1>10, <2>4, <2>6, KeepsTransitive
    <3>2. PICK s, u : s = buf \o rest /\ u = left \o rest
      OBVIOUS
    <3>3. OneRequest(f, parser, s, q, u) /\ Layout(asked, f, u)
      BY <2>3, <2>7, <3>1, <3>2 DEF Keeps
    <3>4. m0 = Len(s) /\ m0 \in Nat
      BY <1>1, <1>4, <1>5, <2>9, <3>2, ConcatProperties
    <3>5. Replied(asked, f, m0, answered, conn.state)
      BY <1>23, <2>2, <2>9 DEF Orderly
    <3>6. /\ asked \in Seq(Kinds) /\ answered \in Seq(AnswerType)
          /\ ParserOK(asked, p1) /\ ParserOK(asked, q)
      BY <1>1, <1>10, <1>12
    <3> QED
      BY ONLY <3>3, <3>4, <3>5, <3>6, f \in [0..Len(asked) -> Nat], <1>14, <2>8, <2>10, <2>11,
              OutcomeReplied
  <2> QED
    BY <2>5, <2>7, <2>9, <2>12, <2>13 DEF Orderly
<1>25. "cut" \notin tainted' =>
          \E f \in [0..Len(asked') -> Nat] :
              Orderly(asked', f, Coming', parser', answered', conn'.state)
  <2>1. ASSUME "cut" \notin tainted' PROVE Coming' = left \o rest
    BY <1>7, <1>13, <2>1 DEF Coming
  <2> QED
    BY <1>15, <1>24, <2>1
<1>26. tainted' = {} => Blamed(asked', parser', answered')
  <2>1. SUFFICES ASSUME tainted' = {} PROVE Blamed(asked, parser', answered')
    BY <1>15
  <2>2. tainted = {} /\ "cut" \notin tainted'
    BY <1>7, <2>1
  <2>3. Blamed(asked, parser, answered)
    BY <2>2 DEF HttpInv
  <2>4. \A rejected : Fault(parser, rejected) => Fault(p1, rejected)
    BY <1>24, <2>2
  <2> QED
    BY <1>1, <1>10, <1>12, <1>14, <2>3, <2>4, OutcomeBlamed
<1>27. Phase(parser, answered, conn.state)'
  BY <1>15, <1>22 DEF Phase, Complete, ContentLength, Response
<1>28. HttpInv'
  BY <1>16, <1>21, <1>25, <1>26, <1>27 DEF HttpInv
<1>29. ReadOutcome
  BY <1>10, <1>12, <1>14 DEF ReadOutcome
<1> QED
  BY <1>28, <1>29

\* The parts of a request of kind k, the n-th.
Parts(k, n) ==
    [i \in 1..(2 + k.body) |->
        [part |-> IF i = 1 THEN "begin" ELSE IF i = 2 THEN "end" ELSE "body",
         request |-> n, cut |-> "none"]]

\* The same, as ClientSend puts them together.
Whole(d, n) == [part |-> d, request |-> n, cut |-> "none"]
HeadParts(n) == <<Whole("begin", n), Whole("end", n)>>
BodyParts(k, n) == [i \in 1..k.body |-> Whole("body", n)]

LEMMA PartsForm ==
    ASSUME NEW S, NEW w \in Seq(S), NEW k \in Kinds, NEW n
    PROVE  (w \o HeadParts(n)) \o BodyParts(k, n) = w \o Parts(k, n)
<1>1. k.body \in Nat
  BY HttpAssumption DEF KindType
<1>2. PICK b : b = Whole("begin", n)
  OBVIOUS
<1>3. PICK c : c = Whole("end", n)
  OBVIOUS
<1>4. PICK d : d = Whole("body", n)
  OBVIOUS
<1>5. PICK m \in Nat : m = k.body
  BY <1>1
<1> DEFINE T == S \cup {b, c, d}
           u == <<b, c>>
           v == [i \in 1..m |-> d]
           q == Parts(k, n)
<1>6. u \in Seq(T) /\ Len(u) = 2 /\ u[1] = b /\ u[2] = c
  OBVIOUS
<1>7. v \in Seq(T) /\ Len(v) = m /\ \A i \in 1..m : v[i] = d
  OBVIOUS
<1>8. w \in Seq(T)
  OBVIOUS
<1>9. q = [i \in 1..(2 + m) |-> IF i = 1 THEN b ELSE IF i = 2 THEN c ELSE d]
  BY <1>5, <1>2, <1>3, <1>4 DEF Parts, Whole
<1>10. q \in Seq(T) /\ Len(q) = 2 + m
      /\ \A i \in 1..(2 + m) : q[i] = IF i = 1 THEN b ELSE IF i = 2 THEN c ELSE d
  BY <1>9
<1> HIDE DEF u, v, q, T
<1>11. (w \o u) \o v = w \o (u \o v)
  BY <1>6, <1>7, <1>8, ConcatAssociative
<1>12. u \o v = q
  <2>1. /\ u \o v \in Seq(T) /\ Len(u \o v) = Len(u) + Len(v)
        /\ \A i \in 1..(Len(u) + Len(v)) :
              (u \o v)[i] = IF i <= Len(u) THEN u[i] ELSE v[i - Len(u)]
    BY ONLY <1>6, <1>7, ConcatProperties
  <2>2. ASSUME NEW i \in 1..(2 + m) PROVE (u \o v)[i] = q[i]
    <3>1. (u \o v)[i] = IF i <= 2 THEN u[i] ELSE v[i - 2]
      BY <1>6, <1>7, <2>1
    <3>2. CASE i <= 2
      <4>1. i = 1 \/ i = 2
        BY <3>2
      <4> QED
        BY <1>6, <1>10, <3>1, <3>2, <4>1
    <3>3. CASE i > 2
      <4>1. i - 2 \in 1..m
        BY <3>3
      <4>2. (u \o v)[i] = v[i - 2]
        BY <3>1, <3>3
      <4> QED
        BY <1>7, <1>10, <3>3, <4>1, <4>2
    <3>4. i <= 2 \/ i > 2
      BY ONLY m \in Nat, i \in 1..(2 + m)
    <3> QED
      BY <3>2, <3>3, <3>4
  <2> QED
    BY <1>6, <1>7, <1>10, <2>1, <2>2, SeqEqual
<1> QED
  BY <1>5, <1>2, <1>3, <1>4, <1>11, <1>12 DEF u, v, q, HeadParts, BodyParts

\* The layout with another request of kind k behind it.
Further(ks, e, k) ==
    [r \in 0..(Len(ks) + 1) |-> IF r = Len(ks) + 1 THEN 0 ELSE e[r] + (2 + k.body)]

\* The kinds ks1 with k behind ks, and the layout e1 that goes with them.
IsFurther(ks, e, k, ks1, e1) ==
    /\ ks1 \in Seq(Kinds) /\ Len(ks1) = Len(ks) + 1 /\ Len(ks) \in Nat
    /\ k.body \in Nat
    /\ \A r \in 1..Len(ks) : ks1[r] = ks[r]
    /\ ks1[Len(ks) + 1] = k
    /\ e1 \in [0..Len(ks1) -> Nat]
    /\ \A r \in 0..Len(ks) : e1[r] = e[r] + (2 + k.body)
    /\ e1[Len(ks1)] = 0 /\ e1[Len(ks)] = 2 + k.body
    /\ \A r \in 1..Len(ks1) : e1[r - 1] = e1[r] + 2 + ks1[r].body
    /\ \A q, r \in 0..Len(ks1) : q < r => e1[r] < e1[q]

LEMMA FurtherOK ==
    ASSUME NEW ks \in Seq(Kinds), NEW k \in Kinds, NEW e \in [0..Len(ks) -> Nat],
           NEW S, NEW s \in Seq(S), Layout(ks, e, s), NEW ks1, ks1 = Append(ks, k),
           NEW e1, e1 = Further(ks, e, k)
    PROVE  IsFurther(ks, e, k, ks1, e1)
<1>1. /\ ks1 \in Seq(Kinds) /\ Len(ks1) = Len(ks) + 1 /\ Len(ks) \in Nat
      /\ \A r \in 1..Len(ks) : ks1[r] = ks[r]
      /\ ks1[Len(ks) + 1] = k
  OBVIOUS
<1>2. k.body \in Nat
  BY HttpAssumption DEF KindType
<1>3. PICK n \in Nat : n = Len(ks)
  BY <1>1
<1>4. PICK d \in Nat : d = 2 + k.body
  BY <1>2
<1>5. e1 = [r \in 0..(n + 1) |-> IF r = n + 1 THEN 0 ELSE e[r] + d]
  BY <1>3, <1>4 DEF Further
<1>6. \A r \in 0..n : e[r] \in Nat
  BY <1>3
<1>7. e1 \in [0..(n + 1) -> Nat] /\ e1[n + 1] = 0 /\ \A r \in 0..n : e1[r] = e[r] + d
  <2>1. \A r \in 0..(n + 1) : (IF r = n + 1 THEN 0 ELSE e[r] + d) \in Nat
    BY <1>6
  <2> QED
    BY <1>5, <2>1
<1>8. e[n] = 0 /\ e1[n] = d
  <2>1. e[n] = 0
    BY <1>3 DEF Layout
  <2>2. n \in 0..n
    OBVIOUS
  <2> QED
    BY <1>7, <2>1, <2>2
<1>9. ASSUME NEW r \in 1..(n + 1) PROVE e1[r - 1] = e1[r] + 2 + ks1[r].body
  <2>1. CASE r = n + 1
    <3>1. r - 1 = n /\ ks1[r] = k
      BY <1>1, <1>3, <2>1
    <3> QED
      BY <1>2, <1>4, <1>7, <1>8, <2>1, <3>1
  <2>2. CASE r \in 1..n
    <3>1. e[r - 1] = e[r] + 2 + ks[r].body /\ ks1[r] = ks[r] /\ ks[r].body \in Nat
      BY <1>1, <1>3, <2>2, KindFields DEF Layout
    <3>2. r - 1 \in 0..n /\ r \in 0..n
      BY <2>2
    <3>3. e1[r - 1] = e[r - 1] + d /\ e1[r] = e[r] + d /\ e[r] \in Nat /\ e[r - 1] \in Nat
      BY <1>6, <1>7, <3>2
    <3>4. PICK b \in Nat : b = ks[r].body
      BY <3>1
    <3>5. ks1[r].body = b /\ e[r - 1] = e[r] + 2 + b
      BY <3>1, <3>4
    <3>6. PICK x \in Nat, y \in Nat : x = e[r - 1] /\ y = e[r]
      BY <3>3
    <3>7. e1[r - 1] = x + d /\ e1[r] = y + d /\ x = y + 2 + b
      BY <3>3, <3>5, <3>6
    <3> QED
      BY <3>5, <3>7
  <2>3. r = n + 1 \/ r \in 1..n
    OBVIOUS
  <2> QED
    BY <2>1, <2>2, <2>3
<1>10. ASSUME NEW q \in 0..(n + 1), NEW r \in 0..(n + 1), q < r PROVE e1[r] < e1[q]
  <2>1. q \in 0..n /\ e1[q] = e[q] + d /\ e[q] \in Nat
    BY <1>6, <1>7, <1>10
  <2>2. CASE r = n + 1
    <3>1. d > 0
      BY <1>2, <1>4
    <3> QED
      BY <1>7, <2>1, <2>2, <3>1
  <2>3. CASE r \in 0..n
    <3>1. e[r] < e[q] /\ e1[r] = e[r] + d /\ e[r] \in Nat
      BY <1>3, <1>6, <1>7, <1>10, <2>1, <2>3 DEF Layout
    <3> QED
      BY <2>1, <3>1
  <2> QED
    BY <2>2, <2>3
<1>11. /\ e1 \in [0..Len(ks1) -> Nat]
       /\ \A r \in 0..Len(ks) : e1[r] = e[r] + (2 + k.body)
       /\ e1[Len(ks1)] = 0 /\ e1[Len(ks)] = 2 + k.body
  BY <1>1, <1>3, <1>4, <1>7, <1>8
<1>12. \A r \in 1..Len(ks1) : e1[r - 1] = e1[r] + 2 + ks1[r].body
  BY <1>1, <1>3, <1>9
<1>13. \A q, r \in 0..Len(ks1) : q < r => e1[r] < e1[q]
  BY <1>1, <1>3, <1>10
<1> QED
  BY <1>1, <1>2, <1>11, <1>12, <1>13 DEF IsFurther

\* The parts of a new request lie behind what is to come.
LEMMA FurtherLayout ==
    ASSUME NEW ks \in Seq(Kinds), NEW k \in Kinds, NEW e \in [0..Len(ks) -> Nat],
           NEW S, NEW s \in Seq(S), Layout(ks, e, s), NEW ks1, ks1 = Append(ks, k),
           NEW e1, e1 = Further(ks, e, k), NEW v, v = s \o Parts(k, Len(ks) + 1)
    PROVE  Layout(ks1, e1, v) /\ Len(v) = Len(s) + (2 + k.body) /\ Len(s) \in Nat
<1>1. IsFurther(ks, e, k, ks1, e1)
  BY FurtherOK
<1>2. /\ Len(ks1) = Len(ks) + 1 /\ k.body \in Nat /\ Len(ks) \in Nat
      /\ \A r \in 0..Len(ks) : e1[r] = e[r] + (2 + k.body)
      /\ e1[Len(ks1)] = 0 /\ e1[Len(ks)] = 2 + k.body
      /\ \A r \in 1..Len(ks1) : e1[r - 1] = e1[r] + 2 + ks1[r].body
      /\ \A q, r \in 0..Len(ks1) : q < r => e1[r] < e1[q]
  BY <1>1 DEF IsFurther
<1>3. PICK n \in Nat : n = Len(ks)
  BY <1>2
<1>4. PICK d \in Nat : d = 2 + k.body
  BY <1>2
<1>5. PICK l \in Nat : l = Len(s)
  OBVIOUS
<1> DEFINE Part(i) == [part |-> IF i = 1 THEN "begin" ELSE IF i = 2 THEN "end" ELSE "body",
                       request |-> n + 1, cut |-> "none"]
           T == S \cup {Part(i) : i \in 1..d}
           u == Parts(k, n + 1)
<1>6. u = [i \in 1..d |-> Part(i)]
  BY <1>4 DEF Parts
<1>7. \A i \in 1..d : Part(i) \in T
  OBVIOUS
<1>8. \A i \in 1..d :
         /\ Part(i).request = n + 1 /\ Part(i).cut = "none"
         /\ Part(i).part = IF i = 1 THEN "begin" ELSE IF i = 2 THEN "end" ELSE "body"
  OBVIOUS
<1>9. s \in Seq(T)
  OBVIOUS
<1> HIDE DEF Part, u, T
<1>10. v = s \o u
  BY <1>3 DEF u
<1>11. u \in Seq(T) /\ Len(u) = d /\ \A i \in 1..d : u[i] = Part(i)
  BY <1>6, <1>7
<1>12. /\ Len(v) = l + d
       /\ \A j \in 1..(l + d) : v[j] = IF j <= l THEN s[j] ELSE u[j - l]
  <2>1. /\ Len(s \o u) = Len(s) + Len(u)
        /\ \A j \in 1..(Len(s) + Len(u)) :
              (s \o u)[j] = IF j <= Len(s) THEN s[j] ELSE u[j - Len(s)]
    BY ONLY <1>9, <1>11, ConcatProperties
  <2> QED
    BY <1>5, <1>10, <1>11, <2>1
<1>13. ASSUME NEW j \in 1..(l + d)
       PROVE  LET r == v[j].request
                  b == Len(v) - j
              IN  /\ r \in 1..Len(ks1) /\ e1[r] <= b /\ b < e1[r - 1]
                  /\ v[j].part = IF b = e1[r - 1] - 1 THEN "begin"
                                 ELSE IF b = e1[r - 1] - 2 THEN "end" ELSE "body"
                  /\ v[j].cut = "none"
  <2>1. CASE j <= l
    <3>1. v[j] = s[j] /\ j \in 1..l
      BY <1>12, <2>1
    <3>2. PICK r : r = s[j].request
      OBVIOUS
    <3>3. PICK c \in Nat : c = l - j
      BY <3>1
    <3>4. /\ r \in 1..n /\ e[r] <= c /\ c < e[r - 1]
          /\ s[j].part = IF c = e[r - 1] - 1 THEN "begin"
                         ELSE IF c = e[r - 1] - 2 THEN "end" ELSE "body"
          /\ s[j].cut = "none"
      BY <1>3, <1>5, <3>1, <3>2, <3>3 DEF Layout
    <3>5. r \in 0..n /\ r - 1 \in 0..n /\ r \in 1..Len(ks1)
      BY <1>2, <1>3, <3>4
    <3>6. PICK x \in Nat, y \in Nat : x = e[r - 1] /\ y = e[r]
      BY <1>3, <3>5
    <3>7. e1[r] = y + d /\ e1[r - 1] = x + d
      BY <1>2, <1>3, <1>4, <3>5, <3>6
    <3>8. Len(v) - j = c + d
      BY <1>12, <3>1, <3>3
    <3>9. PICK b \in Nat : b = c + d
      OBVIOUS
    <3>10. y <= c /\ c < x
      BY <3>4, <3>6
    <3>11. /\ y + d <= b /\ b < x + d /\ (b = x + d - 1 <=> c = x - 1)
           /\ (b = x + d - 2 <=> c = x - 2)
      BY <3>9, <3>10
    <3>12. v[j].part = IF b = x + d - 1 THEN "begin" ELSE IF b = x + d - 2 THEN "end" ELSE "body"
      BY <3>1, <3>4, <3>6, <3>11
    <3>13. v[j].request = r /\ v[j].cut = "none" /\ Len(v) - j = b
      BY <3>1, <3>2, <3>4, <3>8, <3>9
    <3>14. /\ v[j].request \in 1..Len(ks1)
           /\ e1[v[j].request] = y + d /\ e1[v[j].request - 1] = x + d
      BY <3>5, <3>7, <3>13
    <3>15. e1[v[j].request] <= Len(v) - j /\ Len(v) - j < e1[v[j].request - 1]
      BY ONLY <3>11, <3>13, <3>14
    <3>16. v[j].part = IF Len(v) - j = e1[v[j].request - 1] - 1 THEN "begin"
                       ELSE IF Len(v) - j = e1[v[j].request - 1] - 2 THEN "end" ELSE "body"
      <4>1. PICK z \in Nat : z = x + d
        BY <1>4, <3>6
      <4>2. e1[v[j].request - 1] = z /\ Len(v) - j = b
        BY <3>13, <3>14, <4>1
      <4>3. x + d - 1 = z - 1 /\ x + d - 2 = z - 2
        BY ONLY x \in Nat, d \in Nat, z \in Nat, z = x + d
      <4>4. v[j].part = IF b = z - 1 THEN "begin" ELSE IF b = z - 2 THEN "end" ELSE "body"
        BY <3>12, <4>3
      <4> QED
        BY ONLY <4>2, <4>4
    <3> QED
      BY <3>13, <3>14, <3>15, <3>16
  <2>2. CASE j > l
    <3>1. PICK i \in 1..d : i = j - l
      BY <2>2
    <3>2. v[j] = Part(i)
      BY <1>12, <1>11, <2>2, <3>1
    <3>3. PICK b \in Nat : b = d - i
      BY <3>1
    <3>4. Len(v) - j = b
      <4>1. Len(v) = l + d
        BY <1>12
      <4>2. (l + d) - j = b
        BY <3>1, <3>3
      <4> QED
        BY <4>1, <4>2
    <3>5. e1[n + 1] = 0 /\ e1[n] = d /\ n + 1 \in 1..Len(ks1) /\ (n + 1) - 1 = n
      BY <1>2, <1>3, <1>4
    <3>6. 0 <= b /\ b < d /\ (b = d - 1 <=> i = 1) /\ (b = d - 2 <=> i = 2)
      BY <3>1, <3>3
    <3>7. /\ v[j].request = n + 1 /\ v[j].cut = "none"
          /\ v[j].part = IF i = 1 THEN "begin" ELSE IF i = 2 THEN "end" ELSE "body"
      <4>1. /\ Part(i).request = n + 1 /\ Part(i).cut = "none"
            /\ Part(i).part = IF i = 1 THEN "begin" ELSE IF i = 2 THEN "end" ELSE "body"
        BY <1>8
      <4> QED
        BY ONLY <3>2, <4>1
    <3>8. v[j].part = IF b = d - 1 THEN "begin" ELSE IF b = d - 2 THEN "end" ELSE "body"
      BY <3>6, <3>7
    <3> QED
      BY <3>4, <3>5, <3>6, <3>7, <3>8
  <2>3. j <= l \/ j > l
    OBVIOUS
  <2> QED
    BY <2>1, <2>2, <2>3
<1>14. Layout(ks1, e1, v)
  BY <1>2, <1>12, <1>13 DEF Layout
<1> QED
  BY <1>4, <1>5, <1>12, <1>14

\* The parser and the answers stand where they stood.
LEMMA FurtherPosition ==
    ASSUME NEW ks, NEW k, NEW e \in [0..Len(ks) -> Nat], NEW ks1, NEW e1,
           IsFurther(ks, e, k, ks1, e1), NEW p, p.body \in Nat, NEW n \in Nat,
           Position(ks, e, p, n)
    PROVE  Position(ks1, e1, p, n + (2 + k.body))
<1>1. /\ Len(ks1) = Len(ks) + 1 /\ Len(ks) \in Nat /\ k.body \in Nat
      /\ \A r \in 1..Len(ks) : ks1[r] = ks[r]
      /\ \A r \in 0..Len(ks) : e1[r] = e[r] + (2 + k.body)
  BY DEF IsFurther
<1>2. PICK d \in Nat : d = 2 + k.body
  BY <1>1
<1>3. CASE p.cs = "start"
  <2>1. PICK r \in 0..Len(ks) : n = e[r]
    BY <1>3 DEF Position
  <2>2. e1[r] = n + d /\ r \in 0..Len(ks1)
    BY <1>1, <1>2, <2>1
  <2>3. p.missed = {}
    BY DEF Position
  <2> QED
    BY <1>2, <1>3, <2>2, <2>3 DEF Position
<1>4. CASE p.cs # "start"
  <2>1. PICK q \in 1..Len(ks) : q = p.request
    BY <1>4 DEF Position
  <2>2. /\ q \in 1..Len(ks1) /\ ks1[q] = ks[q] /\ q - 1 \in 0..Len(ks)
        /\ e1[q - 1] = e[q - 1] + d
    <3>1. q \in 1..Len(ks1) /\ q - 1 \in 0..Len(ks)
      BY <1>1, <2>1
    <3>2. PICK i \in 0..Len(ks) : i = q - 1
      BY <3>1
    <3>3. e1[i] = e[i] + d
      BY <1>1, <1>2, <3>2
    <3> QED
      BY <1>1, <3>1, <3>2, <3>3
  <2>3. PICK x \in Nat : x = e[q - 1]
    BY <2>2
  <2>4. p.cs = "partial" => n = x - 1
    BY <2>1, <2>3 DEF Position
  <2>5. p.cs = "finished" => n = x - (2 + p.body) /\ ks[q].form # "malformed"
    BY <2>1, <2>3 DEF Position
  <2>6. p.cs = "partial" => n + d = (x + d) - 1
    BY ONLY <2>4, n \in Nat, d \in Nat, x \in Nat
  <2>7. p.cs = "finished" => n + d = (x + d) - (2 + p.body)
    <3>1. PICK z \in Nat : z = p.body
      OBVIOUS
    <3>2. n = x - (2 + z) => n + d = (x + d) - (2 + z)
      BY ONLY n \in Nat, d \in Nat, x \in Nat, z \in Nat
    <3> QED
      BY <2>5, <3>1, <3>2
  <2>8. /\ p.missed = {} /\ (p.cs = "error" => ks[q].form = "malformed")
        /\ p.cs \in {"partial", "finished"} /\ ~p.error => ks[q].form # "badMethod"
    BY <2>1 DEF Position
  <2>9. e1[p.request - 1] = x + d /\ p.request \in 1..Len(ks1) /\ ks1[p.request] = ks[q]
    BY <2>1, <2>2, <2>3
  <2>10. Position(ks1, e1, p, n + d)
    BY <1>4, <2>5, <2>6, <2>7, <2>8, <2>9 DEF Position
  <2> QED
    BY <1>2, <2>10
<1> QED
  BY <1>3, <1>4

LEMMA FurtherAnswers ==
    ASSUME NEW ks, NEW k, NEW e \in [0..Len(ks) -> Nat], NEW ks1, NEW e1,
           IsFurther(ks, e, k, ks1, e1), NEW p, NEW n \in Nat, NEW a, NEW st,
           Answers(ks, e, p, n, a, st)
    PROVE  Answers(ks1, e1, p, n + (2 + k.body), a, st)
<1>1. /\ Len(ks1) = Len(ks) + 1 /\ Len(ks) \in Nat /\ k.body \in Nat
      /\ \A r \in 1..Len(ks) : ks1[r] = ks[r]
      /\ \A r \in 0..Len(ks) : e1[r] = e[r] + (2 + k.body)
  BY DEF IsFurther
<1>2. PICK d \in Nat : d = 2 + k.body
  BY <1>1
<1>3. ASSUME NEW r \in 1..Len(ks), Settled(ks, e, p, n, r, st)
      PROVE  Settled(ks1, e1, p, n + d, r, st)
  <2>1. ks1[r] = ks[r] /\ e1[r] = e[r] + d /\ e[r] \in Nat
    BY <1>1, <1>2
  <2>2. PICK x \in Nat : x = e[r]
    BY <2>1
  <2>3. n <= x
    BY <1>3, <2>2 DEF Settled
  <2>4. n + d <= x + d
    BY ONLY <2>3, n \in Nat, d \in Nat, x \in Nat
  <2>5. n + d <= e1[r] /\ ks1[r].form = "ok"
    BY <1>3, <2>1, <2>2, <2>4 DEF Settled
  <2> QED
    BY <1>3, <2>5 DEF Settled
<1>4. \A r \in 1..Len(ks) : r \in 1..Len(ks1)
  BY <1>1
<1>5. Answers(ks1, e1, p, n + d, a, st)
  BY <1>3, <1>4 DEF Answers
<1> QED
  BY <1>2, <1>5

LEMMA FurtherReplied ==
    ASSUME NEW ks, NEW k, NEW e \in [0..Len(ks) -> Nat], NEW ks1, NEW e1,
           IsFurther(ks, e, k, ks1, e1), NEW n \in Nat, NEW a, NEW st, Replied(ks, e, n, a, st)
    PROVE  Replied(ks1, e1, n + (2 + k.body), a, st)
<1> SUFFICES ASSUME st \in {"kConnecting", "kConnected"}, NEW r \in 1..Len(ks1),
                    n + (2 + k.body) <= e1[r]
             PROVE  HasAnswer(a, r)
  BY DEF Replied
<1>1. /\ Len(ks1) = Len(ks) + 1 /\ Len(ks) \in Nat /\ k.body \in Nat
      /\ \A i \in 0..Len(ks) : e1[i] = e[i] + (2 + k.body)
      /\ e1[Len(ks1)] = 0
  BY DEF IsFurther
<1>2. PICK d \in Nat : d = 2 + k.body /\ d # 0
  BY <1>1
<1>3. r # Len(ks1)
  <2>1. ~(n + d <= 0)
    BY ONLY n \in Nat, d \in Nat, <1>2
  <2> QED
    BY <1>1, <1>2, <2>1
<1>4. r \in 1..Len(ks) /\ r \in 0..Len(ks)
  BY <1>1, <1>3
<1>5. PICK x \in Nat : x = e[r]
  BY <1>4
<1>6. n + d <= x + d
  BY <1>1, <1>2, <1>4, <1>5
<1>7. n <= x
  BY ONLY <1>6, n \in Nat, d \in Nat, x \in Nat
<1> QED
  BY <1>4, <1>5, <1>7 DEF Replied

LEMMA FurtherOrderly ==
    ASSUME NEW ks \in Seq(Kinds), NEW k \in Kinds, NEW e, NEW S, NEW s \in Seq(S),
           NEW p, p.body \in Nat, NEW a, NEW st, Orderly(ks, e, s, p, a, st)
    PROVE  Orderly(Append(ks, k), Further(ks, e, k), s \o Parts(k, Len(ks) + 1), p, a, st)
<1>1. PICK ks1 : ks1 = Append(ks, k)
  OBVIOUS
<1>2. PICK e1 : e1 = Further(ks, e, k)
  OBVIOUS
<1>3. PICK v : v = s \o Parts(k, Len(ks) + 1)
  OBVIOUS
<1>4. /\ e \in [0..Len(ks) -> Nat] /\ Layout(ks, e, s) /\ Position(ks, e, p, Len(s))
      /\ Answers(ks, e, p, Len(s), a, st) /\ Replied(ks, e, Len(s), a, st)
  BY DEF Orderly
<1>5. Layout(ks1, e1, v) /\ Len(v) = Len(s) + (2 + k.body) /\ Len(s) \in Nat
  <2>1. Layout(ks1, e1, v)
    BY <1>1, <1>2, <1>3, <1>4, FurtherLayout
  <2>2. Len(v) = Len(s) + (2 + k.body)
    BY <1>1, <1>2, <1>3, <1>4, FurtherLayout
  <2> QED
    BY <2>1, <2>2
<1>6. IsFurther(ks, e, k, ks1, e1)
  BY <1>1, <1>2, <1>4, FurtherOK
<1>7. Position(ks1, e1, p, Len(v))
  BY <1>4, <1>5, <1>6, FurtherPosition
<1>8. Answers(ks1, e1, p, Len(v), a, st)
  BY <1>4, <1>5, <1>6, FurtherAnswers
<1>9. e1 \in [0..Len(ks1) -> Nat]
  BY <1>6 DEF IsFurther
<1>10. Replied(ks1, e1, Len(v), a, st)
  BY <1>4, <1>5, <1>6, FurtherReplied
<1> QED
  BY <1>1, <1>2, <1>3, <1>5, <1>7, <1>8, <1>9, <1>10 DEF Orderly

\* Parts of requests sent are parts of requests sent when there is another one.
LEMMA MorePartsOf ==
    ASSUME NEW ks \in Seq(Kinds), NEW k \in Kinds, Len(ks) < MaxRequests
    PROVE  /\ PartOf(ks) \subseteq PartOf(Append(ks, k))
           /\ Parts(k, Len(ks) + 1) \in Seq(PartOf(Append(ks, k)))
<1>1. PICK ks1 : ks1 = Append(ks, k)
  OBVIOUS
<1>2. Len(ks1) = Len(ks) + 1 /\ Len(ks) \in Nat
  BY <1>1
<1>3. PartOf(ks) \subseteq PartOf(ks1)
  <2>1. ASSUME NEW t \in PartOf(ks) PROVE t \in PartOf(ks1)
    <3>1. t \in PartType /\ t.request \in Nat /\ t.request <= Len(ks)
      BY PartFields DEF PartOf
    <3>2. t.request <= Len(ks1)
      BY <1>2, <3>1
    <3> QED
      BY <3>1, <3>2 DEF PartOf
  <2> QED
    BY <2>1
<1>4. PICK d \in Nat : d = 2 + k.body
  BY HttpAssumption DEF KindType
<1>5. PICK n : n = Len(ks) + 1
  OBVIOUS
<1>6. n \in 1..MaxRequests /\ n <= Len(ks1)
  BY <1>2, <1>5, HttpAssumption
<1>7. ASSUME NEW i \in 1..d
      PROVE  [part |-> IF i = 1 THEN "begin" ELSE IF i = 2 THEN "end" ELSE "body",
              request |-> n, cut |-> "none"] \in PartOf(ks1)
  <2>1. PICK b \in DOMAIN Tokens :
           b = IF i = 1 THEN "begin" ELSE IF i = 2 THEN "end" ELSE "body"
    BY DEF Tokens
  <2>2. PICK t : t = [part |-> b, request |-> n, cut |-> "none"]
    OBVIOUS
  <2>3. t \in PartType /\ t.request = n /\ t.cut = "none"
    BY <1>6, <2>2 DEF PartType
  <2>4. t \in PartOf(ks1)
    BY <1>6, <2>3 DEF PartOf
  <2> QED
    BY <2>1, <2>2, <2>4
<1>8. Parts(k, n) = [i \in 1..d |->
                        [part |-> IF i = 1 THEN "begin" ELSE IF i = 2 THEN "end" ELSE "body",
                         request |-> n, cut |-> "none"]]
  BY <1>4 DEF Parts
<1> DEFINE Part(i) == [part |-> IF i = 1 THEN "begin" ELSE IF i = 2 THEN "end" ELSE "body",
                       request |-> n, cut |-> "none"]
<1>9. \A i \in 1..d : Part(i) \in PartOf(ks1)
  BY <1>7
<1>10. Parts(k, n) = [i \in 1..d |-> Part(i)]
  BY <1>8
<1> HIDE DEF Part
<1>11. Parts(k, n) \in Seq(PartOf(ks1))
  BY <1>9, <1>10
<1> QED
  BY <1>1, <1>3, <1>5, <1>11

\* Another request of the client.
LEMMA ClientSendStep ==
    ASSUME HttpInv, NEW k \in Kinds, ClientSend(k) PROVE HttpInv'
<1>1. /\ ConnInv /\ ServerOK /\ Phase(parser, answered, conn.state)
      /\ asked \in Seq(Kinds) /\ Len(asked) \in Nat /\ ParserOK(asked, parser)
      /\ wire \in Seq(PartOf(asked)) /\ inputBuffer \in Seq(PartOf(asked))
  BY DEF HttpInv, ServerOK
<1>2. /\ Len(asked) < MaxRequests /\ conn.state # "kConnecting"
      /\ asked' = Append(asked, k)
      /\ UNCHANGED <<conn, peer, received, handed, clients, inputBuffer, parser, answered, tainted>>
  BY DEF ClientSend
<1>3. PICK new : new = Parts(k, Len(asked) + 1)
  OBVIOUS
<1>4. wire' = wire \o new
  <2>1. PICK n : n = Len(asked) + 1
    OBVIOUS
  <2>2. wire' = (wire \o HeadParts(n)) \o BodyParts(k, n)
    BY <2>1 DEF ClientSend, HeadParts, BodyParts, Whole
  <2> QED
    BY <1>1, <1>3, <2>1, <2>2, PartsForm
<1>5. /\ Len(asked') = Len(asked) + 1 /\ asked' \in Seq(Kinds)
      /\ \A r \in 1..Len(asked) : asked'[r] = asked[r]
  BY <1>1, <1>2
<1>6. PartOf(asked) \subseteq PartOf(asked') /\ new \in Seq(PartOf(asked'))
  BY <1>1, <1>2, <1>3, MorePartsOf
<1>7. /\ wire \in Seq(PartOf(asked')) /\ inputBuffer' \in Seq(PartOf(asked'))
      /\ inputBuffer \in Seq(PartOf(asked'))
  BY <1>1, <1>2, <1>6
<1>8. wire' \in Seq(PartOf(asked'))
  BY <1>4, <1>6, <1>7, ConcatProperties
<1>9. Coming' = Coming \o new
  BY SMTT(15), <1>2, <1>4, <1>6, <1>7, ConcatAssociative DEF Coming
<1>10. parser.cs = "finished" =>
         parser.request \in 1..Len(asked) /\ asked'[parser.request] = asked[parser.request]
  BY <1>1, <1>5, HttpAssumption DEF ParserOK, ParserType
<1>11. ParserOK(asked', parser')
  <2>1. parser.request \in Nat /\ parser.request <= Len(asked')
    BY <1>1, <1>5, HttpAssumption DEF ParserOK, ParserType
  <2> QED
    BY <1>1, <1>2, <1>10, <2>1 DEF ParserOK
<1>12. ServerOK'
  <2>1. Len(asked') <= MaxRequests
    BY <1>1, <1>2, <1>5, HttpAssumption
  <2>2. /\ clients' \in 1..MaxClients /\ tainted' \subseteq Taints
        /\ answered' \in Seq([request : 0..MaxRequests, status : {"ok", "bad", "notFound"}])
    BY <1>1, <1>2 DEF ServerOK
  <2>3. asked' \in Seq(Kinds) /\ ParserOK(asked', parser')
    BY <1>5, <1>11
  <2> QED
    BY <1>7, <1>8, <2>1, <2>2, <2>3 DEF ServerOK
<1>13. /\ Complete(parser)' <=> Complete(parser)
       /\ Complete(parser) => (Response(parser).close)' = Response(parser).close
  BY <1>2, <1>10 DEF Complete, ContentLength, Response
<1>14. Phase(parser, answered, conn.state)'
  BY <1>1, <1>2, <1>13 DEF Phase
<1>15. ConnInv'
  BY <1>1, <1>2 DEF ConnInv
<1>16. ASSUME "cut" \notin tainted
       PROVE  /\ \E e \in [0..Len(asked') -> Nat] :
                    Orderly(asked', e, Coming', parser, answered, conn.state)
              /\ \A i \in 1..Len(answered) : answered[i].request \in 1..Len(asked)
  <2>1. PICK e \in [0..Len(asked) -> Nat] :
           Orderly(asked, e, Coming, parser, answered, conn.state)
    BY <1>16 DEF HttpInv
  <2>2. Coming \in Seq(PartOf(asked))
    BY <1>1, ConcatProperties DEF Coming
  <2>3. parser.body \in Nat
    BY <1>1 DEF ParserOK, ParserType
  <2>4. PICK f : f = Further(asked, e, k)
    OBVIOUS
  <2>5. Orderly(asked', f, Coming', parser, answered, conn.state)
    BY <1>1, <1>2, <1>3, <1>9, <2>1, <2>2, <2>3, <2>4, FurtherOrderly
  <2>6. f \in [0..Len(asked') -> Nat]
    BY <2>5 DEF Orderly
  <2>7. \A i \in 1..Len(answered) : answered[i].request \in 1..Len(asked)
    BY <2>1 DEF Orderly, Answers
  <2> QED
    BY <2>5, <2>6, <2>7
<1>17. tainted = {} => Blamed(asked', parser, answered)
  BY <1>5, <1>16 DEF HttpInv, Blamed
<1> QED
  BY <1>2, <1>12, <1>14, <1>15, <1>16, <1>17 DEF HttpInv

\* The object taken for the next client, and a fresh one: nothing is left but
\* what the parser remembers.
LEMMA NoRequests ==
    ASSUME NEW p, p.cs = "start", p.missed = {}, NEW st
    PROVE  /\ \E e \in [0..Len(<<>>) -> Nat] : Orderly(<<>>, e, <<>> \o <<>>, p, <<>>, st)
           /\ p.error \/ Blamed(<<>>, p, <<>>)
<1>1. PICK e : e = [r \in 0..0 |-> 0]
  OBVIOUS
<1>2. Len(<<>>) = 0 /\ <<>> \o <<>> = <<>>
  OBVIOUS
<1>3. e \in [0..0 -> Nat] /\ e[0] = 0 /\ 0 \in 0..0
  BY <1>1
<1>4. 1..0 = {} /\ \A q, r \in 0..0 : ~(q < r)
  OBVIOUS
<1>5. Layout(<<>>, e, <<>>)
  BY <1>2, <1>3, <1>4 DEF Layout
<1>6. Position(<<>>, e, p, 0)
  BY <1>2, <1>3 DEF Position
<1>7. Answers(<<>>, e, p, 0, <<>>, st)
  BY <1>2, <1>4 DEF Answers
<1>8. p.error \/ Blamed(<<>>, p, <<>>)
  BY <1>2, <1>4 DEF Blamed, HasError
<1> QED
  BY <1>2, <1>3, <1>5, <1>6, <1>7, <1>8 DEF Orderly

LEMMA ConnectResetStep ==
    ASSUME HttpInv, ConnectReset PROVE HttpInv'
<1>1. ServerOK /\ ParserOK(asked, parser) /\ parser \in ParserType /\ clients \in 1..MaxClients
  BY DEF HttpInv, ServerOK, ParserOK
<1>2. /\ clients < MaxClients /\ clients' = clients + 1
      /\ conn' = NewConnection /\ parser' = ParserReset(parser)
      /\ inputBuffer' = <<>> /\ answered' = <<>> /\ asked' = <<>> /\ wire' = <<>>
      /\ peer' = "open" /\ received' = <<>> /\ handed' = <<>>
      /\ tainted' = IF parser.error THEN {"inherited"} ELSE {}
  BY DEF ConnectReset
<1>3. ConnInv'
  <2>1. ConnInit'
    BY <1>2 DEF ConnInit
  <2>2. ConnInit' => ConnInv'
    BY InitConnInv, PTL
  <2> QED
    BY <2>1, <2>2
<1>4. PICK none : none = <<>>
  OBVIOUS
<1>5. none \in Seq(Kinds) /\ Len(none) = 0
  BY <1>4
<1>6. ParserOK(none, parser') /\ parser'.cs = "start" /\ parser'.missed = {}
  <2>1. asked \in Seq(Kinds)
    BY <1>1 DEF ServerOK
  <2>2. /\ parser' \in ParserType
        /\ parser'.cs = "start" /\ parser'.request = 0 /\ parser'.body = 0
        /\ parser'.missed = {}
    BY <1>1, <1>2, <2>1, ResetParser DEF ParserOK
  <2> QED
    BY <1>5, <2>2 DEF ParserOK
<1>7. parser'.error <=> parser.error
  <2>1. asked \in Seq(Kinds)
    BY <1>1 DEF ServerOK
  <2> QED
    BY <1>1, <1>2, <2>1, ResetParser
<1>8. ServerOK'
  <2>1. clients' \in 1..MaxClients
    BY <1>1, <1>2, HttpAssumption
  <2>2. <<>> \in Seq(PartOf(<<>>))
    OBVIOUS
  <2>3. <<>> \in Seq([request : 0..MaxRequests, status : {"ok", "bad", "notFound"}])
    OBVIOUS
  <2>4. tainted' \subseteq Taints
    BY <1>2 DEF Taints
  <2>5. Len(<<>>) <= MaxRequests
    BY HttpAssumption
  <2> QED
    BY <1>2, <1>4, <1>5, <1>6, <2>1, <2>2, <2>3, <2>4, <2>5 DEF ServerOK
<1>9. Phase(parser, answered, conn.state)'
  BY <1>2, <1>6 DEF Phase, Complete, Rejected, NewConnection
<1>10. \E e \in [0..Len(asked') -> Nat] :
          Orderly(asked', e, Coming', parser', answered', conn'.state)
  <2>1. \E e \in [0..Len(<<>>) -> Nat] :
           Orderly(<<>>, e, <<>> \o <<>>, parser', <<>>, conn'.state)
    BY ONLY <1>6, NoRequests
  <2> QED
    BY <1>2, <2>1 DEF Coming
<1>11. tainted' = {} => Blamed(asked', parser', answered')
  <2>1. parser'.error \/ Blamed(<<>>, parser', <<>>)
    BY ONLY <1>6, NoRequests
  <2>2. tainted' = {} => ~parser.error
    BY <1>2
  <2> QED
    BY <1>2, <1>7, <2>1, <2>2
<1> QED
  BY <1>3, <1>8, <1>9, <1>10, <1>11 DEF HttpInv

LEMMA HttpInitInv == HttpInit => HttpInv
<1> SUFFICES ASSUME HttpInit PROVE HttpInv
  OBVIOUS
<1>1. /\ ConnInit /\ clients = 1 /\ asked = <<>> /\ wire = <<>> /\ inputBuffer = <<>>
      /\ parser = [cs |-> "start", error |-> FALSE, request |-> 0, missed |-> {}, body |-> 0]
      /\ answered = <<>> /\ tainted = {}
  BY DEF HttpInit
<1>2. ConnInv
  BY <1>1, InitConnInv
<1>3. /\ parser.cs = "start" /\ parser.request = 0 /\ parser.missed = {} /\ parser.body = 0
      /\ parser.error = FALSE /\ parser \in ParserType
  <2>1. 0 \in 0..MaxRequests
    BY HttpAssumption
  <2> QED
    BY <1>1, <2>1 DEF ParserType
<1>4. PICK none : none = <<>>
  OBVIOUS
<1>5. none \in Seq(Kinds) /\ Len(none) = 0
  BY <1>4
<1>6. ParserOK(none, parser)
  BY <1>3, <1>5 DEF ParserOK
<1>7. ServerOK
  <2>1. clients \in 1..MaxClients
    BY <1>1, HttpAssumption
  <2>2. <<>> \in Seq(PartOf(<<>>))
    OBVIOUS
  <2>3. <<>> \in Seq([request : 0..MaxRequests, status : {"ok", "bad", "notFound"}])
    OBVIOUS
  <2>4. Len(<<>>) <= MaxRequests
    BY HttpAssumption
  <2> QED
    BY <1>1, <1>4, <1>5, <1>6, <2>1, <2>2, <2>3, <2>4 DEF ServerOK
<1>8. Phase(parser, answered, conn.state)
  BY <1>1, <1>3 DEF Phase, Complete, Rejected, ConnInit, NewConnection
<1>9. \E e \in [0..Len(asked) -> Nat] :
         Orderly(asked, e, Coming, parser, answered, conn.state)
  <2>1. \E e \in [0..Len(<<>>) -> Nat] :
           Orderly(<<>>, e, <<>> \o <<>>, parser, <<>>, conn.state)
    BY ONLY <1>3, NoRequests
  <2> QED
    BY <1>1, <2>1 DEF Coming
<1>10. Blamed(asked, parser, answered)
  <2>1. parser.error \/ Blamed(<<>>, parser, <<>>)
    BY ONLY <1>3, NoRequests
  <2> QED
    BY <1>1, <1>3, <2>1
<1> QED
  BY <1>2, <1>7, <1>8, <1>9, <1>10 DEF HttpInv

-----------------------------------------------------------------------------
(* The steps of the connection, which leave the server alone.               *)

\* What they may do to the state of the connection.
StateStep(st, st1) ==
    /\ st1 = "kConnected" => st \in {"kConnected", "kConnecting"}
    /\ st1 = "kConnecting" => st = "kConnecting"
    /\ st1 = "kDisconnecting" => st = "kDisconnecting"

LEMMA HandleWriteState ==
    ASSUME NEW c \in ConnType PROVE HandleWrite(c).state = c.state
BY DEF HandleWrite, Drained, ShutdownInLoop, SentFile, Strain, SendFileReset,
       QueueWriteComplete, Queue, ConnType

\* The server's invariant depends on the connection by its state only.
LEMMA ServerKept ==
    ASSUME HttpInv, UNCHANGED serverVars, ConnInv', StateStep(conn.state, conn'.state)
    PROVE  HttpInv'
<1>1. /\ ServerOK /\ Phase(parser, answered, conn.state)
      /\ UNCHANGED <<clients, asked, wire, inputBuffer, parser, answered, tainted>>
  BY DEF HttpInv, serverVars
<1>2. ServerOK'
  BY <1>1 DEF ServerOK, ParserOK, PartOf
<1>3. conn.state = "kConnecting" => answered = <<>> /\ parser.cs = "start"
  BY <1>1 DEF Phase
<1>4. conn.state = "kConnecting" => ~Rejected(answered) /\ ~Complete(parser)
  <2>1. \A i \in 1..Len(<<>>) : FALSE
    OBVIOUS
  <2> QED
    BY <1>3, <2>1 DEF Rejected, Complete
<1>5. Phase(parser, answered, conn.state)'
  <2>1. /\ Complete(parser)' <=> Complete(parser)
        /\ (Response(parser).close)' = Response(parser).close
    BY <1>1 DEF Complete, ContentLength, Response
  <2> QED
    BY <1>1, <1>3, <1>4, <2>1 DEF Phase, StateStep
<1>6. ASSUME "cut" \notin tainted'
      PROVE  \E e \in [0..Len(asked') -> Nat] :
                Orderly(asked', e, Coming', parser', answered', conn'.state)
  <2>1. PICK e \in [0..Len(asked) -> Nat] :
           Orderly(asked, e, Coming, parser, answered, conn.state)
    BY <1>1, <1>6 DEF HttpInv
  <2>2. Answers(asked, e, parser, Len(Coming), answered, conn'.state)
    <3>1. CASE conn.state = "kConnecting"
      <4>1. Len(answered) = 0 /\ 1..0 = {}
        BY <1>3, <3>1
      <4> QED
        BY <4>1 DEF Answers
    <3>2. CASE conn.state # "kConnecting"
      <4>1. conn.state # "kConnected" => conn'.state # "kConnected"
        BY <3>2 DEF StateStep
      <4> QED
        BY <2>1, <4>1 DEF Orderly, Answers, Settled
    <3> QED
      BY <3>1, <3>2
  <2>3. Coming' = Coming
    BY <1>1 DEF Coming
  <2>4. Replied(asked, e, Len(Coming), answered, conn'.state)
    BY <2>1 DEF Orderly, Replied, StateStep
  <2> QED
    BY <1>1, <2>1, <2>2, <2>3, <2>4 DEF Orderly
<1>7. tainted' = {} => Blamed(asked', parser', answered')
  BY <1>1 DEF HttpInv
<1> QED
  BY <1>2, <1>5, <1>6, <1>7 DEF HttpInv

LEMMA ConnectionStep ==
    ASSUME HttpInv, UNCHANGED serverVars,
           \/ ConnectEstablished \/ EventClose \/ EventWrite
           \/ Deliver \/ PeerFin \/ PeerReset
    PROVE  HttpInv' /\ StateStep(conn.state, conn'.state)
<1>1. ConnInv /\ conn \in ConnType
  BY DEF HttpInv, ConnInv, Good, ConnOK
<1>2. CASE ConnectEstablished
  <2>1. ConnInv'
    BY <1>1, <1>2, ConnectEstablishedStep DEF ConnKept
  <2>2. conn.state = "kConnecting" /\ conn'.state = "kConnected"
    BY <1>1, <1>2 DEF ConnectEstablished, ConnType
  <2> QED
    BY <2>1, <2>2, ServerKept DEF StateStep
<1>3. CASE EventClose
  <2>1. ConnInv'
    BY <1>1, <1>3, EventCloseStep DEF ConnKept, EventClose
  <2>2. conn'.state = "kDisconnected"
    BY <1>1, <1>3 DEF EventClose, EventRead, HandleClose, ConnType
  <2> QED
    BY <2>1, <2>2, ServerKept DEF StateStep
<1>4. CASE EventWrite
  <2>1. ConnInv'
    BY <1>1, <1>4, EventWriteStep DEF ConnKept
  <2>2. conn'.state = conn.state
    BY <1>1, <1>4, HandleWriteState DEF EventWrite
  <2> QED
    BY <2>1, <2>2, ServerKept DEF StateStep
<1>5. CASE Deliver
  <2>1. ConnInv'
    BY <1>1, <1>5, DeliverStep DEF ConnKept
  <2>2. conn'.state = conn.state
    BY <1>1, <1>5 DEF Deliver, ConnType
  <2> QED
    BY <2>1, <2>2, ServerKept DEF StateStep
<1>6. CASE PeerFin
  <2>1. ConnInv'
    BY <1>1, <1>6, PeerFinStep DEF ConnKept
  <2>2. conn'.state = conn.state
    BY <1>6 DEF PeerFin
  <2> QED
    BY <2>1, <2>2, ServerKept DEF StateStep
<1>7. CASE PeerReset
  <2>1. ConnInv'
    BY <1>1, <1>7, PeerResetStep DEF ConnKept
  <2>2. conn'.state = conn.state
    BY <1>1, <1>7 DEF PeerReset, ConnType
  <2> QED
    BY <2>1, <2>2, ServerKept DEF StateStep
<1> QED
  BY <1>2, <1>3, <1>4, <1>5, <1>6, <1>7

LEMMA HttpStepKept == HttpInv /\ [HttpNext]_httpVars => HttpInv'
<1> SUFFICES ASSUME HttpInv, [HttpNext]_httpVars PROVE HttpInv'
  OBVIOUS
<1>1. CASE HandleRead
  BY <1>1, HandleReadStep
<1>2. CASE ConnectReset
  BY <1>2, ConnectResetStep
<1>3. CASE \E k \in Kinds : ClientSend(k)
  BY <1>3, ClientSendStep
<1>4. CASE /\ UNCHANGED serverVars
           /\ \/ ConnectEstablished \/ EventClose \/ EventWrite
              \/ Deliver \/ PeerFin \/ PeerReset
  BY <1>4, ConnectionStep
<1>5. CASE UNCHANGED httpVars
  <2>1. ConnInv /\ UNCHANGED serverVars /\ UNCHANGED connVars
    BY <1>5 DEF HttpInv, httpVars
  <2>2. ConnInv'
    BY <2>1, StutterStep DEF ConnKept
  <2>3. conn'.state = conn.state
    BY <2>1 DEF connVars
  <2> QED
    BY <2>1, <2>2, <2>3, ServerKept DEF StateStep
<1> QED
  BY <1>1, <1>2, <1>3, <1>4, <1>5 DEF HttpNext, HttpLoopStep

LEMMA HttpInvariance == HttpSpec => []HttpInv
<1>1. HttpInit => HttpInv
  BY HttpInitInv
<1>2. HttpInv /\ [HttpNext]_httpVars => HttpInv'
  BY HttpStepKept
<1> QED
  BY <1>1, <1>2, PTL DEF HttpSpec

-----------------------------------------------------------------------------
(* The theorems.                                                            *)

LEMMA HttpTyped == HttpInv => HttpTypeOK
<1> SUFFICES ASSUME HttpInv PROVE HttpTypeOK
  OBVIOUS
<1>1. ServerOK /\ ConnTypeOK
  BY ConnTyped DEF HttpInv
<1>2. PartOf(asked) \subseteq PartType
  BY DEF PartOf
<1>3. wire \in Seq(PartType) /\ inputBuffer \in Seq(PartType)
  BY <1>1, <1>2 DEF ServerOK
<1>4. /\ parser \in ParserType /\ parser.request <= Len(asked)
      /\ parser.cs = "start" => parser.request = 0 /\ parser.body = 0 /\ parser.missed = {}
  BY <1>1 DEF ServerOK, ParserOK
<1> QED
  BY <1>1, <1>3, <1>4 DEF HttpTypeOK, ServerOK

\* What has been answered is behind what is still to come.
LEMMA NothingLeft ==
    ASSUME NEW ks, NEW e, NEW S, NEW s \in Seq(S), NEW p, NEW a, NEW st,
           Orderly(ks, e, s, p, a, st),
           NEW i \in 1..Len(a), a[i].status = "ok", NEW j \in 1..Len(s)
    PROVE  s[j].request # a[i].request
<1> SUFFICES ASSUME s[j].request = a[i].request PROVE FALSE
  OBVIOUS
<1>1. PICK r : r = s[j].request
  OBVIOUS
<1>2. e \in [0..Len(ks) -> Nat] /\ r \in 1..Len(ks) /\ e[r] <= Len(s) - j
  BY <1>1 DEF Orderly, Layout
<1>3. Len(s) <= e[r]
  BY <1>1 DEF Orderly, Answers, Settled
<1>4. e[r] \in Nat
  BY <1>2
<1>5. Len(s) \in Nat /\ j \in Nat /\ j >= 1
  OBVIOUS
<1> QED
  BY ONLY <1>2, <1>3, <1>4, <1>5

\* And what is behind what is still to come is not in it any more.
LEMMA StillComing ==
    ASSUME NEW ks \in Seq(Kinds), NEW e \in [0..Len(ks) -> Nat], NEW S, NEW s \in Seq(S),
           Layout(ks, e, s), NEW r \in 1..Len(ks), e[r] < Len(s)
    PROVE  \E j \in 1..Len(s) : s[j].request = r
<1>1. PICK n \in Nat, b \in Nat, l \in Nat : n = Len(s) /\ b = e[r] /\ l = Len(ks)
  OBVIOUS
<1>2. PICK j \in 1..n : n - j = b
  <2>1. n - b \in 1..n /\ n - (n - b) = b
    BY ONLY n \in Nat, b \in Nat, b < n, <1>1, e[r] < Len(s)
  <2> QED
    BY <2>1
<1>3. PICK q \in 1..l : q = s[j].request
  BY <1>1, <1>2 DEF Layout
<1>4. q - 1 \in 0..l /\ q \in 0..l /\ r \in 0..l /\ r \in 1..l
  BY <1>1
<1>5. e[q] <= b /\ b < e[q - 1]
  BY <1>1, <1>2, <1>3 DEF Layout
<1>6. e[q] \in Nat /\ e[q - 1] \in Nat
  BY <1>1, <1>4
<1>7. ~(q < r)
  <2>1. q < r => b < e[q]
    BY <1>1, <1>4 DEF Layout
  <2> QED
    BY <1>5, <1>6, <2>1
<1>8. ~(r < q)
  <2>1. r < q - 1 => e[q - 1] < b
    BY <1>1, <1>4 DEF Layout
  <2>2. r # q - 1
    BY <1>1, <1>5, <1>6
  <2>3. ~(r < q - 1)
    BY <1>5, <1>6, <2>1
  <2> QED
    BY ONLY <2>2, <2>3, q \in 1..l, r \in 1..l, l \in Nat
<1>9. q = r
  BY ONLY <1>7, <1>8, <1>4, q \in 1..l, l \in Nat
<1> QED
  BY <1>1, <1>2, <1>3, <1>9

LEMMA AnswersFollow == HttpInv => AnswersInOrder /\ AnswerAfterBody
<1> SUFFICES ASSUME HttpInv, "cut" \notin tainted
             PROVE  /\ \A i \in 1..Len(answered) : answered[i].request \in 1..Len(asked)
                    /\ \A i, j \in 1..Len(answered) :
                          i < j /\ answered[i].status # "bad" =>
                              answered[i].request < answered[j].request
                    /\ \A i \in 1..Len(answered) :
                          answered[i].status = "ok" => Consumed(answered[i].request)
                    /\ conn.state = "kConnected" =>
                          \A r \in 1..Len(asked) : Consumed(r) => HasAnswer(answered, r)
  BY DEF AnswersInOrder, AnswerAfterBody, HasAnswer
<1>1. PICK e : Orderly(asked, e, Coming, parser, answered, conn.state)
  BY DEF HttpInv
<1>2. \A i \in 1..Len(answered) :
         /\ answered[i].request \in 1..Len(asked)
         /\ answered[i].status \in {"ok", "bad"}
         /\ answered[i].status = "ok" =>
               \A j \in (i + 1)..Len(answered) : answered[i].request < answered[j].request
  BY <1>1 DEF Orderly, Answers
<1>3. ASSUME NEW i \in 1..Len(answered), NEW j \in 1..Len(answered),
             i < j, answered[i].status # "bad"
      PROVE  answered[i].request < answered[j].request
  <2>1. j \in (i + 1)..Len(answered)
    BY <1>3
  <2> QED
    BY <1>2, <1>3, <2>1
<1>4. Coming \in Seq(PartOf(asked))
  BY ConcatProperties DEF HttpInv, ServerOK, Coming
<1>5. \A i \in 1..Len(answered) :
         answered[i].status = "ok" => Consumed(answered[i].request)
  <2>1. \A i \in 1..Len(answered) :
           answered[i].status = "ok" =>
               \A j \in 1..Len(Coming) : Coming[j].request # answered[i].request
    BY <1>1, <1>4, NothingLeft
  <2> QED
    BY <2>1 DEF Consumed, Coming
<1>6. ASSUME conn.state = "kConnected", NEW r \in 1..Len(asked), Consumed(r)
      PROVE  HasAnswer(answered, r)
  <2>1. asked \in Seq(Kinds) /\ e \in [0..Len(asked) -> Nat] /\ Layout(asked, e, Coming)
    BY <1>1 DEF HttpInv, ServerOK, Orderly
  <2>2. ~(e[r] < Len(Coming))
    <3>1. \A j \in 1..Len(Coming) : Coming[j].request # r
      BY <1>6 DEF Consumed, Coming
    <3> QED
      <4>1. PICK s \in Seq(PartOf(asked)) : s = Coming
        BY ONLY <1>4
      <4> QED
        BY ONLY SMTT(20), <4>1, <2>1, <3>1, r \in 1..Len(asked), StillComing
  <2>3. e[r] \in Nat /\ Len(Coming) \in Nat
    BY <1>4, <2>1
  <2>4. Len(Coming) <= e[r]
    BY <2>2, <2>3
  <2> QED
    BY <1>1, <1>6, <2>4 DEF Orderly, Replied
<1> QED
  BY <1>2, <1>3, <1>5, <1>6

LEMMA DeservedFollows == HttpInv => RightAnswer
<1> SUFFICES ASSUME HttpInv, tainted = {} PROVE Deserved
  BY DEF RightAnswer
<1>1. PICK e : Orderly(asked, e, Coming, parser, answered, conn.state)
  BY DEF HttpInv
<1>2. \A i \in 1..Len(answered) :
         /\ answered[i].status \in {"ok", "bad"}
         /\ answered[i].status = "ok" => asked[answered[i].request].form = "ok"
  BY <1>1 DEF Orderly, Answers, Settled
<1>3. Blamed(asked, parser, answered)
  BY DEF HttpInv
<1> QED
  BY <1>2, <1>3 DEF Deserved, Blamed

-----------------------------------------------------------------------------
(* The end of a connection.                                                 *)

\* The connection is not up when it is to be closed.
Closed(ks, a, st) ==
    st \in {"kConnecting", "kConnected"} =>
        \A i \in 1..Len(a) :
            a[i].request \in 1..Len(ks) /\ a[i].status = "ok" /\ ~ks[a[i].request].close

\* forceClose is not called: a shutdown leads to a FIN.
Ending == Underway(conn) /\ ~Forced(conn) /\ Closed(asked, answered, conn.state)

LEMMA ReadClosed ==
    ASSUME asked \in Seq(Kinds), answered \in Seq(AnswerType), ReadOutcome,
           Closed(asked, answered, conn.state)
    PROVE  Closed(asked, answered', conn'.state)
<1>1. PICK p1, q : /\ ParserOK(asked, p1) /\ ParserOK(asked, q)
                   /\ Outcome(parser, p1, q, parser', answered, answered',
                              conn.state, conn'.state, conn.fin)
  BY DEF ReadOutcome
<1> SUFFICES ASSUME conn'.state \in {"kConnecting", "kConnected"}
             PROVE  \A i \in 1..Len(answered') :
                       /\ answered'[i].request \in 1..Len(asked)
                       /\ answered'[i].status = "ok"
                       /\ ~asked[answered'[i].request].close
  BY DEF Closed
<1>2. ~HasError(p1) /\ ~(Complete(q) /\ Response(q).close) /\ conn.state = "kConnected"
  BY <1>1 DEF Outcome
<1>3. \A i \in 1..Len(answered) :
         /\ answered[i].request \in 1..Len(asked)
         /\ answered[i].status = "ok"
         /\ ~asked[answered[i].request].close
  BY <1>2 DEF Closed
<1>4. Added(p1, q, answered, answered', conn.state, conn.fin)
  BY <1>1, OutcomeAnswer
<1>5. CASE answered' = answered
  BY <1>3, <1>5
<1>6. CASE answered' # answered
  <2>1. PICK x \in AnswerType :
           /\ answered' = Append(answered, x) /\ x.request = p1.request
           /\ Complete(q)
           /\ x.status = IF "path" \in q.missed THEN "notFound" ELSE "ok"
    BY <1>2, <1>4, <1>6 DEF Added
  <2>2. q.cs = "finished" /\ q.request = p1.request
    BY <1>1, <2>1 DEF Complete, Outcome
  <2>3. q.request \in 1..Len(asked)
    BY <1>1, <2>2, HttpAssumption DEF ParserOK, ParserType
  <2>4. ~Response(q).close
    BY <1>2, <2>1
  <2>5. "path" \notin q.missed /\ ~asked[q.request].close
    BY <2>4 DEF Response
  <2>6. \A i \in 1..Len(answered') :
           answered'[i] = IF i = Len(answered) + 1 THEN x ELSE answered[i]
    BY <2>1
  <2>7. \A i \in 1..Len(answered') : i = Len(answered) + 1 \/ i \in 1..Len(answered)
    BY <2>1
  <2> QED
    BY <1>3, <2>1, <2>2, <2>3, <2>5, <2>6, <2>7
<1> QED
  BY <1>5, <1>6

\* What onMessage and the calls it makes keep.
Ends(c) == Shape(c) /\ Underway(c) /\ ~Forced(c)

LEMMA AfterEnds ==
    ASSUME NEW c, NEW r, Ends(c), After(c, r) PROVE Ends(r)
BY AfterUnderway DEF After, Ends

LEMMA ShutdownEnds ==
    ASSUME NEW c, Ends(c) PROVE Ends(Shutdown(c))
BY ShutdownUnderway DEF Ends

LEMMA SendEnds ==
    ASSUME NEW c, Ends(c), NEW data
    PROVE  Ends(SendInLoop(c, data)) /\ Ends(SendBuffer(c, data))
<1>1. Ends(SendInLoop(c, data))
  BY SendInLoopAfter, AfterEnds DEF Ends
<1> QED
  BY <1>1 DEF SendBuffer

LEMMA OnRequestEnds ==
    ASSUME NEW x, {"c", "h", "a"} \subseteq DOMAIN x, Ends(x.c)
    PROVE  Ends(EndRequest(Respond(x)).c)
<1> DEFINE response == Response(x.p)
           bytes    == NextBytes(x.h, HeaderLength + response.file)
<1>1. PICK c1 : c1 = ResponseFile(x.c, response, Rest(bytes, HeaderLength))
  OBVIOUS
<1>2. PICK c2 : c2 = SendBuffer(c1, First(bytes, HeaderLength))
  OBVIOUS
<1>3. Ends(c1)
  <2>1. ASSUME NEW b PROVE Ends(SetSendFile(x.c, b)) /\ Ends(SetLostFile(x.c, b))
    <3>1. After(x.c, SetSendFile(x.c, b)) /\ After(x.c, SetLostFile(x.c, b))
      BY PartsAfter DEF Ends
    <3> QED
      BY <3>1, AfterEnds
  <2> QED
    BY <1>1, <2>1 DEF ResponseFile
<1>4. Ends(c2)
  BY <1>2, <1>3, SendEnds
<1>5. Ends(Shutdown(c2)) /\ Ends(SendFileReset(c2))
  BY <1>4, ShutdownEnds, PartsAfter, AfterEnds DEF Ends
<1>6. PICK s : s = Respond(x)
  OBVIOUS
<1>7. s.c = c2 /\ {"c"} \subseteq DOMAIN s
  BY <1>1, <1>2, <1>6 DEF Respond
<1>8. EndRequest(s).c \in {Shutdown(c2), SendFileReset(c2), c2}
  BY <1>7 DEF EndRequest
<1> QED
  BY <1>4, <1>5, <1>6, <1>8

\* A read leaves a FIN, or EPOLLOUT, behind a shutdown.
LEMMA ReadEnds ==
    ASSUME Ends(conn), HandleRead PROVE Ends(conn')
<1>1. PICK e : OnMessage(e)
  BY DEF HandleRead
<1> DEFINE x == [c |-> conn, p |-> e.p, h |-> handed, a |-> answered]
<1>2. PICK y : y = IF HasError(e.p) THEN Reject(x) ELSE x
  OBVIOUS
<1>3. PICK z : z = [y EXCEPT !.p.body = @ + BodyRead(e)]
  OBVIOUS
<1>s. PICK s : s = IF Complete(z.p) THEN Respond(z) ELSE z
  OBVIOUS
<1>4. PICK r : r = IF Complete(z.p) THEN EndRequest(s) ELSE s
  OBVIOUS
<1>5. conn' = r.c
  BY <1>1, <1>2, <1>3, <1>s, <1>4 DEF OnMessage
<1>6. Ends(y.c) /\ {"c", "p", "h", "a"} \subseteq DOMAIN y
  <2>1. x.c = conn /\ {"c", "p", "h", "a"} \subseteq DOMAIN x
    OBVIOUS
  <2>2. /\ Reject(x).c = Shutdown(SendInLoop(conn, NextBytes(handed, 1)))
        /\ {"c", "p", "h", "a"} \subseteq DOMAIN Reject(x)
    BY DEF Reject
  <2>3. Ends(Shutdown(SendInLoop(conn, NextBytes(handed, 1))))
    BY SendEnds, ShutdownEnds
  <2> HIDE DEF x
  <2> QED
    BY <1>2, <2>1, <2>2, <2>3
<1>7. z.c = y.c /\ {"c", "h", "a"} \subseteq DOMAIN z
  BY <1>3, <1>6
<1> QED
  BY <1>s, <1>4, <1>5, <1>6, <1>7, OnRequestEnds

LEMMA EndingKept ==
    ASSUME HttpInv, Ending, [HttpNext]_httpVars PROVE Ending'
<1>1. Shape(conn) /\ asked \in Seq(Kinds) /\ answered \in Seq(AnswerType)
  BY ConnectionShape DEF HttpInv, ServerOK, AnswerType
<1>2. CASE HandleRead
  <2>1. ReadOutcome
    BY <1>2, HandleReadStep
  <2>2. asked' = asked
    BY <1>2 DEF HandleRead
  <2> QED
    BY <1>1, <1>2, <2>1, <2>2, ReadEnds, ReadClosed DEF Ending, Ends
<1>3. CASE ConnectReset
  <2>1. conn' = NewConnection /\ answered' = <<>>
    BY <1>3 DEF ConnectReset
  <2>2. Len(<<>>) = 0 /\ 1..0 = {}
    OBVIOUS
  <2> QED
    BY <2>1, <2>2 DEF Ending, NewConnection, Underway, Forced, Closed
<1>4. ASSUME NEW k \in Kinds, ClientSend(k) PROVE Ending'
  <2>1. conn' = conn /\ answered' = answered /\ asked' = Append(asked, k)
    BY <1>4 DEF ClientSend
  <2>2. Len(asked') = Len(asked) + 1 /\ \A i \in 1..Len(asked) : asked'[i] = asked[i]
    BY <1>1, <2>1
  <2>3. \A i \in 1..Len(asked) : i \in 1..Len(asked')
    BY <1>1, <2>2
  <2> QED
    BY <2>1, <2>2, <2>3 DEF Ending, Closed
<1>5. CASE /\ UNCHANGED serverVars
           /\ \/ ConnectEstablished \/ EventClose \/ EventWrite
              \/ Deliver \/ PeerFin \/ PeerReset
  <2>1. Underway(conn') /\ ~Forced(conn')
    BY <1>1, <1>5, ConnectionUnderway DEF Ending, EventClose
  <2>2. asked' = asked /\ answered' = answered
    BY <1>5 DEF serverVars
  <2>3. StateStep(conn.state, conn'.state)
    BY <1>5, ConnectionStep
  <2> QED
    BY <2>1, <2>2, <2>3 DEF Ending, Closed, StateStep
<1>6. CASE UNCHANGED httpVars
  BY <1>6 DEF Ending, Underway, Forced, Closed, httpVars, connVars, serverVars
<1> QED
  BY <1>2, <1>3, <1>4, <1>5, <1>6 DEF HttpNext, HttpLoopStep

LEMMA EndingInvariance == HttpSpec => []Ending
<1>1. HttpInit => Ending
  <2>1. Len(<<>>) = 0 /\ 1..0 = {}
    OBVIOUS
  <2> QED
    BY <2>1 DEF HttpInit, ConnInit, NewConnection, Ending, Underway, Forced, Closed
<1>2. HttpInv /\ Ending /\ [HttpNext]_httpVars => Ending'
  BY EndingKept
<1> QED
  BY HttpInvariance, <1>1, <1>2, PTL DEF HttpSpec

\* A connection that is to be closed is, or its FIN has been sent, or handleWrite
\* is to send it.
CloseUnderway ==
    ClosingAnswer =>
        /\ conn.state \in {"kDisconnecting", "kDisconnected"}
        /\ conn.state = "kDisconnecting" => conn.fin \/ conn.isWriting

\* The connection, the parts on their way, the parser and the answers have
\* their types whatever the clients send, and a parser that has been reset has
\* nothing left of the request before (HttpServer.cpp:96-97, HttpParser.cpp:150-155).
THEOREM HttpTypeCorrect == HttpSpec => []HttpTypeOK
<1>1. HttpInv => HttpTypeOK
  BY HttpTyped
<1> QED
  BY HttpInvariance, <1>1, PTL

\* The responses, headers and files, and the 400s leave as one stream in which
\* nothing is lost, repeated or overtaken, for every client that the object
\* serves, and their FIN comes after them and is not forgotten: TcpConnection's
\* stream under the calls of onMessage and onRequest
\* (HttpServer.cpp:50-101, TcpConnection.cpp:77-170, 285-330).
THEOREM ResponseNeverTorn == HttpSpec => []ResponseIntact
<1>1. HttpInv /\ Ending => ResponseIntact
  BY StreamFollows, FinFollows DEF HttpInv, Ending, ResponseIntact
<1> QED
  BY HttpInvariance, EndingInvariance, <1>1, PTL

\* Wherever the reads end, but inside a token, answers are to requests that
\* were made, in their order and one each until the first 400: no sequence of
\* segments, bodies and clients makes onMessage skip or repeat one
\* (HttpServer.cpp:49-101).
THEOREM AnswersComeInOrder == HttpSpec => []AnswersInOrder
<1>1. HttpInv => AnswersInOrder
  BY AnswersFollow
<1> QED
  BY HttpInvariance, <1>1, PTL

\* A request that has been answered has been consumed, body and all, and as long
\* as the connection is up one that has been consumed has been answered: of no
\* request is anything left in the input buffer after its answer, or no answer
\* after its last part (HttpServer.cpp:58-101).
THEOREM AnsweredWhenConsumed == HttpSpec => []AnswerAfterBody
<1>1. HttpInv => AnswerAfterBody
  BY AnswersFollow
<1> QED
  BY HttpInvariance, <1>1, PTL

\* On an object with no error left from its client before, no bad request gets
\* an answer other than a 400 and no good one is the first to get a 400
\* (HttpServer.cpp:52-58, HttpParser.cpp:145-155).
THEOREM FirstBadAnswerDeserved == HttpSpec => []RightAnswer
<1>1. HttpInv => RightAnswer
  BY DeservedFollows
<1> QED
  BY HttpInvariance, <1>1, PTL

\* What CloseFollows promises is underway from the answer on, whatever the reads
\* contain: after a 400, or an answer to a request without keep-alive, the
\* connection is not up any more and no FIN is left to be sent that handleWrite
\* will not send (HttpServer.cpp:54-58, 94-95, TcpConnection.cpp:184-189, 310-313).
THEOREM ClosingAnswerCloses == HttpSpec => []CloseUnderway
<1>1. HttpInv /\ Ending => CloseUnderway
  <2>1. HttpInv => conn.state \in States
    BY Fields DEF HttpInv, ConnInv, Good, ConnOK
  <2> QED
    BY <2>1 DEF Ending, Underway, Closed, ClosingAnswer, CloseUnderway, States
<1> QED
  BY HttpInvariance, EndingInvariance, <1>1, PTL
=============================================================================
