# ssxrver: specifications, model checking and proofs

This directory holds TLA+ specifications of ssxrver, a C++17 network library
(one event loop per thread, epoll, timerfd, eventfd) and the HTTP file server
built on it. Paths such as `net/EventLoop.cpp` are relative to the source tree.

## 1. The system

Thread structure. `main` reads the configuration, starts the logging thread,
builds an `HttpServer` on the main `EventLoop` and enters `loop()`, which in the
shipped program never returns. The main thread only accepts; `EventLoopThreadPool`
owns N I/O threads with one `EventLoop` each, and an accepted descriptor is handed
to one of them, round robin, with `queueInLoop`. From then on a connection belongs
to that thread. Other threads reach an I/O thread only through its functor queue.

| component | state | operations | hard part |
|---|---|---|---|
| `EventLoop` (net/EventLoop, Epoll::poll) | `functors_` under a mutex, eventfd count, `quit_`, `callingFunctors_`, active channels | `loop`, `queueInLoop`, `runInLoop`, `quit`, `wakeup` | a push or a quit is two writes; the loop may sleep, drain or swap between them |
| `Epoll`, `Channel` | interest set, channel status, map fd -> connection, pool of closed connections | add, modify, delete, `createConnection`, `removeConnection`, `handleEvent` | order of close and EPOLL_CTL_DEL, recycled connections, events of a closed channel |
| `TcpConnection` | state machine, input and output `Buffer`, file in progress, interest in writing | `send`, `sendInLoop`, `handleRead`, `handleWrite`, `shutdown`, `forceClose`, `startRead`, `connectReset` | partial writes, shutdown with data pending, sendfile between buffers, functors that outlive their connection |
| `TcpServer` | listening socket, idle fd | `acceptHandRead`, `newConnection` | edge-triggered accept, EMFILE |
| `EventLoopThread`, `EventLoopThreadPool`, `Thread` | `loop_`, `exiting_`, round-robin index | `startLoop`, `threadFunc`, `start`, `getNextLoop` | the loop is published before it is entered; it lives on the thread's stack |
| `TimerManager`, `Timer` | ordered queue of timers, the armed timerfd | `addTimer`, `cancel`, `handleRead`, `getExpired`, `reset` | arming for a time already past; cancelling from a callback |
| `Buffer` | bytes and two indices | `append`, `prepend`, `retrieve*`, `makeSpace`, `shrink`, `readFd` | index arithmetic |
| `HttpServer`, `HttpParser`, `HttpRequest`, `HttpResponse` | parser state, request, error flag, file to send | `onMessage`, `onRequest`, `execute`, `reset` | a request in several reads, several requests in one read, state kept from one request or connection to the next |
| `UdpServer` | one datagram socket | `udpHandRead`, `udpSend` | |
| `AsyncLogThread` | two front buffers, the vector of full buffers, two spare buffers of the back end | `append`, `threadFunc`, `stop` | buffer exchange between producers and writer, overload, stop |
| `LogFile`, `File`, `LogStream`, `Logging` | current file, roll counters | `append`, `rollFile`, `flush`, `~Logger` | flushing before abort |
| `ThreadSafeQueue`, `ThreadPool` | linked list with a head and a tail mutex, a condition variable | `push`, `tryPop`, `waitAndPop`, `start`, `stop` | two-lock queue whose waiters use only one of the locks |
| `Init`, `CJsonObject`, `cJSON`, `MySQL*` | configuration, database handle | parsing, queries | sequential or third-party code |

What makes each part correct, and is hard to get right:

- *EventLoop*: nothing handed to it is lost, whoever hands it over and wherever
  the loop is at that moment; functors run once and in order.
- *TcpConnection*: what the peer reads is what was handed over, in order; the FIN
  comes after the last byte; EPOLLOUT is watched exactly while there is something
  to write.
- *TcpServer and the pools*: every descriptor has one owner although its number
  is shared by all threads; a recycled object serves one client.
- *EventLoopThread*: the pointer `startLoop` returns is good until somebody tells
  the loop to quit; `startLoop` returns; a quit ends the thread.
- *HttpServer*: one right answer for each request, whatever the segmentation,
  the body, the request before it and the previous client of the object.
- *Buffer*: it is a queue of bytes, whatever is moved inside of it, and its indices
  stay in the vector.
- *TimerManager*: the timerfd is armed for the first timer whatever has been
  added and cancelled since; timers run when due and in order.
- *AsyncLogThread*: no line is lost, doubled or overtaken while buffers change
  hands, the spare buffers are there when they are needed, every line gets to
  disk, in the order of the files; what a process leaves behind is a prefix.
- *ThreadPool*: each task is taken once and in order, and no task waits beside an
  idle worker.

## 2. Plan

| # | module | status |
|---|---|---|
| 1 | `TaskExecutor`, `EventLoop`, `EventLoopProofs` | done |
| 2 | `Connection`, `TcpConnection`, `TcpConnectionProofs` | done, but for the cases of section 7 |
| 3 | `HttpServer` (extends `Connection`), `HttpServerProofs` | done, pipelining and reads that end inside a token included, but for tokens that three reads share |
| 4 | `AsyncLog`, `AsyncLogProofs` | done |
| 5 | `ThreadPool`, `ThreadPoolProofs` | done, but for `tryPop` |
| 6 | `TimerManager`, `TimerManagerProofs` | done |
| 7 | `TcpServer`, `TcpServerProofs` | done, but for a server without I/O threads and the destructors |
| 8 | `EventLoopThread`, proved about in `EventLoopProofs`: a loop's start and end around `EventLoop` | done, but for the destructors |
| 9 | `ByteQueue`, `Buffer`, `BufferProofs` | done |
| 10 | `LogFile`, and `AsyncLog` writing to it | done |

There are two abstract specifications. `TaskExecutor` is a consumer that runs what
it is given once and in order: `EventLoop` refines it, liveness included, alone and
on its thread; `ThreadPool` refines its safety half and fails its liveness (run
`threadpool_wakeup`). `ByteQueue` is a queue of bytes that can be put at both ends:
`Buffer` refines it as long as its indices are in the vector.

## 3. The modules and the code

Each `MC` module only gives constants to the module it extends.

**EventLoop** has one action per lock section, system call and flag test of
`EventLoop.cpp` and of `Epoll::poll`, for the loop's thread (`pc`) and for any
number of foreign `Threads`, which sit between the push (or the store to `quit_`)
and the `write` to the eventfd (`other`). `Poll` blocks until a descriptor is
ready; `counter` is the eventfd; `Channels` are other descriptors whose handlers,
like the functors, may call `queueInLoop` and `quit`. `PollInterrupted` is EINTR.
A functor is the number of the call that queued it.

**EventLoopThread** extends `EventLoop` by the thread it runs on (`thread`) and by
the owner inside `startLoop` (`owner`). `Start` and `PassLatch` are `Thread::start`
and its latch, `TestLoop`, `SpuriousWake` and `ReturnLoop` the wait on `cond_` and
the read of `loop_` after it, which is not under the mutex; `Publish`, `InLoop`,
`Clear` and `End` are `threadFunc`. The foreign threads of `EventLoop` are the users
of the pointer (`Begin`, `Finish`), and `UseAfterEnd` is one of them that comes too
late. Every step is a step of `EventLoop` or leaves its variables alone.

**Connection** describes a connection as one record: operators such as
`SendInLoop(c, bytes)` are functions from connection to connection, in the order
of the statements of the method, so that a caller composes them as the C++ does.
The socket's send buffer holds `SndBuf` bytes; `Accepted` is what a write takes.
A file is a sequence of bytes with `offset` and `sendLen`; as in the code,
`sendfile` and its caller both advance the offset. `SetLostFile` is `setSendFile` with
a file that could not be opened: `File.cpp` keeps the descriptor -1 and never sets
the length, which may therefore be any (a length of 0 does what no file does).
`strained` is a history: a file has been put to a use in which the code loses a part
of it (see section 4). `Exhausted` and `Stranded` say what may come of it: bytes of
a file are outstanding, and no `sendfile` will send them (the offset is beyond the
end, or there is no file), so that EPOLLOUT is reported for ever; or EPOLLOUT was
switched off with the header (line 303) and nobody will try. The module also has the steps that do not depend on the application:
`ConnectEstablished`, the events epoll may report (`EventRead`, `EventHup` and
`EventWrite` are `Channel::handleEvent`), the network and the peer; and the
properties of the byte stream.

**TcpConnection** extends `Connection` by an application that makes any calls in any
order. `tasks` are the functors the connection queued for its loop.

**HttpServer** extends `Connection` by another application, the HTTP server: the
parser (`cs`, `error`, the request it has, its body) and the clients. Its names
start with `Http` where `TcpConnection` has the same, so that the proofs can use both. A request is a request line, header lines and parts
of a body. A read takes any number of the parts that are on the wire, and perhaps
a piece of the next: `cut` names the token it ended in, of those the server looks
at, and the rest of the line is then read as the code reads it: the tail of a
method is no method (400), that of a path no known path (404 and close), that of
a header name not the header (no body is expected, or the connection closes). A
method of which nothing is left is accepted, since an empty text is a prefix of any
(`HttpRequest.h:35`): `methodEnd`. A bad request is one with an unknown method
(`badMethod`: the callback sets `error_`) or one the automaton refuses (`malformed`).
`Execute` is one call of the automaton on the input buffer, `OnMessage` the method
of the same name; `Respond` and `EndRequest` are the two halves of `onRequest`, up
to its `send` and after it. A response may have a file, and the file may be lost. Clients need not wait for answers and may
go on after a request that closes the connection. `ConnectReset` recycles the
object for the next client. `tainted` is a history of what has misled the parser.

**Buffer** is `net/Buffer.h` with its vector, its size and the two indices; each
public operation that changes it is an action whose guard is the assertion of the
function, `hasWritten` by itself (after a write to `beginWrite()`) included, and
`unwrite` with the wrap-around of its index (`Minus`). Only `swap`, which exchanges
two buffers and which nothing calls, is none. `io` is what the last call was given or has returned. With `Intact`
violated (see `LeavesOnlyBy`) only `retrieveAll` is defined.

**TcpServer** has the main thread inside `acceptHandRead` (`accepting`), one
system call per step in the EMFILE branch, and loops that poll, handle the ends
of connections and run their functors. A client is refused if its address is in
`Blocked` or its descriptor beyond `WorkerConnections`, of which -1 means no limit,
as in the code (a limit of 0 refuses everybody). All share `owner`, the descriptor table,
in which `accept`, `open` and `close` of different threads meet; the lowest free
number is given out first, as the kernel does. `Destroy` is `handleClose`,
`connectDestroyed` and `removeChannel` in one step: after `EPOLL_CTL_DEL` only the
`close` can be seen by other threads.

**TimerManager** has the timers, the queue as a set with the order of `TimerCmp`,
the timerfd (`armed`, `readable`), and a clock that may tick between any two
steps. Callers add and cancel through the functor queue; callbacks do it directly.

**AsyncLog** has the buffers as sequences of line numbers. A pointer is a
sequence of at most one buffer, so that moving it is moving the sequence. The
back end's steps are its lock sections and what it does between them: `Exchange`
under the mutex, `Drop`, one `Write` for each buffer, `Refill`. `AppendFatal` and
`Abort` are `~Logger` of a FATAL line, with everything other threads do in between;
after `Abort` only `output.disk` counts.

**LogFile** is the log file as a record: the files by the second in their name, the
open one, and what stdio holds of it. `FileAppend` lets stdio pass on any part of
that by itself, `RollFile` opens the next file before the old one is flushed.

**ThreadPool** has the queue as a sequence (head and tail node coincide when it is
empty), `headMutex` with its holder, and for each worker the steps lock, test,
block, wake, pop of `waitForData` and `waitPopHead`; `Push` and `Notify` are two
steps of a producer that holds only the tail's mutex in the first.

## 4. The runs

All runs finish in two to three minutes or less. Bounds are named in the modules
(`Max...`); everything else is unbounded.

| run | what it asks | bounds and why they are enough |
|---|---|---|
| `eventloop` | is any functor, quit or wakeup lost; does the loop refine `TaskExecutor`; does `startLoop` return a loop that is there; does a quit end the thread | two threads, one channel, four calls: both threads inside a call while the loop is at any of its steps, with a second round after it, before, during and after `startLoop` and the end of the thread |
| `tcp` | stream, FIN, interest in writing, write-complete callback, flush, with data and files | messages shorter and longer than the socket buffer (2), three sends, files of one byte that have to wait for EPOLLOUT and of three that need a second `sendfile` and are overrun by it, three queued tasks |
| `tcp_file_offset` (violation) | does the peer read a prefix of what was handed over | a file of three bytes through a buffer of two |
| `http` | right answer, order, bodies, integrity, every request answered, a close that is due; `HttpTypeOK` includes `ConnTypeOK`, the types of the connection | two clients in turn with two requests each, of eight kinds: good and bad, with and without keep-alive, body and file, a file of two bytes with the close, files that cannot be opened; responses that do not fit the socket buffer (2) |
| `http_recycled` (violation) | right answer for the next client of the object | a bad request, then a good one of the next client |
| `tcpserver` | owners of descriptors, the pool, nobody forgotten | four clients, one of them blocked, two loops (so that one object is reused while the other loop is active), three descriptors for them, the last beyond the limit, one file that can take the idle one's place |
| `timers` | when and in which order timers run, arming | two timers (front and back of the queue, one cancelling or adding the other), four ticks for delays of 1 and 2 |
| `asynclog` | buffers, spare buffers, order and completeness of the files, flush | ten lines in buffers of two: overload (more than three full buffers) and a round after it; files of three lines and two seconds, so that a file is replaced by itself and by another; a FATAL line at any point |
| `asynclog_fatal` (violation) | is a FATAL line in a file when the process is gone | one FATAL line |
| `threadpool` | tasks taken once and in order | two workers, two producers, three tasks |
| `threadpool_wakeup` (violation) | is every task taken | one of each |
| `buffer` | does a buffer do what a queue of bytes does, when do its indices leave the vector, when does it grow | four byte values, vectors of up to seven bytes with room for a header of one, data of up to three bytes: every branch of `makeSpace`, `readFd` in one and two blocks, several rounds of growing and moving |

The four violations are disagreements between the code and its comments:

- `TcpConnection.cpp:138, 323`: the offset of a file is advanced twice, so that
  a file that needs a second `sendfile` loses bytes.
- `HttpParser.cpp:150`: `error_` is not reset with the rest of the parser, so that
  the next client of a recycled connection gets 400. For the same reason a client
  that goes on while its 400 waits for EPOLLOUT gets further 400s, for good requests
  too: `RightAnswer` says of the first 400 only that it goes to a bad request.
- `ThreadSafeQueue.hpp:32`: a notification can fall between a worker's test and
  its wait; the task stays.

- `Logging.cpp:121`: what is flushed before `abort` is stdout, although the lines
  go to the asynchronous log; a FATAL line is lost with the process.

Others that were met and have no run of their own: the doubled advance may leave the
offset beyond the end of the file with bytes outstanding, from when on `sendfile`
returns 0, EPOLLOUT is reported for ever and a FIN that is due is never sent
(`TcpConnection.cpp:318-341`); so it is with a file that could not be opened, which is
sent all the same (`File.cpp:96`); a header that does not fit the socket buffer strands
its file (`TcpConnection.cpp:303`); a file on a keep-alive
connection is dropped after one `sendfile` and EPOLLOUT stays on
(`HttpServer.cpp:98`); a second request in the same read waits for another read
(`HttpServer.cpp:60`); a token that is cut by the end of a read is taken for its
tail (`http11_parser.rl:283`), so that a good request may get 400 or 404; a quit
between the return of `startLoop` and the entry of `loop()` is lost
(`EventLoop.cpp:69`), one that the loop's own first callbacks make may leave
`startLoop` waiting for ever (`EventLoopThread.cpp:34`), and the wakeup of a quit
may touch a loop that has just ended because of it (`EventLoop.cpp:90`); `unwrite`
compares with the room behind the contents instead of the contents (`Buffer.h:120`)
and `shrink` with a large reader index leaves the indices behind the end of the
vector (`Buffer.h:209`); a timer armed for a time that is over never fires and takes
the later ones with it (`TimerManager.cpp:46`); `worker_connections` limits the
number of a descriptor, not the connections of a thread (`TcpServer.cpp:66`,
README.md:82); `acceptHandRead` spins as long as all descriptors are in use
(`TcpServer.cpp:76`).

**Restrictions that the properties need.** The models go on where the code
loses something; the properties name the case and stop there.

- `strained` (`Connection`): a file had to wait behind buffered bytes, needed a
  second `sendfile`, was given up before its end, was set over another or too late, or
  could not be opened. Until then `StreamIntact`, `FinAfterData`, `WritingIffPending`
  and `ResponseIntact` hold.
- `Exhausted`, `Stranded` (`Connection`): what may have become of a strained file. The
  liveness of a connection does not end with `strained`, but there: `OutputFlushed`
  excepts both, `ShutdownCompletes` and `CloseFollows` only `Exhausted`, since a FIN does
  not wait for a file without EPOLLOUT. Each of them fails without its exceptions.
- `tainted` (`HttpServer`): a read ended inside a token, or the object's previous
  client left `error_` set. `RightAnswer` excludes both; `AnswersInOrder` and
  `AnswerAfterBody` exclude the cut only; `ResponseIntact`, `EveryRequestAnswered` and
  `CloseFollows` neither.
- `Starved` (`HttpServer`): the request is in the input buffer and no read is coming.
- `late` (`TimerManager`): `resetTimerFd` was given a time that was over.
- `overloaded` (`AsyncLog`): lines were dropped on purpose.
- `dangling`, `quit_` (`EventLoopThread`): the pointer is good until a quit.

## 5. Fairness

- A loop's thread takes a step when it can (weak fairness of `LoopStep`): it is a
  thread of its own and its handlers return. For `EventLoop` also each foreign
  thread between its push and its wakeup: it holds no lock and calls nothing that
  blocks. Nobody is obliged to queue, to quit or to send.
- `EventLoopThread`: the owner in `startLoop`, the new thread, and users in the middle
  of a call; nobody has to call, and no spurious wakeup is relied on.
- `TcpConnection`, `HttpServer`: the network delivers (`Deliver`), so that the
  socket buffer drains as long as the peer has not reset. Clients are free to leave.
- `TcpServer`: the main thread, each loop, and the closing of files other threads
  opened. Clients need not leave.
- `TimerManager`: the loop and the clock.
- `AsyncLog`: the back end; its wait ends by its timeout, without any notification.
- `ThreadPool`: each worker and each producer on its way to `notify_one`, but not
  spurious wakeups: the code may not rely on them.

## 6. The proofs

The theorems hold for every value of the constants; TLC evaluates the assumptions
on the constants in every run. `tlapm` 1.4.5 with Z3, Zenon and LS4 checks them.

- `EventLoopProofs`. The invariant is `Woken`: types, `NoLostFunctor`,
  `NoLostQuit` and `WakeupReadable` together. None is inductive alone: that a
  functor is not lost when `handleRead` drains the eventfd needs that the loop has
  not passed `runFunctors`, which is in the type invariant's link between
  `callingFunctors_` and `pc`. `FunctorsInOrder` needs in addition that all numbers
  are below the next one (`Ordered`). `ImplementsExecutor` maps each step to a step
  of `TaskExecutor` or a stutter.
  For `EventLoopThread`, `ImplementsLoop` shows that a step of the thread is a step
  of the loop or a stutter, so that the lemmas on the loop's steps apply as they are.
  `PointerInv` ties `loop_`, the place of the owner and that of the thread together;
  the heart of `PointerGood` is that `loop()` returns only with `quit_` set and that
  nothing clears `quit_` after the loop has been entered.
- `BufferProofs`. Each operator has a lemma on what it does to the contents and to
  the indices (`MoveToFront` copies byte by byte over itself, `readFd` joins two
  blocks); with them each call maps to a step of `ByteQueue`, for any alphabet and
  any sizes. Type correctness includes that `kPrepend` bytes remain whatever is resized.
- `AsyncLogProofs`. `TypeInv` adds to the types how far the loop over
  `buffersToWrite` has come, so that it stays inside. `SparesInv` says for each place of the back end which of its
  two spare buffers it has given away, and that there are at least as many written
  buffers to refill them from, overload or not; it is stronger than the
  assertions in the code (`SparesReady`), which only speak of some places.
  `LogInv` is for `LinesConserved`: the whole text (files, stdio, the buffers being
  written, the full ones, the current one) is increasing, and all of the lines
  unless some were dropped. It needs that no file after the open one has anything
  in it (`NothingLater`), so that the text of the files in the order of their names
  grows at its end, and that nothing is left to write at `Refill`.
- `TcpConnectionProofs`. There is one lemma for each member function of
  `Connection`, so that a caller's proof composes them as its code does. The
  invariant speaks of a connection that is up and not `strained` (`Intact`): what
  the peer got, the socket's buffer, the output buffer and an unsent file together
  are what was handed over; a file waits only for an empty output buffer; EPOLLOUT
  is on exactly if something waits; FIN has been sent only with all three empty.
  `WritingIffPending` and `FinAfterData` are parts of it that are not inductive
  alone: that `shutdownInLoop` may send its FIN follows from the first, and that
  the first survives a write follows from the place of the file. For connections
  that are closed or reset `Delivered` remains: the peer has got a prefix.
  `PeerReadsNoGap` says that the peer reads a prefix of what was handed over unless one
  of the cases of `strained` has occurred: the second `sendfile` of run
  `tcp_file_offset` is one of them, a file that a later send overtakes is another.
  `DataReadInOrder` says the same without any exception of a connection that sends no
  files (`FileLengths = {}`): only `setSendFile` can strain it.
  The second half of `FinAfterData`, that a shutdown is not forgotten, holds of strained
  and reset connections, too (EPOLLOUT is watched; that it leads to the FIN is for
  `ShutdownCompletes` to say), and has an invariant of its own: `Underway`, with `After`
  for what every member function but `handleWrite` and `handleClose` leaves of it.
- `HttpServerProofs`. It extends `TcpConnectionProofs`, too (the application there,
  its constants and `sends` play no part), and composes its lemmas on `SendInLoop`,
  `SetSendFile` and `Shutdown` as `onMessage` and `onRequest` compose the calls:
  `ConnInv` survives them (`Served`), which is `ResponseNeverTorn`. For the answers
  `HttpInv` needs to know where the parser stands. `Layout` describes what is still to
  be consumed, in the input buffer or on the wire, by one number for each request,
  `e[r]`: how many parts are left when request `r` has been consumed. It makes the
  part at any place, and the request it is of, a matter of arithmetic. `Position` says
  at which place the parser is in each of its states, `Answers` that what has been
  answered lies before that place, `Replied` that what lies before it has been answered
  as long as the connection is up (for which a read must not get beyond the request it is
  at, `OneRequest`), `Phase` that a parser which stays finished, or a
  400, goes with a connection that is being closed, and `Blamed` that an error has
  been answered. None of the three properties of the answers is inductive: that a
  request is not answered twice needs `Phase` (after an answer that closes, data that
  follows runs `onRequest` again, and only the state of the connection keeps it
  from sending), and that it is answered with nothing left over needs all of
  `Layout`. A step of the automaton, of `onMessage` and of the client is a step along
  this layout; the first cut of a token ends it, and the properties except the types
  and the stream with it. `ClosingAnswerCloses` needs none of it: `Ending` composes
  `Underway` as `onMessage` does the calls, and `Closed` says that a connection that is up
  has given no answer that closes it.
- `TcpServerProofs`. `HeldOnce`: a descriptor stands for a client if and only if
  one queued functor or one connected object has it, and never two of them; only
  the EMFILE branch owns one (`idleFd`) that nobody holds (`IdleKept`: the idle
  descriptor's number may be any other thread's between its close and its open).
  `Known` ties each loop's map and epoll to its objects and `Pooled` the pool to
  them; `Scheduled` says that events of a round are of objects still connected.
  Every part is used for every other: a close releases a number for good only
  because the map, the pool and the queue know no second object with it.
- `TimerManagerProofs`. `ArmedForFirst` is not inductive: `addTimerInLoop`
  compares a new timer with the top of the queue, which may be a timer that was
  cancelled; `ArmedForAll` says the same of every timer in the queue, cancelled or
  not. `InOrder` is the invariant under `RunsDue`: the expired timers not yet run
  are in order, were due when they were taken and come before all that are still
  queued, those that callbacks have added since included. That a set of timers
  has a first one and can be sorted (`TopIsFirst`, `CanBeSorted`) is proved for
  any number of them from the order of `TimerCmp`.
- `ThreadPoolProofs`. `PoolInv` joins the types, among them that exactly the worker
  between lock and unlock holds `headMutex`, with `PopFindsTask`: only the holder
  pops, so what its test saw is still there. From it the refinement of
  `TaskExecutor`'s safety, for a pool with at least one worker.

Where a proof needs induction over data (the least element of a set, the text of
a sequence of buffers, the sorting of a set), it takes the least counterexample,
from the well-foundedness of the natural numbers.

Only model-checked: liveness (the provers know neither fairness nor ENABLED), and
with it the liveness half of the refinement of `TaskExecutor`. Three of these properties
have a part proved, that what is due is at least being waited for.
For `EveryRequestAnswered` it is the second part of `AnswerAfterBody`, for
`ShutdownCompletes` that of `FinAfterData`, for `CloseFollows` `ClosingAnswerCloses`.
All other properties that a passing run checks are theorems. TLC checked `HttpInv` and
`Ending` as invariants of `HttpSpec` too, with two clients of two requests and one
client of three (with the witness that `Layout` determines for its `\E e`, and without
`Delivered`, whose witness TLC cannot enumerate).

## 7. What is not modelled

- Send from another thread than the loop's: it reads the caller's buffer after the
  caller has gone on (`TcpConnection.cpp:59, 64-74`), so that there is nothing to
  promise. The server sends from the loop only.
- Tasks queued for a connection whose object has been recycled
  (`TcpConnection.cpp:196`), and `startRead` after a close together with descriptor
  numbers (`Epoll.cpp:72`, `Channel.cpp:50`): calls the server does not make.
- Destructors and the orderly end of the process: `~Thread` destroys a joinable
  `std::thread` (`Thread.cpp:74` tests the wrong way round), which ends the process;
  the shipped program never gets there.
- A `ThreadInitCallback` that uses the loop before it runs; a server without I/O
  threads; a token of HTTP that three reads share; a reset that unread input causes
  on close; failing writes of the log; files that shrink while they are sent (they end as
  `Exhausted`, too); `Buffer::swap`.
- `UdpServer` and `SocketOps`, wrappers of one system call each; `Init` and `main`,
  sequential start-up, but for the message handler; levels and formatting of
  `Logging` and `LogStream`.
- `CJsonObject` and `cJSON` (third-party), `MySQL` (a wrapper of the client library,
  used by nothing in the server), `http11_parser.cpp` and `httpclient_parser.cpp`
  (generated by Ragel; `http11_parser.rl` is what is modelled). These are four
  fifths of the lines under `src/`, and hold no state machine of this program that
  is not in their sources.

Assertions are off in the release build and are not actions; some of them are
properties (`SparesReady`) or guards (`Buffer`). The debug build cannot write its
log: `File.cpp:16` asserts the error it means to exclude.
