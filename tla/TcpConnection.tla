--------------------------- MODULE TcpConnection ---------------------------
(***************************************************************************)
(* net/tcpconnection.{h,cc}, the dispatch of net/channel.cc and the        *)
(* removal protocol of net/tcpserver.cc: the life of one connection.       *)
(*                                                                         *)
(* Its I/O loop is a FIFO of functors (what EventLoop implements, module   *)
(* TaskQueue) that alternates with the events of the connection's channel. *)
(* The server's own loop is another one, or the same (no pool threads).    *)
(* User code runs in callbacks of the I/O loop, and in other threads that  *)
(* keep a TcpConnectionPtr; both call send() and shutdown().  The channel  *)
(* is registered with epoll exactly when its index is kAdded, and then     *)
(* with its events (RegistrationExact of module Poller).                   *)
(*                                                                         *)
(* External: the socket in the kernel, and the peer.                       *)
(***************************************************************************)
EXTENDS Integers, FiniteSets, SequencesExt

CONSTANTS
    Messages,       \* strings given to send(), each once
    Size,           \* their sizes
    Users,          \* threads other than the I/O loop that call the connection
    SharedLoops,    \* values of sharedLoop to explore
    HighWaterMark,  \* _highWaterMark
    SndBuf,         \* bytes the kernel takes before the peer reads any
    MaxInput        \* bound: bytes of the peer waiting to be read

ASSUME TcpConnectionAssumption ==
    /\ Size \in [Messages -> Nat]
    /\ SharedLoops \subseteq BOOLEAN
    /\ HighWaterMark \in Nat \ {0}
    /\ SndBuf \in Nat \ {0}
    /\ MaxInput \in Nat \ {0}

VARIABLES
    state,         \* _state
    events,        \* the channel's events: subset of {"in", "out"}
    index,         \* the channel's index in the poller
    outputBuffer,  \* the readable bytes of _outputBuffer
    queue,         \* functors queued in the I/O loop
    todo,          \* callbacks that handleEventWithGuard has still to make
    inCallback,    \* user code runs in the I/O loop
    baseQueue,     \* functors queued in the server's loop
    sharedLoop,    \* _loop is the server's own loop
    inMap,         \* the connection is in the server's _connections
    serverGone,    \* ~TcpServer has run
    user,          \* where each other thread is in send() or shutdown()
    sent,          \* messages given to send() by now
    sndSpace,      \* room in the kernel's send buffer
    inData,        \* bytes in the kernel's receive buffer
    peerFin,       \* the peer has closed its side
    reset,         \* the peer has reset the connection
    soError,       \* the socket's pending error, SO_ERROR
    shutWr,        \* our side is shut down: FIN follows the data
    accepted,      \* history: bytes handed to sendInLoop, in order
    wire,          \* history: bytes handed to the kernel, in order
    calls          \* history: connection and message callbacks made

interest    == <<events, index>>
connVars    == <<state, interest, outputBuffer>>
loopVars    == <<queue, todo, inCallback>>
serverVars  == <<baseQueue, sharedLoop, inMap, serverGone>>
userVars    == <<user, sent>>
otherVars   == <<serverVars, userVars>>
peerVars    == <<inData, peerFin, reset>>
socketVars  == <<sndSpace, soError>>
kernelVars  == <<peerVars, socketVars, shutWr>>
stream      == <<accepted, wire>>
historyVars == <<stream, calls>>
vars == <<connVars, loopVars, otherVars, kernelVars, historyVars>>

States == {"kConnecting", "kConnected", "kDisconnecting", "kDisconnected"}
Indices == {"kNew", "kAdded", "kDeleted"}

Functors ==
    {<<"connectEstablished">>, <<"connectDestroyed">>, <<"shutdownInLoop">>,
     <<"writeComplete">>, <<"highWaterMark">>}
      \cup {<<"sendInLoop", m>> : m \in Messages}

\* What another thread is doing: it has the connection and is outside of it,
\* or it never got the connection.
Idle   == <<"idle">>
Absent == <<"absent">>

\* The bytes of a message.
Bytes(m) == [i \in 1 .. Size[m] |-> <<m, i>>]

\* What another thread's send() leaves in the functor is buf.c_str() and the
\* size: the caller may have freed or reused the string when the functor
\* runs, which then reads whatever is there.
Recycled(m) == [i \in 1 .. Size[m] |-> <<"recycled", i>>]

\* newConnection has built the connection, put it in the map and queued
\* connectEstablished in the I/O loop.
Init ==
    /\ state = "kConnecting"
    /\ events = {}
    /\ index = "kNew"
    /\ outputBuffer = << >>
    /\ queue = <<<<"connectEstablished">>>>
    /\ todo = << >>
    /\ inCallback = FALSE
    /\ baseQueue = << >>
    /\ sharedLoop \in SharedLoops
    /\ inMap = TRUE
    /\ serverGone = FALSE
    /\ user \in [Users -> {Idle, Absent}]
    /\ sent = {}
    /\ sndSpace = SndBuf
    /\ inData = 0
    /\ peerFin = FALSE
    /\ reset = FALSE
    /\ soError = FALSE
    /\ shutWr = FALSE
    /\ accepted = << >>
    /\ wire = << >>
    /\ calls = << >>

-----------------------------------------------------------------------------
(* The socket.                                                             *)

Again  == -1   \* write returned -1 with EWOULDBLOCK
Broken == -2   \* write returned -1 with EPIPE or ECONNRESET

\* What write(2) of len bytes may return.
WriteResults(len) ==
    IF reset \/ shutWr THEN {Broken}
    ELSE IF len = 0 THEN {0}
    ELSE IF sndSpace = 0 THEN {Again}
    ELSE {n \in 1 .. len : n <= sndSpace}

Taken(result) == IF result \in {Again, Broken} THEN 0 ELSE result

\* The kernel's side of that write: data is the string written.
Written(data, result) ==
    /\ wire' = wire \o SubSeq(data, 1, Taken(result))
    /\ sndSpace' = sndSpace - Taken(result)
    /\ soError' = (soError /\ result # Broken)

\* What a level-triggered epoll reports of the socket.
Reported ==
    {e \in events : \/ e = "in"  /\ (inData > 0 \/ peerFin \/ reset)
                    \/ e = "out" /\ (sndSpace > 0 \/ shutWr \/ reset)}
      \cup (IF reset \/ (peerFin /\ shutWr) THEN {"hup"} ELSE {})
      \cup (IF soError THEN {"err"} ELSE {})

PeerSends ==
    /\ ~ peerFin /\ ~ reset
    /\ inData < MaxInput
    /\ inData' = inData + 1
    /\ UNCHANGED <<connVars, loopVars, otherVars, peerFin, reset,
                   socketVars, shutWr, historyVars>>

PeerReads ==
    /\ ~ reset
    /\ sndSpace < SndBuf
    /\ sndSpace' = sndSpace + 1
    /\ UNCHANGED <<connVars, loopVars, otherVars, peerVars, soError, shutWr,
                   historyVars>>

PeerCloses ==
    /\ ~ peerFin /\ ~ reset
    /\ peerFin' = TRUE
    /\ UNCHANGED <<connVars, loopVars, otherVars, inData, reset, socketVars,
                   shutWr, historyVars>>

PeerResets ==
    /\ ~ reset
    /\ reset' = TRUE
    /\ soError' = TRUE
    /\ UNCHANGED <<connVars, loopVars, otherVars, inData, peerFin, sndSpace,
                   shutWr, historyVars>>

-----------------------------------------------------------------------------
(* Steps that several handlers share.                                      *)

\* Channel::update and EpollPoller::updateChannel.
SetEvents(mask) ==
    /\ events' = mask
    /\ index' = IF index = "kAdded" /\ mask = {} THEN "kDeleted" ELSE "kAdded"

isWriting == "out" \in events

\* Socket::shutdownWrite: it fails on a connection that was reset.
ShutdownWrite == shutWr' = (shutWr \/ ~ reset)

\* Mutant of ShutdownInLoop: does not wait for the output buffer.
ShutdownAtOnce == ShutdownWrite

ShutdownInLoop == IF isWriting THEN UNCHANGED shutWr ELSE ShutdownWrite

\* The connection callback; consecutive message callbacks count as one.
Called(callback) ==
    calls' = IF calls # << >> /\ callback = "message" /\ Last(calls) = callback
             THEN calls ELSE Append(calls, callback)

-----------------------------------------------------------------------------
(* sendInLoop.                                                             *)

\* Mutant of WritesDirectly: tries the socket whatever is buffered.
WritesAlways == TRUE

\* The socket may be written at once: nothing waits in the buffer.
WritesDirectly == ~ isWriting /\ outputBuffer = << >>

\* Mutant of Completes: a partial write counts.
CompletesPartly(result, len) == result # Broken /\ result # Again

\* All of the message went to the kernel at once.
Completes(result, len) == result # Broken /\ Taken(result) = len

\* Mutant of Crosses: reports again and again above the mark.
CrossesAgain(oldLen, remaining) == oldLen + remaining >= HighWaterMark

\* The output buffer goes from below the high-water mark to it or above.
Crosses(oldLen, remaining) ==
    /\ oldLen + remaining >= HighWaterMark
    /\ oldLen < HighWaterMark

\* rest is the queue of the loop before sendInLoop adds to it.  The message
\* is written as far as the kernel takes it, the rest is buffered; a fault
\* drops the rest.
SendInLoop(data, rest) ==
    LET len == Len(data)
    IN  \E result \in IF WritesDirectly THEN WriteResults(len) ELSE {0} :
          LET remaining == len - Taken(result)
              complete == WritesDirectly /\ Completes(result, len)
              buffered == result # Broken /\ remaining > 0
              crossing == buffered /\ Crosses(Len(outputBuffer), remaining)
          IN  /\ Written(data, result)
              /\ accepted' = accepted \o data
              /\ outputBuffer' =
                   IF buffered
                   THEN outputBuffer \o SubSeq(data, Taken(result) + 1, len)
                   ELSE outputBuffer
              /\ IF buffered /\ ~ isWriting
                 THEN SetEvents(events \cup {"out"})
                 ELSE UNCHANGED interest
              /\ queue' =
                   rest
                     \o (IF complete THEN <<<<"writeComplete">>>> ELSE << >>)
                     \o (IF crossing THEN <<<<"highWaterMark">>>> ELSE << >>)

-----------------------------------------------------------------------------
(* The functors of the I/O loop.  A server that shares the loop is         *)
(* destroyed after the loop has ended.                                     *)

LoopFree ==
    /\ todo = << >>
    /\ ~ inCallback
    /\ ~ (sharedLoop /\ serverGone)

ConnectEstablished ==
    /\ state' = "kConnected"
    /\ SetEvents(events \cup {"in"})
    /\ Called("up")
    /\ inCallback' = TRUE
    /\ queue' = Tail(queue)
    /\ UNCHANGED <<outputBuffer, todo, otherVars, kernelVars, stream>>

\* Mutant of StillUp: only what handleClose has not seen counts as up.
StillUpUnlessClosing == state = "kConnected" /\ ~ peerFin

\* The connection was not closed before: connectDestroyed closes it.
StillUp == state = "kConnected"

\* disableAll (only of a connection that still is up), then remove.
ConnectDestroyed ==
    /\ IF StillUp
       THEN /\ state' = "kDisconnected"
            /\ events' = {}
            /\ Called("down")
       ELSE UNCHANGED <<state, events, calls>>
    /\ index' = "kNew"
    /\ UNCHANGED <<outputBuffer, todo, inCallback, userVars, kernelVars,
                   stream>>

\* The user's write-complete or high-water-mark callback.
UserFunctor ==
    /\ inCallback' = TRUE
    /\ queue' = Tail(queue)
    /\ UNCHANGED <<connVars, todo, otherVars, kernelVars, historyVars>>

RunFunctor ==
    /\ LoopFree
    /\ queue # << >>
    /\ LET functor == Head(queue)
       IN  \/ /\ functor = <<"connectEstablished">>
              /\ ConnectEstablished
           \/ /\ functor = <<"connectDestroyed">>
              /\ ConnectDestroyed
              /\ queue' = Tail(queue)
              /\ UNCHANGED serverVars
           \/ /\ functor \in {<<"writeComplete">>, <<"highWaterMark">>}
              /\ UserFunctor
           \/ /\ functor = <<"shutdownInLoop">>
              /\ ShutdownInLoop
              /\ queue' = Tail(queue)
              /\ UNCHANGED <<connVars, todo, inCallback, otherVars,
                             peerVars, socketVars, historyVars>>
           \/ \E m \in Messages :
                /\ functor = <<"sendInLoop", m>>
                /\ \E data \in {Bytes(m), Recycled(m)} :
                     SendInLoop(data, Tail(queue))
                /\ UNCHANGED <<state, todo, inCallback, otherVars, peerVars,
                               shutWr, calls>>

-----------------------------------------------------------------------------
(* The events of the channel.                                              *)

\* Mutant of Callbacks: EPOLLHUP closes whether or not EPOLLIN is set.
CallbacksHupAlways(revents) ==
    (IF "hup" \in revents THEN <<"close">> ELSE << >>)
      \o (IF "err" \in revents THEN <<"error">> ELSE << >>)
      \o (IF "in" \in revents THEN <<"read">> ELSE << >>)
      \o (IF "out" \in revents THEN <<"write">> ELSE << >>)

\* handleEventWithGuard: the callbacks for what epoll reported, in order.
Callbacks(revents) ==
    (IF "hup" \in revents /\ "in" \notin revents THEN <<"close">> ELSE << >>)
      \o (IF "err" \in revents THEN <<"error">> ELSE << >>)
      \o (IF "in" \in revents THEN <<"read">> ELSE << >>)
      \o (IF "out" \in revents THEN <<"write">> ELSE << >>)

Poll ==
    /\ LoopFree
    /\ index = "kAdded"
    /\ Reported # {}
    /\ todo' = Callbacks(Reported)
    /\ UNCHANGED <<connVars, queue, inCallback, otherVars, kernelVars,
                   historyVars>>

\* Mutant of DestroysInLoop: the server only forgets the connection.
ForgetsInLoop(q) == q

\* queueInLoop of the connection's loop: keeps it alive until then.
DestroysInLoop(q) == Append(q, <<"connectDestroyed">>)

\* Whatever the state was, and in the server: removeConnection, which runs
\* removeConnectionInLoop at once if the loop is the server's.
HandleClose ==
    /\ state' = "kDisconnected"
    /\ SetEvents({})
    /\ Called("down")
    /\ IF sharedLoop
       THEN /\ inMap' = FALSE
            /\ queue' = DestroysInLoop(queue)
            /\ UNCHANGED baseQueue
       ELSE /\ baseQueue' = Append(baseQueue, <<"removeConnectionInLoop">>)
            /\ UNCHANGED <<queue, inMap>>
    /\ UNCHANGED <<outputBuffer, inCallback, sharedLoop, serverGone, userVars,
                   kernelVars, stream>>

\* getsockopt(SO_ERROR) clears the error; the connection stays as it is.
HandleError ==
    /\ soError' = FALSE
    /\ UNCHANGED <<connVars, queue, inCallback, otherVars, peerVars,
                   sndSpace, shutWr, historyVars>>

\* Mutant of AtEnd: takes the end of file for an error.
AtEndIfReset == reset /\ ~ soError

\* With nothing to read: readv returns 0, and not -1 (the reset, or EAGAIN).
AtEnd == (peerFin \/ reset) /\ ~ soError

\* readv returns data, end of file, or an error.
HandleRead ==
    \/ /\ inData > 0
       /\ \E n \in 1 .. inData : inData' = inData - n
       /\ Called("message")
       /\ inCallback' = TRUE
       /\ UNCHANGED <<connVars, queue, otherVars, peerFin, reset,
                      socketVars, shutWr, stream>>
    \/ inData = 0 /\ AtEnd /\ HandleClose
    \/ inData = 0 /\ ~ AtEnd /\ HandleError

\* Mutant of Drained: EPOLLOUT stays although the buffer is empty.
DrainedStillWriting == UNCHANGED interest

\* The end of handleWrite when the output buffer became empty.
Drained == SetEvents(events \ {"out"})

\* Mutant of ShutdownWaits: a shutdown() that had to wait is forgotten.
ShutdownForgotten == FALSE

\* shutdown() has left it to handleWrite to close our side.
ShutdownWaits == state = "kDisconnecting"

HandleWrite ==
    \/ /\ isWriting
       /\ \E result \in WriteResults(Len(outputBuffer)) :
            /\ Written(outputBuffer, result)
            /\ outputBuffer' = SubSeq(outputBuffer, Taken(result) + 1,
                                      Len(outputBuffer))
            /\ IF Taken(result) > 0 /\ outputBuffer' = << >>
               THEN /\ Drained
                    /\ queue' = Append(queue, <<"writeComplete">>)
                    /\ IF ShutdownWaits THEN ShutdownWrite ELSE UNCHANGED shutWr
               ELSE UNCHANGED <<interest, queue, shutWr>>
       /\ UNCHANGED <<state, inCallback, otherVars, peerVars, accepted,
                      calls>>
    \/ /\ ~ isWriting
       /\ UNCHANGED <<connVars, queue, inCallback, otherVars, kernelVars,
                      historyVars>>

\* The next callback of the event being handled.
Dispatch ==
    /\ todo # << >>
    /\ ~ inCallback
    /\ todo' = Tail(todo)
    /\ \/ Head(todo) = "close" /\ HandleClose
       \/ Head(todo) = "error" /\ HandleError
       \/ Head(todo) = "read"  /\ HandleRead
       \/ Head(todo) = "write" /\ HandleWrite

-----------------------------------------------------------------------------
(* The user's code in a callback of the I/O loop.                          *)

CallbackSend(m) ==
    /\ inCallback
    /\ m \notin sent
    /\ state = "kConnected"
    /\ sent' = sent \cup {m}
    /\ SendInLoop(Bytes(m), queue)
    /\ UNCHANGED <<state, todo, inCallback, serverVars, user, peerVars,
                   shutWr, calls>>

CallbackShutdown ==
    /\ inCallback
    /\ state = "kConnected"
    /\ state' = "kDisconnecting"
    /\ ShutdownInLoop
    /\ UNCHANGED <<interest, outputBuffer, loopVars, otherVars, peerVars,
                   socketVars, historyVars>>

CallbackReturn ==
    /\ inCallback
    /\ inCallback' = FALSE
    /\ UNCHANGED <<connVars, queue, todo, otherVars, kernelVars,
                   historyVars>>

-----------------------------------------------------------------------------
(* send() and shutdown() in another thread: the test of _state, the        *)
(* assignment and the queueing are separate steps.                         *)

\* The thread has been given the connection by the connection callback.
HasConnection(u) == calls # << >> /\ user[u] = Idle

SendTest(u, m) ==
    /\ HasConnection(u)
    /\ m \notin sent
    /\ state = "kConnected"
    /\ sent' = sent \cup {m}
    /\ user' = [user EXCEPT ![u] = <<"sendInLoop", m>>]
    /\ UNCHANGED <<connVars, loopVars, serverVars, kernelVars, historyVars>>

ShutdownTest(u) ==
    /\ HasConnection(u)
    /\ state = "kConnected"
    /\ user' = [user EXCEPT ![u] = <<"setState">>]
    /\ UNCHANGED <<connVars, loopVars, serverVars, sent, kernelVars,
                   historyVars>>

ShutdownSetState(u) ==
    /\ user[u] = <<"setState">>
    /\ state' = "kDisconnecting"
    /\ user' = [user EXCEPT ![u] = <<"shutdownInLoop">>]
    /\ UNCHANGED <<interest, outputBuffer, loopVars, serverVars, sent,
                   kernelVars, historyVars>>

\* runInLoop from another thread is queueInLoop.
QueueInLoop(u) ==
    /\ user[u] \in Functors
    /\ queue' = Append(queue, user[u])
    /\ user' = [user EXCEPT ![u] = Idle]
    /\ UNCHANGED <<connVars, todo, inCallback, serverVars, sent, kernelVars,
                   historyVars>>

-----------------------------------------------------------------------------
(* The server, in its own loop.                                            *)

RemoveConnectionInLoop ==
    /\ baseQueue # << >>
    /\ ~ serverGone
    /\ baseQueue' = Tail(baseQueue)
    /\ inMap' = FALSE
    /\ queue' = DestroysInLoop(queue)
    /\ UNCHANGED <<connVars, todo, inCallback, sharedLoop, serverGone,
                   userVars, kernelVars, historyVars>>

\* ~TcpServer, after the server's loop has ended: a connection of that loop
\* (established in the very call of newConnection) is destroyed at once, one
\* of another loop through its queue.
ServerDestroyed ==
    /\ ~ serverGone
    /\ serverGone' = TRUE
    /\ inMap' = FALSE
    /\ UNCHANGED <<baseQueue, sharedLoop>>
    /\ \/ /\ inMap /\ sharedLoop
          /\ LoopFree
          /\ ConnectDestroyed
          /\ UNCHANGED queue
       \/ /\ inMap /\ ~ sharedLoop
          /\ queue' = DestroysInLoop(queue)
          /\ UNCHANGED <<connVars, todo, inCallback, userVars, kernelVars,
                         historyVars>>
       \/ /\ ~ inMap
          /\ sharedLoop => LoopFree
          /\ UNCHANGED <<connVars, loopVars, userVars, kernelVars,
                         historyVars>>

-----------------------------------------------------------------------------
Next ==
    \/ RunFunctor
    \/ Poll
    \/ Dispatch
    \/ \E m \in Messages : CallbackSend(m)
    \/ CallbackShutdown
    \/ CallbackReturn
    \/ \E u \in Users, m \in Messages : SendTest(u, m)
    \/ \E u \in Users : ShutdownTest(u) \/ ShutdownSetState(u) \/ QueueInLoop(u)
    \/ RemoveConnectionInLoop
    \/ ServerDestroyed
    \/ PeerSends
    \/ PeerReads
    \/ PeerCloses
    \/ PeerResets

Spec == Init /\ [][Next]_vars

(***************************************************************************)
(* Each iteration of loop() handles what epoll reports, which is level-    *)
(* triggered, and then runs what was queued: neither starves the other.    *)
(* Callbacks return.  The server's loop runs its functors while it lives.  *)
(* A thread inside send() or shutdown() reaches its queueInLoop.  The peer  *)
(* reads what it is sent, but need not close.                              *)
(***************************************************************************)
Fairness ==
    /\ SF_vars(RunFunctor)
    /\ SF_vars(Poll)
    /\ WF_vars(Dispatch)
    /\ WF_vars(CallbackReturn)
    /\ WF_vars(RemoveConnectionInLoop)
    /\ \A u \in Users : WF_vars(ShutdownSetState(u) \/ QueueInLoop(u))
    /\ WF_vars(PeerReads)

FairSpec == Spec /\ Fairness

-----------------------------------------------------------------------------
(* Properties.                                                             *)

AllBytes ==
    UNION {{m, "recycled"} \X (1 .. Size[m]) : m \in Messages}

\* Every variable holds a value of its C++ type; only bytes of messages are
\* buffered or written.
TypeOK ==
    /\ state \in States
    /\ events \subseteq {"in", "out"}
    /\ index \in Indices
    /\ outputBuffer \in Seq(AllBytes)
    /\ queue \in Seq(Functors)
    /\ todo \in Seq({"close", "error", "read", "write"})
    /\ inCallback \in BOOLEAN
    /\ baseQueue \in Seq({<<"removeConnectionInLoop">>})
    /\ sharedLoop \in BOOLEAN
    /\ inMap \in BOOLEAN
    /\ serverGone \in BOOLEAN
    /\ user \in [Users -> Functors \cup {Idle, Absent, <<"setState">>}]
    /\ sent \subseteq Messages
    /\ sndSpace \in 0 .. SndBuf
    /\ inData \in 0 .. MaxInput
    /\ {peerFin, reset, soError, shutWr} \subseteq BOOLEAN
    /\ accepted \in Seq(AllBytes)
    /\ wire \in Seq(AllBytes)
    /\ calls \in Seq({"up", "message", "down"})

Down == "down" \in Range(calls)

\* What went to the kernel followed by what is buffered is what was handed
\* to sendInLoop, in order and without a gap (only the end can be missing,
\* when the connection breaks), through any mix of direct, partial and
\* buffered writes.
StreamInOrder == IsPrefix(wire \o outputBuffer, accepted)

\* EPOLLOUT is wanted exactly while bytes wait: a connection that is up
\* never sits on output nor spins on a writable socket.
WritingIffBuffered ==
    /\ isWriting => outputBuffer # << >>
    /\ outputBuffer # << >> /\ ~ Down /\ index # "kNew" =>
         isWriting /\ index = "kAdded"

\* While the connection is up, FIN is sent only after every byte handed to
\* sendInLoop before it, whichever of shutdown() and handleWrite gets there.
FlushedBeforeFin ==
    [][~ shutWr /\ shutWr' /\ ~ Down =>
         outputBuffer' = << >> /\ wire' = accepted']_vars

\* A number of functors of one kind in the I/O loop's queue.
Queued(kind, q) == Cardinality({i \in DOMAIN q : q[i] = <<kind>>})

\* The write-complete callback is queued only when every byte handed to
\* sendInLoop went out, whatever was dropped or reset before.
WriteCompleteIsTrue ==
    [][Queued("writeComplete", queue') > Queued("writeComplete", queue) =>
         outputBuffer' = << >> /\ wire' = accepted']_vars

\* The high-water-mark callback is queued by exactly the sends that lift the
\* buffer from below the mark to it or above.
HighWaterOnCrossing ==
    [][(Len(outputBuffer) < HighWaterMark
          /\ Len(outputBuffer') >= HighWaterMark)
       <=> Queued("highWaterMark", queue') > Queued("highWaterMark", queue)
      ]_vars

\* The user sees a connection come up, talk, and go down once: no callback
\* before "up", none after "down".  (When only the I/O loop's own thread
\* uses the connection.)
CallbackProtocol ==
    (\A u \in Users : user[u] = Absent) =>
      calls \in {<< >>, <<"up">>, <<"up", "message">>, <<"up", "down">>,
                 <<"up", "message", "down">>}

\* A connection taken out of epoll for good, by its own close or with the
\* server, has told the user of its end: EchoServer.cc:29 wants the callback
\* "when the connection is established or closed".  The one exception is
\* tcpconnection.cc:139, a connection whose shutdown() is under way when the
\* server is destroyed.
DestroyedIsTold ==
    index = "kNew" /\ calls # << >> => Down \/ state = "kDisconnecting"

\* A connection that goes down is forgotten by the server and unregistered,
\* across the two loops (whatever a late send() then does to the channel).
DownIsDestroyed == Down /\ inMap ~> (index = "kNew" /\ ~ inMap) \/ serverGone

\* A peer that closed or reset the connection is noticed.
PeerGoneIsNoticed == peerFin \/ reset ~> Down \/ serverGone

\* shutdown() closes our side in the end, however much is still buffered,
\* if the peer keeps reading.
ShutdownSendsFin ==
    state = "kDisconnecting" ~> shutWr \/ Down \/ serverGone

\* What tcpconnection.cc:64 says of sendInLoop in state kDisconnected, "give
\* up writing".  Not true: the function goes on, and a send() that tested
\* _state before handleClose registers the closed channel again.
GivesUpWriting == state = "kDisconnected" /\ ~ serverGone => ~ isWriting
=============================================================================
