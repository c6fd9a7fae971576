----------------------------- MODULE TcpServer -----------------------------
(***************************************************************************)
(* net/tcpserver.{h,cc} and net/acceptor.{h,cc}: a server with all its     *)
(* connections, its own loop and those of its pool, from start() to the    *)
(* end of ~TcpServer, and the life of the objects it builds.               *)
(*                                                                         *)
(* A TcpConnection lives as long as a TcpConnectionPtr to it does: in the  *)
(* map; bound in a functor that is queued or stands in the vector of       *)
(* doPendingFunctors, which keeps its functors until all have run; or with *)
(* a thread of the user that copied it in a callback.  When the last one   *)
(* goes the destructor runs and ~Socket closes the fd.  Nothing else keeps *)
(* it: what epoll reported is a raw Channel pointer, and what send() and   *)
(* shutdown() of other threads queue holds a raw this.                     *)
(*                                                                         *)
(* Each loop does what module EventLoop shows in detail.  Of a connection  *)
(* only its beginning and end are here, and what other threads do to them; *)
(* TcpConnection has the rest.  The log's writer thread (module Logger) is *)
(* here for the descriptor it takes out of the same limited number.        *)
(***************************************************************************)
EXTENDS Integers, FiniteSets, SequencesExt

CONSTANTS
    BaseLoop,    \* the server's loop
    Pools,       \* values of _threadPool's _loops to explore
    Users,       \* threads that are no loop's, and may keep a connection
    FdLimits,    \* values of maxFds to explore
    NameWidth,   \* number of different values of _nextConnId
    MaxAccepts   \* bound: peers that connect

IoLoops == UNION {Range(p) : p \in Pools}
Loops == {BaseLoop} \cup IoLoops

ASSUME TcpServerAssumption ==
    /\ \A p \in Pools : p \in Seq(Range(p)) /\ IsInjective(p)
    /\ BaseLoop \notin IoLoops
    /\ FdLimits \subseteq Nat
    /\ NameWidth \in Nat \ {0}
    /\ MaxAccepts \in Nat

VARIABLES
    pool,         \* the pool's loops
    next,         \* its _next, counted from 1
    maxFds,       \* descriptors there are for connections and the log
    nextConnId,   \* _nextConnId
    connections,  \* _connections: by name, the connection or NoConn
    server,       \* what the server's thread does with the server
    told,         \* loops of the pool that ~EventLoopThread has told to quit
    acceptIndex,  \* the index of the acceptor's channel
    backlog,      \* peers that wait to be accepted
    conn,         \* the TcpConnections, in the order of their construction
    user,         \* what each other thread does, and the connection it keeps
    place,        \* where each loop is
    quit,         \* _quit of each loop
    active,       \* _activeChannels still to be handled
    queue,        \* _pendingFunctors
    batch,        \* the functors that doPendingFunctors has still to run
    held,         \* the connections that functors already run still hold
    logFile       \* where the log's writer is: its file is open, closed, or
                  \* it has ended the process

mapVars    == <<nextConnId, connections>>
poolVars   == <<pool, next, maxFds>>
serverVars == <<poolVars, server, told>>
tcpVars    == <<conn, user>>
acceptVars == <<acceptIndex, backlog>>
iterVars   == <<active, queue, batch, held>>
loopVars   == <<place, quit, iterVars>>
vars == <<serverVars, mapVars, acceptVars, tcpVars, loopVars, logFile>>

Names == 0 .. NameWidth - 1
Conns == DOMAIN conn
NoConn == 0
Acceptor == 0  \* its channel, among those that are the connections'
Outside == <<"outside", NoConn>>  \* another thread that keeps no connection

\* Construction of the server, in the thread of its loop; the id starts at 1.
Init ==
    /\ pool \in Pools
    /\ next = 1
    /\ maxFds \in FdLimits
    /\ nextConnId = 1 % NameWidth
    /\ connections = [n \in Names |-> NoConn]
    /\ server = "built"
    /\ acceptIndex = "kNew"
    /\ backlog = 0
    /\ told = 0
    /\ conn = << >>
    /\ user = [u \in Users |-> Outside]
    /\ place = [l \in Loops |-> "none"]
    /\ quit = [l \in Loops |-> FALSE]
    /\ active = [l \in Loops |-> {}]
    /\ queue = [l \in Loops |-> << >>]
    /\ batch = [l \in Loops |-> << >>]
    /\ held = [l \in Loops |-> {}]
    /\ logFile = "open"

-----------------------------------------------------------------------------
(* Who holds a connection.                                                 *)

\* Bound with this, not with shared_from_this().
IsRaw(functor) == functor[1] \in {"sendInLoop", "shutdownInLoop"}

InFunctors(q) == {functor[2] : functor \in {f \in Range(q) : ~ IsRaw(f)}}

KeptByUser(c) == \E u \in Users : user[u][2] = c

\* The connections that are referenced, and so alive.
Alive ==
    (Range(connections) \ {NoConn})
      \cup {c \in Conns : KeptByUser(c)}
      \cup UNION {InFunctors(queue[l]) \cup InFunctors(batch[l]) \cup held[l]
                    : l \in Loops}

FreeFds ==
    maxFds - Cardinality(Alive) - (IF logFile = "open" THEN 1 ELSE 0)

-----------------------------------------------------------------------------
(* Handlers.  Each is about connection c and runs in loop l.               *)

Queue(l, functor) == queue' = [queue EXCEPT ![l] = Append(@, functor)]

\* connectEstablished, on the object.
Established(tcp) ==
    [tcp EXCEPT !.state = "kConnected", !.index = "kAdded",
                !.callbacks = Append(@, "up")]

\* Mutant of Destroyed: makes the callback whatever the state is.
DestroyedAlways(tcp) ==
    [tcp EXCEPT !.state = "kDisconnected", !.index = "kNew",
                !.callbacks = Append(@, "down")]

\* connectDestroyed, on the object: no callback in state kDisconnecting.
Destroyed(tcp) ==
    IF tcp.state = "kConnected"
    THEN [tcp EXCEPT !.state = "kDisconnected", !.index = "kNew",
                     !.callbacks = Append(@, "down")]
    ELSE [tcp EXCEPT !.index = "kNew"]

\* handleClose, on the object.
Closed(tcp) ==
    [tcp EXCEPT !.state = "kDisconnected", !.index = "kDeleted",
                !.callbacks = Append(@, "down")]

\* shutdown(), on the object.
ShutDown(tcp) == [tcp EXCEPT !.state = "kDisconnecting"]

\* sendInLoop that leaves bytes in the buffer, on the object.  It goes on in
\* state kDisconnected: a channel that had left epoll is registered again.
Buffered(tcp) ==
    [tcp EXCEPT !.index = "kAdded",
                !.revived = @ \/ tcp.index # "kAdded"]

\* handleWrite that empties the buffer of a channel that wants nothing else,
\* on the object.
Drained(tcp) == [tcp EXCEPT !.index = "kDeleted"]

\* Mutant of DestroysInLoop: the server only forgets the connection.
ForgetsInLoop(c) == UNCHANGED queue

DestroysInLoop(c) == Queue(conn[c].loop, <<"connectDestroyed", c>>)

\* removeConnectionInLoop.
RemoveConnectionInLoop(c) ==
    /\ connections' = [connections EXCEPT ![conn[c].name] = NoConn]
    /\ DestroysInLoop(c)

\* handleClose, and through the close callback removeConnection.
HandleClose(c, l) ==
    /\ conn' = [conn EXCEPT ![c] = Closed(@)]
    /\ IF l = BaseLoop
       THEN RemoveConnectionInLoop(c)
       ELSE /\ Queue(BaseLoop, <<"removeConnectionInLoop", c>>)
            /\ UNCHANGED connections
    /\ UNCHANGED <<nextConnId, next, backlog>>

\* getNextLoop.
NextLoop == IF pool = << >> THEN BaseLoop ELSE pool[next]

\* Mutant of Advance: wraps one too late.
AdvanceTooFar ==
    next' = IF pool = << >> THEN next ELSE IF next > Len(pool) THEN 1 ELSE next + 1

Advance ==
    next' = IF pool = << >> THEN next ELSE IF next = Len(pool) THEN 1 ELSE next + 1

\* Mutant of NextId: the increment is forgotten.
SameId == nextConnId

NextId == (nextConnId + 1) % NameWidth

NewConnection ==
    LET l == NextLoop
        c == Len(conn) + 1
        tcp == [name |-> nextConnId, loop |-> l, state |-> "kConnecting",
                index |-> "kNew", peerGone |-> FALSE, callbacks |-> << >>,
                revived |-> FALSE]
    IN  /\ nextConnId' = NextId
        /\ Advance
        /\ connections' = [connections EXCEPT ![nextConnId] = c]
        /\ IF l = BaseLoop
           THEN /\ conn' = Append(conn, Established(tcp))
                /\ UNCHANGED queue
           ELSE /\ conn' = Append(conn, tcp)
                /\ Queue(l, <<"connectEstablished", c>>)

\* Socket::accept: without a descriptor it fails with EMFILE.
Accepted == FreeFds > 0

\* Acceptor::handleRead: a failed accept is only logged.
HandleAccept ==
    IF Accepted
    THEN NewConnection /\ backlog' = backlog - 1
    ELSE UNCHANGED <<conn, queue, mapVars, next, backlog>>

RunFunctorOf(functor) ==
    LET c == functor[2]
    IN  \/ /\ functor[1] = "connectEstablished"
           /\ conn' = [conn EXCEPT ![c] = Established(@)]
           /\ UNCHANGED <<queue, connections>>
        \/ /\ functor[1] = "connectDestroyed"
           /\ conn' = [conn EXCEPT ![c] = Destroyed(@)]
           /\ UNCHANGED <<queue, connections>>
        \/ /\ functor[1] = "removeConnectionInLoop"
           /\ RemoveConnectionInLoop(c)
           /\ UNCHANGED conn
        \/ /\ functor[1] = "sendInLoop"
           /\ conn' = [conn EXCEPT ![c] = Buffered(@)] \/ UNCHANGED conn
           /\ UNCHANGED <<queue, connections>>
        \/ /\ functor[1] = "shutdownInLoop"
           /\ UNCHANGED <<conn, queue, connections>>

-----------------------------------------------------------------------------
(* A loop.                                                                 *)

\* The connections of loop l in its epoll set: closing the fd removes it.
Registered(l) ==
    {c \in Conns \cap Alive : conn[c].loop = l /\ conn[c].index = "kAdded"}

\* The channels of loop l that a level-triggered epoll reports.
Ready(l) ==
    {c \in Registered(l) : conn[c].peerGone /\ ~ conn[c].revived}
      \cup (IF l = BaseLoop /\ acceptIndex = "kAdded" /\ backlog > 0
            THEN {Acceptor} ELSE {})

\* Those that it reports if they can be written, or have failed.
Writable(l) == {c \in Registered(l) : conn[c].revived}

\* Mutant of Woken: quit() does not write the eventfd.
WokenByQueueOnly(l) == queue[l] # << >>

\* The eventfd was written, by queueInLoop or by quit.
Woken(l) == queue[l] # << >> \/ quit[l]

\* epoll_wait returns.
Poll(l) ==
    /\ place[l] = "poll"
    /\ \E written \in SUBSET Writable(l) :
         LET found == Ready(l) \cup written
         IN  /\ found # {} \/ Woken(l)
             /\ active' = [active EXCEPT ![l] = found]
    /\ place' = [place EXCEPT ![l] = "events"]
    /\ UNCHANGED <<serverVars, mapVars, acceptVars, tcpVars, quit, queue,
                   batch, held, logFile>>

\* handleEvent of connection c: handleClose once the peer has left, or
\* handleWrite of what a late sendInLoop buffered.
HandleConnection(c, l) ==
    \/ conn[c].peerGone /\ HandleClose(c, l)
    \/ /\ conn[c].revived
       /\ conn' = [conn EXCEPT ![c] = Drained(@)] \/ UNCHANGED conn
       /\ UNCHANGED <<queue, mapVars, next, backlog>>

\* handleEvent of one of the channels, in whatever order epoll gave them.
HandleEvent(l) ==
    /\ place[l] = "events"
    /\ \E channel \in active[l] :
         /\ active' = [active EXCEPT ![l] = @ \ {channel}]
         /\ IF channel = Acceptor
            THEN HandleAccept ELSE HandleConnection(channel, l)
    /\ UNCHANGED <<pool, maxFds, server, told, acceptIndex, user, place, quit,
                   batch, held, logFile>>

\* doPendingFunctors: the swap.
SwapFunctors(l) ==
    /\ place[l] = "events"
    /\ active[l] = {}
    /\ batch' = [batch EXCEPT ![l] = queue[l]]
    /\ queue' = [queue EXCEPT ![l] = << >>]
    /\ place' = [place EXCEPT ![l] = "functors"]
    /\ UNCHANGED <<serverVars, mapVars, acceptVars, tcpVars, quit, active,
                   held, logFile>>

\* One functor runs, and stays in the vector with what it holds.
RunFunctor(l) ==
    /\ place[l] = "functors"
    /\ batch[l] # << >>
    /\ RunFunctorOf(Head(batch[l]))
    /\ batch' = [batch EXCEPT ![l] = Tail(@)]
    /\ held' = [held EXCEPT ![l] = @ \cup InFunctors(<<Head(batch[l])>>)]
    /\ UNCHANGED <<serverVars, nextConnId, acceptVars, user, place, quit,
                   active, logFile>>

\* Mutant of Release: the vector keeps its functors.
ReleaseNothing(l) == UNCHANGED held

\* The vector goes out of scope, and what its functors held with it.
Release(l) == held' = [held EXCEPT ![l] = {}]

\* The end of doPendingFunctors, then the test of _quit.  A loop of the pool
\* that ends is destroyed with its queue; the server's outlives the server.
EndFunctors(l) ==
    /\ place[l] = "functors"
    /\ batch[l] = << >>
    /\ Release(l)
    /\ place' = [place EXCEPT ![l] = IF quit[l] THEN "ended" ELSE "poll"]
    /\ queue' = IF quit[l] /\ l # BaseLoop
                THEN [queue EXCEPT ![l] = << >>] ELSE queue
    /\ UNCHANGED <<serverVars, mapVars, acceptVars, tcpVars, quit, active,
                   batch, logFile>>

\* loop() clears _quit: a quit() that came before it is forgotten.
Entered(l) == quit' = [quit EXCEPT ![l] = FALSE]

\* The thread of a loop that others know already reaches loop().
EnterLoop(l) ==
    /\ place[l] = "starting"
    /\ place' = [place EXCEPT ![l] = "poll"]
    /\ Entered(l)
    /\ UNCHANGED <<serverVars, mapVars, acceptVars, tcpVars, iterVars, logFile>>

LoopStep(l) ==
    \/ EnterLoop(l)
    \/ Poll(l)
    \/ HandleEvent(l)
    \/ SwapFunctors(l)
    \/ RunFunctor(l)
    \/ EndFunctors(l)

-----------------------------------------------------------------------------
(* The thread of the server's loop, before and after loop().               *)

\* Mutant of Listen: does not enable reading.
ListenDeaf == UNCHANGED acceptIndex

\* Acceptor::listen.
Listen == acceptIndex' = "kAdded"

\* start(): every thread of the pool has shown its loop, none need have got
\* to loop() yet, nor has the server's; the acceptor listens.
Start ==
    /\ server = "built"
    /\ server' = "started"
    /\ Listen
    /\ place' = [l \in Loops |-> IF l \in {BaseLoop} \cup Range(pool)
                                 THEN "starting" ELSE "none"]
    /\ UNCHANGED <<poolVars, told, mapVars, backlog, tcpVars, quit, iterVars,
                   logFile>>

\* Something ends the server's loop, and main goes on to ~TcpServer.
UserQuits ==
    /\ place[BaseLoop] # "none"
    /\ ~ quit[BaseLoop]
    /\ quit' = [quit EXCEPT ![BaseLoop] = TRUE]
    /\ UNCHANGED <<serverVars, mapVars, acceptVars, tcpVars, place, iterVars,
                   logFile>>

\* Mutant of InItsLoop: does not ask which loop it is in.
InAnyLoop(c) == TRUE

\* runInLoop of the thread of the server's loop.
InItsLoop(c) == conn[c].loop = BaseLoop

\* ~TcpServer, one connection of the map: connectDestroyed runs at once or
\* is queued, and the map's pointer is reset.
DestroyConnection ==
    /\ server = "started"
    /\ place[BaseLoop] = "ended"
    /\ \E n \in Names :
         LET c == connections[n]
         IN  /\ c # NoConn
             /\ connections' = [connections EXCEPT ![n] = NoConn]
             /\ IF InItsLoop(c)
                THEN /\ conn' = [conn EXCEPT ![c] = Destroyed(@)]
                     /\ UNCHANGED queue
                ELSE /\ DestroysInLoop(c)
                     /\ UNCHANGED conn
    /\ UNCHANGED <<serverVars, nextConnId, acceptVars, user, place, quit,
                   active, batch, held, logFile>>

\* ~EventLoopThread of the next loop of the pool, once the one before was
\* joined.
QuitLoop ==
    /\ server = "started"
    /\ place[BaseLoop] = "ended"
    /\ \A n \in Names : connections[n] = NoConn
    /\ told < Len(pool)
    /\ \A i \in 1 .. told : place[pool[i]] = "ended"
    /\ told' = told + 1
    /\ quit' = [quit EXCEPT ![pool[told + 1]] = TRUE]
    /\ UNCHANGED <<poolVars, server, mapVars, acceptVars, tcpVars, place,
                   iterVars, logFile>>

\* Mutant of Joined: the loops are told to end, and not waited for.
NotJoined == told = Len(pool)

Joined == \A i \in DOMAIN pool : place[pool[i]] = "ended"

\* The pool is joined; ~Acceptor: disableAll and remove.
ServerGone ==
    /\ server = "started"
    /\ place[BaseLoop] = "ended"
    /\ \A n \in Names : connections[n] = NoConn
    /\ Joined
    /\ acceptIndex' = "kNew"
    /\ server' = "gone"
    /\ UNCHANGED <<poolVars, told, mapVars, backlog, tcpVars, loopVars, logFile>>

\* ~EventLoop of the server's loop, with the functors nobody will run.
BaseLoopGone ==
    /\ server = "gone"
    /\ queue[BaseLoop] # << >>
    /\ queue' = [queue EXCEPT ![BaseLoop] = << >>]
    /\ UNCHANGED <<serverVars, mapVars, acceptVars, tcpVars, place, quit,
                   active, batch, held, logFile>>

ServerStep == DestroyConnection \/ QuitLoop \/ ServerGone \/ BaseLoopGone

-----------------------------------------------------------------------------
(* The user: shutdown() in a callback, and other threads' calls.           *)

IsRunning(l) == place[l] \notin {"none", "ended"}

\* shutdown() in a callback of the connection's own loop.
CallbackShutdown ==
    /\ \E c \in Conns :
         /\ IsRunning(conn[c].loop)
         /\ conn[c].state = "kConnected"
         /\ conn' = [conn EXCEPT ![c] = ShutDown(@)]
    /\ UNCHANGED <<serverVars, mapVars, acceptVars, user, loopVars, logFile>>

\* Another thread is given the pointer by a callback of a registered channel.
Take(u) ==
    /\ user[u] = Outside
    /\ \E l \in Loops :
         /\ IsRunning(l)
         /\ \E c \in Registered(l) : user' = [user EXCEPT ![u] = <<"keeps", c>>]
    /\ UNCHANGED <<serverVars, mapVars, acceptVars, conn, loopVars, logFile>>

\* A functor with a raw pointer to c waits in its loop.
RawPending(c) ==
    \E functor \in Range(queue[conn[c].loop] \o batch[conn[c].loop]) :
      IsRaw(functor) /\ functor[2] = c

\* What is asked of the thread: it keeps its pointer until the functors that
\* hold a raw one have run.
Drop(u) ==
    /\ user[u][1] = "keeps"
    /\ ~ RawPending(user[u][2])
    /\ user' = [user EXCEPT ![u] = Outside]
    /\ UNCHANGED <<serverVars, mapVars, acceptVars, conn, loopVars, logFile>>

\* send() or shutdown(), the test of _state.  Bound: not while a functor of
\* an earlier call waits.
CallTest(u, step) ==
    LET c == user[u][2]
    IN  /\ user[u][1] = "keeps"
        /\ conn[c].state = "kConnected"
        /\ ~ RawPending(c)
        /\ user' = [user EXCEPT ![u] = <<step, c>>]
        /\ UNCHANGED <<serverVars, mapVars, acceptVars, conn, loopVars, logFile>>

\* shutdown(), the assignment of _state, whatever it is by now.
SetState(u) ==
    LET c == user[u][2]
    IN  /\ user[u][1] = "setState"
        /\ conn' = [conn EXCEPT ![c] = ShutDown(@)]
        /\ user' = [user EXCEPT ![u] = <<"shutdownInLoop", c>>]
        /\ UNCHANGED <<serverVars, mapVars, acceptVars, loopVars, logFile>>

\* The EventLoop that _loop points to is there.
LoopExists(l) == IF l = BaseLoop THEN server # "gone" ELSE place[l] # "ended"

\* runInLoop of another thread.  A thread that is still in the call when the
\* loop is destroyed is not followed.
QueueInLoop(u) ==
    LET c == user[u][2]
    IN  /\ IsRaw(user[u])
        /\ LoopExists(conn[c].loop)
        /\ Queue(conn[c].loop, user[u])
        /\ user' = [user EXCEPT ![u] = <<"keeps", c>>]
        /\ UNCHANGED <<serverVars, mapVars, acceptVars, conn, place, quit,
                       active, batch, held, logFile>>

UserStep(u) ==
    \/ Take(u)
    \/ Drop(u)
    \/ CallTest(u, "sendInLoop")
    \/ CallTest(u, "setState")
    \/ SetState(u)
    \/ QueueInLoop(u)

-----------------------------------------------------------------------------
(* The peers, and the log.                                                 *)

\* A name has not come round again while its connection lives (with 32 bits
\* that would take a connection older than 2^32 others).
PeerConnects ==
    /\ server = "started"
    /\ Len(conn) + backlog < MaxAccepts
    /\ LET previous == Len(conn) + backlog + 1 - NameWidth
       IN  previous > 0 => previous \in Conns \ Alive
    /\ backlog' = backlog + 1
    /\ UNCHANGED <<serverVars, mapVars, acceptIndex, tcpVars, loopVars, logFile>>

PeerCloses ==
    /\ \E c \in Conns :
         /\ ~ conn[c].peerGone
         /\ conn' = [conn EXCEPT ![c].peerGone = TRUE]
    /\ UNCHANGED <<serverVars, mapVars, acceptVars, user, loopVars, logFile>>

\* The writer has written a line and closes the file.
LogCloses ==
    /\ logFile = "open"
    /\ logFile' = "closed"
    /\ UNCHANGED <<serverVars, mapVars, acceptVars, tcpVars, loopVars>>

\* It opens the file again for the next line: exit() if it cannot.
LogOpens ==
    /\ logFile = "closed"
    /\ logFile' = IF FreeFds > 0 THEN "open" ELSE "exited"
    /\ UNCHANGED <<serverVars, mapVars, acceptVars, tcpVars, loopVars>>

-----------------------------------------------------------------------------
\* What loops have in hand is there: after a call of a destroyed channel the
\* behaviour is undefined, and not followed.
ActiveExist == \A l \in Loops : active[l] \ {Acceptor} \subseteq Alive

Running == logFile # "exited" /\ ActiveExist

Next ==
    /\ Running
    /\ \/ \E l \in Loops : LoopStep(l)
       \/ Start
       \/ UserQuits
       \/ ServerStep
       \/ CallbackShutdown
       \/ \E u \in Users : UserStep(u)
       \/ PeerConnects
       \/ PeerCloses
       \/ LogCloses
       \/ LogOpens

Spec == Init /\ [][Next]_vars

(***************************************************************************)
(* Threads run on: each loop with what epoll and its queue give it, and    *)
(* the server's thread through the destructors.  Nothing obliges anybody   *)
(* to start or quit the server, a peer to come or to go, or the log to be  *)
(* written to.                                                             *)
(***************************************************************************)
FairSpec ==
    /\ Spec
    /\ \A l \in Loops : WF_vars(Running /\ LoopStep(l))
    /\ WF_vars(Running /\ ServerStep)
    /\ WF_vars(Running /\ LogOpens)

-----------------------------------------------------------------------------
(* Properties.                                                             *)

Functors ==
    {"connectEstablished", "connectDestroyed", "removeConnectionInLoop",
     "sendInLoop", "shutdownInLoop"} \X (1 .. MaxAccepts)

Connections ==
    [name : Names, loop : Loops,
     state : {"kConnecting", "kConnected", "kDisconnecting", "kDisconnected"},
     index : {"kNew", "kAdded", "kDeleted"}, peerGone : BOOLEAN,
     callbacks : Seq({"up", "down"}), revived : BOOLEAN]

\* Every variable has its type; _next is an index of the pool's loops.
TypeOK ==
    /\ pool \in Pools
    /\ next \in 1 .. IF pool = << >> THEN 1 ELSE Len(pool)
    /\ maxFds \in FdLimits
    /\ nextConnId \in Names
    /\ connections \in [Names -> {NoConn} \cup Conns]
    /\ server \in {"built", "started", "gone"}
    /\ told \in 0 .. Len(pool)
    /\ acceptIndex \in {"kNew", "kAdded"}
    /\ backlog \in 0 .. MaxAccepts
    /\ conn \in Seq(Connections)
    /\ Len(conn) <= MaxAccepts
    /\ user \in [Users -> {Outside} \cup
                    {"keeps", "sendInLoop", "setState", "shutdownInLoop"} \X Conns]
    /\ place \in [Loops -> {"none", "starting", "poll", "events", "functors",
                            "ended"}]
    /\ quit \in [Loops -> BOOLEAN]
    /\ active \in [Loops -> SUBSET ({Acceptor} \cup Conns)]
    /\ queue \in [Loops -> Seq(Functors)]
    /\ batch \in [Loops -> Seq(Functors)]
    /\ held \in [Loops -> SUBSET Conns]
    /\ logFile \in {"open", "closed", "exited"}

\* Between epoll_wait and handleEvent a loop holds raw Channel pointers: no
\* connection is freed meanwhile, by whichever thread drops its last pointer,
\* unless a late send() had registered it again behind the server's back.
NoDeadChannelIsActive ==
    \A l \in Loops : \A c \in active[l] \ {Acceptor} :
      c \in Alive \/ conn[c].revived

\* A connection is freed only after it was taken out of its poller, or when
\* the loop with that poller has ended, or after a late send().
FreedIsUnregistered ==
    \A c \in Conns \ Alive :
      \/ conn[c].index = "kNew"
      \/ place[conn[c].loop] = "ended"
      \/ conn[c].revived

IsDown(c) == "down" \in Range(conn[c].callbacks)

\* While the server's loop runs, every connection that the user was not told
\* is down is in the map under its own name, for ~TcpServer to find, whoever
\* calls shutdown() and send() on it.
ServerKnowsConnections ==
    place[BaseLoop] # "ended" =>
      \A c \in Conns : ~ IsDown(c) => connections[conn[c].name] = c

\* Close callbacks and removeConnectionInLoop hold a raw TcpServer pointer:
\* once the server is gone no loop that still runs can make such a call.
NoCallerOfDeadServer ==
    server = "gone" =>
      \A l \in Loops : IsRunning(l) =>
        /\ \A c \in Conns : conn[c].loop = l => conn[c].index # "kAdded"
        /\ \A functor \in Range(queue[l] \o batch[l]) :
             functor[1] # "removeConnectionInLoop"

\* The life of a connection as its user sees it.
LifeOf(c) ==
    IF c \notin Conns THEN "none"
    ELSE CASE conn[c].callbacks = << >> ->
                IF c \in Alive THEN "built" ELSE "lost"
           [] conn[c].callbacks = <<"up">> ->
                IF c \in Alive THEN "up" ELSE "lost"
           [] conn[c].callbacks = <<"up", "down">> ->
                IF c \in Alive THEN "down" ELSE "freed"
           [] OTHER -> "mistold"

Life(c) == INSTANCE ConnectionLife WITH
             life <- LifeOf(c),
             ending <- place[BaseLoop] = "ended",
             loopEnded <- /\ c \in Conns
                          /\ conn[c].loop # BaseLoop
                          /\ place[conn[c].loop] = "ended",
             shutDown <- c \in Conns /\ conn[c].state = "kDisconnecting",
             late <- c \in Conns /\ conn[c].revived

\* Each connection is told up and down in order, once, and freed then: across
\* its close, shutdown(), the server's destructor, and all at the same time.
\* Only ~TcpServer loses one, and only if its loop ends before it ran its
\* queue or if shutdown() was called; only a late send() has one told twice.
ImplementsConnectionLife ==
    /\ \A c \in 1 .. MaxAccepts : Life(c)!Init
    /\ [][\A c \in 1 .. MaxAccepts : Life(c)!Next]_vars

\* Some loop was told to quit before it got to loop(), and has forgotten it.
QuitLost == \E i \in 1 .. told : ~ quit[pool[i]]

\* A connection whose peer left is freed in the end, and its descriptor
\* closed: no pointer to it stays behind but that of a user's thread, or in
\* the queue of a server whose destructor hangs.
ClosedIsFreed ==
    \A c \in 1 .. MaxAccepts :
      c \in Conns /\ conn[c].peerGone
        ~> c \notin Alive \/ KeptByUser(c) \/ QuitLost \/ ~ Running

Accepting == IsRunning(BaseLoop) /\ ~ quit[BaseLoop]

\* Peers do not wait for ever while there are descriptors: an accept that
\* failed for want of one is tried again.
PeersAreAccepted ==
    []<>(backlog = 0 \/ FreeFds = 0 \/ ~ Accepting \/ ~ Running)

\* ~TcpServer returns: it waits only for loops that end, unless its quit()
\* came before loop() and was forgotten.
DestructorReturns ==
    place[BaseLoop] = "ended" ~> server = "gone" \/ QuitLost \/ ~ Running
=============================================================================
