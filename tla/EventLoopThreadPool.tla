------------------------ MODULE EventLoopThreadPool ------------------------
(***************************************************************************)
(* net/eventloopthreadpool.{h,cc}, net/eventloopthread.{h,cc} and          *)
(* base/thread.cc: the thread of the server builds _numThreads threads, one *)
(* after the other, waits for each until it has published the EventLoop    *)
(* that lives on its stack, hands the loops out in turn, and at the end    *)
(* destroys the threads one after the other: it tells each loop to quit    *)
(* and joins its thread.                                                   *)
(*                                                                         *)
(* Of a loop only its life, _quit and the eventfd are kept (the rest is    *)
(* module EventLoop).  A callback in a loop may tell that loop to quit.    *)
(***************************************************************************)
EXTENDS Integers

CONSTANTS
    MaxThreads,   \* bound: the largest _numThreads
    MaxCalls      \* bound: calls of getNextLoop per loop

ASSUME PoolAssumption == MaxThreads \in Nat /\ MaxCalls \in Nat

Workers == 1 .. MaxThreads

VARIABLES
    numThreads, \* _numThreads, set by setThreadNum before start()
    base,       \* where the server's thread is
    cur,        \* the worker it starts or destroys
    thread,     \* where the thread of each worker is
    published,  \* the worker's _loop is not null
    quit,       \* _quit of its loop
    signalled,  \* the eventfd of its loop is readable
    numLoops,   \* _loops.size(): the loops of workers 1 .. numLoops
    next,       \* _next
    given,      \* history: how often each loop was handed out (0: _baseLoop)
    userQuit    \* history: workers whose loop was told to quit by a callback

poolVars == <<numThreads, numLoops, next, given>>
loopVars == <<quit, signalled>>
vars == <<base, cur, thread, published, loopVars, poolVars, userQuit>>

\* In start(): about to build the next worker, about to lock, in the wait.
Starting == {"start", "lock", "wait"}

\* In the destructors: about to read _loop, to set _quit, to write the
\* eventfd, to join.
Ending == {"dtor", "quit", "wakeup", "join"}

\* threadFunc: not started, building the EventLoop, about to publish it, to
\* call loop(), to test _quit, in epoll_wait, handling events, after loop(),
\* holding the mutex with _loop nulled, about to destroy the loop, ended.
ThreadPlaces == {"none", "init", "publish", "enter", "test", "poll", "serve",
                 "left", "locked", "unwind", "gone"}

Init ==
    /\ numThreads \in 0 .. MaxThreads
    /\ base = "start"
    /\ cur = 1
    /\ thread = [w \in Workers |-> "none"]
    /\ published = [w \in Workers |-> FALSE]
    /\ quit = [w \in Workers |-> FALSE]
    /\ signalled = [w \in Workers |-> FALSE]
    /\ numLoops = 0
    /\ next = 0
    /\ given = [w \in Workers \cup {0} |-> 0]
    /\ userQuit = {}

-----------------------------------------------------------------------------
(* The server's thread.                                                    *)

\* The body of start()'s loop up to startLoop's lock: Thread::start returns
\* once the thread runs.
StartThread ==
    /\ base = "start"
    /\ cur <= numThreads
    /\ thread' = [thread EXCEPT ![cur] = "init"]
    /\ base' = "lock"
    /\ UNCHANGED <<cur, published, loopVars, poolVars, userQuit>>

\* Mutant of StartLoopLocked: does not wait for the thread.
StartLoopNoWait ==
    /\ base = "lock"
    /\ thread[cur] # "locked"
    /\ base' = "start"
    /\ cur' = cur + 1
    /\ numLoops' = numLoops + 1
    /\ UNCHANGED <<thread, published, loopVars, numThreads, next, given,
                   userQuit>>

\* The test of startLoop's wait loop, under the mutex.
StartLoopLocked ==
    /\ base = "lock"
    /\ thread[cur] # "locked"
    /\ IF published[cur]
       THEN /\ base' = "start"
            /\ cur' = cur + 1
            /\ numLoops' = numLoops + 1
       ELSE /\ base' = "wait"
            /\ UNCHANGED <<cur, numLoops>>
    /\ UNCHANGED <<thread, published, loopVars, numThreads, next, given,
                   userQuit>>

SpuriousWakeup ==
    /\ base = "wait"
    /\ base' = "lock"
    /\ UNCHANGED <<cur, thread, published, loopVars, poolVars, userQuit>>

Started ==
    /\ base = "start"
    /\ cur > numThreads
    /\ base' = "serving"
    /\ UNCHANGED <<cur, thread, published, loopVars, poolVars, userQuit>>

\* Mutant of Advance: the index wraps one too early.
AdvanceEarly(n) == IF n + 1 >= numLoops - 1 THEN 0 ELSE n + 1

Advance(n) == IF n + 1 >= numLoops THEN 0 ELSE n + 1

GetNextLoop ==
    /\ base = "serving"
    /\ \A w \in Workers \cup {0} : given[w] < MaxCalls
    /\ IF numLoops = 0
       THEN /\ given' = [given EXCEPT ![0] = @ + 1]
            /\ UNCHANGED next
       ELSE /\ given' = [given EXCEPT ![next + 1] = @ + 1]
            /\ next' = Advance(next)
    /\ UNCHANGED <<base, cur, thread, published, loopVars, numThreads,
                   numLoops, userQuit>>

DestroyPool ==
    /\ base = "serving"
    /\ base' = "dtor"
    /\ cur' = 1
    /\ UNCHANGED <<thread, published, loopVars, poolVars, userQuit>>

\* ~EventLoopThread reads _loop without the mutex; of a null _loop it does
\* nothing more, and ~Thread detaches the thread.
DtorReadsLoop ==
    /\ base = "dtor"
    /\ cur <= numThreads
    /\ IF published[cur] THEN base' = "quit" /\ UNCHANGED cur
       ELSE cur' = cur + 1 /\ UNCHANGED base
    /\ UNCHANGED <<thread, published, loopVars, poolVars, userQuit>>

Quit ==
    /\ base = "quit"
    /\ quit' = [quit EXCEPT ![cur] = TRUE]
    /\ base' = "wakeup"
    /\ UNCHANGED <<cur, thread, published, signalled, poolVars, userQuit>>

\* Mutant of Wakeup: the eventfd is not written.
WakeupNot ==
    /\ base = "wakeup"
    /\ base' = "join"
    /\ UNCHANGED <<cur, thread, published, loopVars, poolVars, userQuit>>

Wakeup ==
    /\ base = "wakeup"
    /\ signalled' = [signalled EXCEPT ![cur] = TRUE]
    /\ base' = "join"
    /\ UNCHANGED <<cur, thread, published, quit, poolVars, userQuit>>

\* Mutant of Join: the destructor does not wait for the thread.
JoinNot ==
    /\ base = "join"
    /\ cur' = cur + 1
    /\ base' = "dtor"
    /\ UNCHANGED <<thread, published, loopVars, poolVars, userQuit>>

Join ==
    /\ base = "join"
    /\ thread[cur] = "gone"
    /\ cur' = cur + 1
    /\ base' = "dtor"
    /\ UNCHANGED <<thread, published, loopVars, poolVars, userQuit>>

-----------------------------------------------------------------------------
(* threadFunc.                                                             *)

Go(w, from, to) ==
    /\ thread[w] = from
    /\ thread' = [thread EXCEPT ![w] = to]

\* EventLoop's constructor and the init callback.
BuildLoop(w) ==
    /\ Go(w, "init", "publish")
    /\ UNCHANGED <<base, cur, published, loopVars, poolVars, userQuit>>

\* Mutant of Publish: no notify_one.
PublishSilent(w) ==
    /\ Go(w, "publish", "enter")
    /\ published' = [published EXCEPT ![w] = TRUE]
    /\ UNCHANGED <<base, cur, loopVars, poolVars, userQuit>>

Publish(w) ==
    /\ Go(w, "publish", "enter")
    /\ published' = [published EXCEPT ![w] = TRUE]
    /\ base' = IF base = "wait" /\ cur = w THEN "lock" ELSE base
    /\ UNCHANGED <<cur, loopVars, poolVars, userQuit>>

\* loop() starts with _quit = false.
EnterLoop(w) ==
    /\ Go(w, "enter", "test")
    /\ quit' = [quit EXCEPT ![w] = FALSE]
    /\ UNCHANGED <<base, cur, published, signalled, poolVars, userQuit>>

TestQuit(w) ==
    /\ Go(w, "test", IF quit[w] THEN "left" ELSE "poll")
    /\ UNCHANGED <<base, cur, published, loopVars, poolVars, userQuit>>

\* epoll_wait returns for the eventfd, for other events or its timeout.
PollReturns(w) ==
    /\ Go(w, "poll", "serve")
    /\ signalled' = [signalled EXCEPT ![w] = FALSE]
    /\ UNCHANGED <<base, cur, published, quit, poolVars, userQuit>>

UserQuits(w) ==
    /\ thread[w] = "serve"
    /\ quit' = [quit EXCEPT ![w] = TRUE]
    /\ userQuit' = userQuit \cup {w}
    /\ UNCHANGED <<base, cur, thread, published, signalled, poolVars>>

Served(w) ==
    /\ Go(w, "serve", "test")
    /\ UNCHANGED <<base, cur, published, loopVars, poolVars, userQuit>>

\* The lock is released before the loop, an earlier local, is destroyed.
Unpublish(w) ==
    /\ Go(w, "left", "locked")
    /\ published' = [published EXCEPT ![w] = FALSE]
    /\ UNCHANGED <<base, cur, loopVars, poolVars, userQuit>>

Unlock(w) ==
    /\ Go(w, "locked", "unwind")
    /\ UNCHANGED <<base, cur, published, loopVars, poolVars, userQuit>>

DestroyLoop(w) ==
    /\ Go(w, "unwind", "gone")
    /\ UNCHANGED <<base, cur, published, loopVars, poolVars, userQuit>>

-----------------------------------------------------------------------------
BaseStep ==
    \/ StartThread
    \/ StartLoopLocked
    \/ Started
    \/ DtorReadsLoop
    \/ Quit
    \/ Wakeup
    \/ Join

\* What threadFunc does by itself; epoll_wait returns if the eventfd says so.
WorkerStep(w) ==
    \/ BuildLoop(w)
    \/ Publish(w)
    \/ EnterLoop(w)
    \/ TestQuit(w)
    \/ signalled[w] /\ PollReturns(w)
    \/ Served(w)
    \/ Unpublish(w)
    \/ Unlock(w)
    \/ DestroyLoop(w)

Next ==
    \/ BaseStep
    \/ SpuriousWakeup
    \/ GetNextLoop
    \/ DestroyPool
    \/ \E w \in Workers : WorkerStep(w) \/ PollReturns(w) \/ UserQuits(w)

Spec == Init /\ [][Next]_vars

\* Every thread goes on with what it can do: the server's thread inside
\* start() and the destructors, the workers inside threadFunc.
FairSpec ==
    /\ Spec
    /\ WF_vars(BaseStep)
    /\ \A w \in Workers : WF_vars(WorkerStep(w))

-----------------------------------------------------------------------------
(* Properties.                                                             *)

\* Every variable holds a value of its C++ type, and _next is an index of
\* _loops.
TypeOK ==
    /\ numThreads \in 0 .. MaxThreads
    /\ base \in Starting \cup {"serving"} \cup Ending
    /\ cur \in 1 .. numThreads + 1
    /\ base \notin {"start", "serving", "dtor"} => cur <= numThreads
    /\ thread \in [Workers -> ThreadPlaces]
    /\ published \in [Workers -> BOOLEAN]
    /\ quit \in [Workers -> BOOLEAN]
    /\ signalled \in [Workers -> BOOLEAN]
    /\ numLoops \in 0 .. numThreads
    /\ next \in Nat /\ (next = 0 \/ next < numLoops)
    /\ given \in [Workers \cup {0} -> Nat]
    /\ userQuit \subseteq Workers

LoopExists(w) == thread[w] \notin {"none", "init", "gone"}

\* The workers whose EventLoopThread object has been destroyed.
Destroyed == IF base \in Ending THEN 1 .. cur - 1 ELSE {}

\* getNextLoop shares the calls out evenly: no two loops differ by more than
\* one call, and the server's own loop gets none once there are others.
SharedOutEvenly ==
    /\ \A v, w \in 1 .. numLoops : given[v] <= given[w] + 1
    /\ base = "serving" /\ numLoops > 0 => given[0] = 0

\* A loop is in _loops only when it exists and its thread is in threadFunc's
\* last part, unless a callback has told it to quit.
LoopsAreLive ==
    base = "serving" =>
        \A w \in 1 .. numLoops \ userQuit : LoopExists(w) /\ published[w]

\* No thread is inside threadFunc of an EventLoopThread that is destroyed,
\* unless a callback had told its loop to quit.
NoUseAfterDestroy == \A w \in Destroyed \ userQuit : thread[w] = "gone"

\* The calls so far: the workers before _next have had one more.
TurnsTaken ==
    /\ base \in Starting => next = 0 /\ given = [w \in Workers \cup {0} |-> 0]
    /\ numLoops > 0 =>
         /\ given[0] = 0
         /\ \A w \in 1 .. numLoops :
              given[w] = given[numLoops] + (IF w <= next THEN 1 ELSE 0)

\* Where the worker's thread is, as far as start() tells: past the
\* publication, not started, or in between.
InStep(w) ==
    /\ w <= numLoops => thread[w] \notin {"none", "init", "publish"}
    /\ base \in Starting /\ (w > cur \/ (w = cur /\ base = "start")) =>
         thread[w] = "none"
    /\ published[w] <=>
         thread[w] \in {"enter", "test", "poll", "serve", "left"}

StartedInOrder ==
    /\ numLoops = IF base \in Starting THEN cur - 1 ELSE numThreads
    /\ \A w \in Workers : InStep(w)

\* The destructors have called quit() on the worker's loop.
Told(w) ==
    /\ base \in Ending
    /\ w < cur \/ (w = cur /\ base \in {"wakeup", "join"})

\* A loop ends only when it was told to, by the user or by a destructor.
EndsWhenTold ==
    \A w \in Workers \ userQuit :
        (quit[w] \/ thread[w] \in {"left", "locked", "unwind", "gone"}) => Told(w)

\* The inductive invariant behind SharedOutEvenly, LoopsAreLive and
\* NoUseAfterDestroy.
IInv ==
    /\ TypeOK
    /\ TurnsTaken
    /\ StartedInOrder
    /\ EndsWhenTold
    /\ NoUseAfterDestroy

\* start() returns, whatever the order of the waits and the notifications,
\* unless a callback tells a loop to quit.
StartReturns == base \in Starting ~> base = "serving" \/ userQuit # {}

\* The destructor that calls quit() once loop() has been entered joins the
\* thread and returns: with or without quits of the user, in whatever place
\* the loop is.
QuitThenJoined ==
    \A w \in Workers :
        base = "quit" /\ cur = w /\ thread[w] # "enter" ~> w \in Destroyed

\* What net/eventloop.h:34 says of wakeup(), "wakes the thread of the loop
\* through the eventfd".  Not true in ~EventLoopThread: a loop that sees
\* _quit by itself is destroyed, and its eventfd closed, before the write.
WakeupReachesLoop == base = "wakeup" /\ userQuit = {} => LoopExists(cur)
=============================================================================
