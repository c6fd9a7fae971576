----------------------------- MODULE EventLoop -----------------------------
(***************************************************************************)
(* net/eventloop.{h,cc}: one event loop, the thread that owns it and the   *)
(* threads that hand it work.  The owner blocks in epoll_wait; a thread    *)
(* that queues a functor pushes it under the mutex and then, in a separate *)
(* step, writes the eventfd that makes epoll_wait return.  Everything a    *)
(* callback or a functor may do to its loop (queueInLoop, runInLoop, quit) *)
(* it may do here, any number of times.                                    *)
(*                                                                         *)
(* Channels of connections and acceptors are only names: what matters to   *)
(* the loop is that epoll may report any of them at any time.              *)
(***************************************************************************)
EXTENDS Naturals, Sequences, Functions

CONSTANTS
    Owner,          \* the thread that built the loop (_threadId)
    Callers,        \* the other threads that hold a pointer to the loop
    Functors,       \* functor objects, one per runInLoop/queueInLoop call
    EarlyFunctors,  \* the functors the owner queues before it calls loop()
    Channels,       \* the channels registered with the poller besides ...
    WakeupChannel,  \* ... _wakeupChannel, the one that reads the eventfd
    EventfdMax      \* largest value of the eventfd counter, 2^64 - 2

ASSUME EventLoopAssumption ==
    /\ Owner \notin Callers
    /\ EarlyFunctors \subseteq Functors
    /\ WakeupChannel \notin Channels
    /\ EventfdMax \in Nat \ {0}

VARIABLES
    pc,                      \* where the owner is in loop()
    quit,                    \* _quit
    pendingFunctors,         \* _pendingFunctors, guarded by _mutex
    callingPendingFunctors,  \* _callingPendingFunctors
    functors,                \* doPendingFunctors' local batch, what is left
    activeChannels,          \* _activeChannels, those not yet handled
    wakeupFd,                \* the counter in the kernel behind _wakeupFd
    waking,                  \* threads about to call wakeup()
    ran                      \* every functor called so far, in order

vars == <<pc, quit, pendingFunctors, callingPendingFunctors, functors,
          activeChannels, wakeupFd, waking, ran>>

Threads == Callers \cup {Owner}

\* The places of the owner: before loop(), the test of _quit, blocked in
\* epoll_wait, calling handleEvent, inside a user's callback or functor,
\* in doPendingFunctors before the swap and after it, out of loop().
Places == {"before", "test", "poll", "dispatch", "callback",
           "swap", "run", "after"}

\* The functor object has not been handed to the loop yet.
Fresh(f) ==
    f \notin Range(pendingFunctors) \cup Range(functors) \cup Range(ran)

Init ==
    /\ pc = "before"
    /\ quit = FALSE
    /\ pendingFunctors = << >>
    /\ callingPendingFunctors = FALSE
    /\ functors = << >>
    /\ activeChannels = {}
    /\ wakeupFd = 0
    /\ waking = {}
    /\ ran = << >>

-----------------------------------------------------------------------------
(* loop(), run by the owner.                                               *)

LoopEnter ==
    /\ pc = "before"
    /\ pc' = "test"
    /\ quit' = FALSE
    /\ UNCHANGED <<pendingFunctors, callingPendingFunctors, functors,
                   activeChannels, wakeupFd, waking, ran>>

LoopTest ==
    /\ pc = "test"
    /\ pc' = IF quit THEN "after" ELSE "poll"
    /\ UNCHANGED <<quit, pendingFunctors, callingPendingFunctors, functors,
                   activeChannels, wakeupFd, waking, ran>>

\* What epoll_wait may report: any channel, the eventfd once it is written.
Reportable ==
    Channels \cup (IF wakeupFd > 0 THEN {WakeupChannel} ELSE {})

\* epoll_wait returns with events, with none (the 10 s timeout, EINTR), and
\* with only some of those that are ready when the event list is full.
Poll ==
    /\ pc = "poll"
    /\ pc' = "dispatch"
    /\ activeChannels' \in SUBSET Reportable
    /\ UNCHANGED <<quit, pendingFunctors, callingPendingFunctors, functors,
                   wakeupFd, waking, ran>>

\* The return of epoll_wait that nothing but the eventfd has to cause.
PollWoken == Poll /\ wakeupFd > 0

\* handleEvent of _wakeupChannel: reading an eventfd resets it.
HandleRead ==
    /\ pc = "dispatch"
    /\ WakeupChannel \in activeChannels
    /\ activeChannels' = activeChannels \ {WakeupChannel}
    /\ wakeupFd' = 0
    /\ UNCHANGED <<pc, quit, pendingFunctors, callingPendingFunctors,
                   functors, waking, ran>>

\* handleEvent of any other channel calls back into the user's code.
HandleEvent(c) ==
    /\ pc = "dispatch"
    /\ c \in activeChannels \ {WakeupChannel}
    /\ activeChannels' = activeChannels \ {c}
    /\ pc' = "callback"
    /\ UNCHANGED <<quit, pendingFunctors, callingPendingFunctors, functors,
                   wakeupFd, waking, ran>>

\* The callback or functor returns to whichever of the two loops called it.
CallbackReturn ==
    /\ pc = "callback"
    /\ Owner \notin waking
    /\ pc' = IF callingPendingFunctors THEN "run" ELSE "dispatch"
    /\ UNCHANGED <<quit, pendingFunctors, callingPendingFunctors, functors,
                   activeChannels, wakeupFd, waking, ran>>

-----------------------------------------------------------------------------
(* doPendingFunctors, run by the owner after the last active channel.      *)

BeginPending ==
    /\ pc = "dispatch"
    /\ activeChannels = {}
    /\ callingPendingFunctors' = TRUE
    /\ pc' = "swap"
    /\ UNCHANGED <<quit, pendingFunctors, functors, activeChannels,
                   wakeupFd, waking, ran>>

\* Mutant of SwapFunctors: copies the queue and forgets to empty it.
SwapFunctorsCopy ==
    /\ pc = "swap"
    /\ functors' = pendingFunctors
    /\ pc' = "run"
    /\ UNCHANGED <<quit, pendingFunctors, callingPendingFunctors,
                   activeChannels, wakeupFd, waking, ran>>

SwapFunctors ==
    /\ pc = "swap"
    /\ functors' = pendingFunctors
    /\ pendingFunctors' = << >>
    /\ pc' = "run"
    /\ UNCHANGED <<quit, callingPendingFunctors, activeChannels, wakeupFd,
                   waking, ran>>

RunFunctor ==
    /\ pc = "run"
    /\ functors # << >>
    /\ ran' = Append(ran, Head(functors))
    /\ functors' = Tail(functors)
    /\ pc' = "callback"
    /\ UNCHANGED <<quit, pendingFunctors, callingPendingFunctors,
                   activeChannels, wakeupFd, waking>>

EndPending ==
    /\ pc = "run"
    /\ functors = << >>
    /\ callingPendingFunctors' = FALSE
    /\ pc' = "test"
    /\ UNCHANGED <<quit, pendingFunctors, functors, activeChannels,
                   wakeupFd, waking, ran>>

-----------------------------------------------------------------------------
(* Calls on the loop, by the owner outside of the loop's own code and by   *)
(* any other thread.  A thread in waking is inside queueInLoop or quit.    *)

MayCall(t) ==
    /\ t \notin waking
    /\ t = Owner => pc \in {"before", "callback", "after"}

\* Mutant of NeedsWakeup: only the other threads write the eventfd.
NeedsWakeupOthersOnly(t) == t # Owner

NeedsWakeup(t) == t # Owner \/ callingPendingFunctors

QueueInLoop(t, f) ==
    /\ MayCall(t)
    /\ Fresh(f)
    /\ f \in EarlyFunctors <=> t = Owner /\ pc = "before"
    /\ pendingFunctors' = Append(pendingFunctors, f)
    /\ waking' = IF NeedsWakeup(t) THEN waking \cup {t} ELSE waking
    /\ UNCHANGED <<pc, quit, callingPendingFunctors, functors,
                   activeChannels, wakeupFd, ran>>

\* runInLoop of the owner calls the functor on the spot; of any other
\* thread it is queueInLoop.
RunInLoop(t, f) ==
    \/ /\ t = Owner
       /\ MayCall(t)
       /\ Fresh(f)
       /\ ran' = Append(ran, f)
       /\ UNCHANGED <<pc, quit, pendingFunctors, callingPendingFunctors,
                      functors, activeChannels, wakeupFd, waking>>
    \/ /\ t # Owner
       /\ QueueInLoop(t, f)

\* Mutant of Quit: sets the flag and does not wake the owner.
QuitNoWakeup(t) ==
    /\ MayCall(t)
    /\ quit' = TRUE
    /\ UNCHANGED <<pc, pendingFunctors, callingPendingFunctors, functors,
                   activeChannels, wakeupFd, waking, ran>>

Quit(t) ==
    /\ MayCall(t)
    /\ quit' = TRUE
    /\ waking' = IF t # Owner THEN waking \cup {t} ELSE waking
    /\ UNCHANGED <<pc, pendingFunctors, callingPendingFunctors, functors,
                   activeChannels, wakeupFd, ran>>

\* The 8-byte write to the non-blocking eventfd: it adds one, or fails with
\* EAGAIN (only logged) when the counter is at its largest value.
Wakeup(t) ==
    /\ t \in waking
    /\ waking' = waking \ {t}
    /\ wakeupFd' = IF wakeupFd < EventfdMax THEN wakeupFd + 1 ELSE wakeupFd
    /\ UNCHANGED <<pc, quit, pendingFunctors, callingPendingFunctors,
                   functors, activeChannels, ran>>

-----------------------------------------------------------------------------
OwnerStep ==
    \/ LoopEnter
    \/ LoopTest
    \/ Poll
    \/ HandleRead
    \/ \E c \in Channels : HandleEvent(c)
    \/ CallbackReturn
    \/ BeginPending
    \/ SwapFunctors
    \/ RunFunctor
    \/ EndPending

Call(t) ==
    \/ \E f \in Functors : QueueInLoop(t, f)
    \/ \E f \in Functors : RunInLoop(t, f)
    \/ Quit(t)
    \/ Wakeup(t)

Next == OwnerStep \/ \E t \in Threads : Call(t)

Spec == Init /\ [][Next]_vars

(***************************************************************************)
(* The owner keeps executing its own code: it calls loop() once it has     *)
(* built the loop (threadFunc and main do), callbacks return, epoll_wait   *)
(* returns when the eventfd is readable; a thread inside queueInLoop or    *)
(* quit reaches its write.  Nothing obliges the kernel to report another   *)
(* channel or to let the 10 s timeout expire, nor anyone to call.          *)
(***************************************************************************)
OwnerProgress ==
    \/ LoopEnter
    \/ LoopTest
    \/ PollWoken
    \/ HandleRead
    \/ \E c \in Channels : HandleEvent(c)
    \/ CallbackReturn
    \/ BeginPending
    \/ SwapFunctors
    \/ RunFunctor
    \/ EndPending

Fairness ==
    /\ WF_vars(OwnerProgress)
    /\ \A t \in Threads : WF_vars(Wakeup(t))

FairSpec == Spec /\ Fairness

-----------------------------------------------------------------------------
(* Properties.                                                             *)

\* Every variable holds a value of its C++ type, and the eventfd counter
\* stays below its limit.
TypeOK ==
    /\ pc \in Places
    /\ quit \in BOOLEAN
    /\ pendingFunctors \in Seq(Functors)
    /\ callingPendingFunctors \in BOOLEAN
    /\ functors \in Seq(Functors)
    /\ activeChannels \subseteq Channels \cup {WakeupChannel}
    /\ wakeupFd \in 0 .. EventfdMax
    /\ waking \subseteq Threads
    /\ ran \in Seq(Functors)

\* The eventfd is readable, or a thread is on its way to write it.
Woken == wakeupFd > 0 \/ waking # {}

\* Some queued functor is not one the owner queued before loop().
LateQueued ==
    \E i \in DOMAIN pendingFunctors : pendingFunctors[i] \notin EarlyFunctors

\* The owner never sleeps in epoll_wait on a functor that was queued once
\* loop() was entered, or by another thread at any time: queueInLoop's
\* "!isInLoopThread() || _callingPendingFunctors" is wide enough.
NoLostWakeup == pc = "poll" /\ LateQueued => Woken

\* The owner never sleeps in epoll_wait with _quit set by a quit() that
\* came after it entered loop().
NoLostQuit == pc = "poll" /\ quit => Woken

\* The places of the owner fit together: the flag _callingPendingFunctors
\* and the local batch live inside doPendingFunctors, and the owner writes
\* its own eventfd only from a functor.
PlacesFit ==
    /\ pc \in {"swap", "run"} => callingPendingFunctors
    /\ callingPendingFunctors => pc \in {"swap", "run", "callback"}
    /\ Owner \in waking => pc = "callback" /\ callingPendingFunctors
    /\ functors # << >> => pc # "swap" /\ callingPendingFunctors

\* Where the next swap is still behind an epoll_wait.
PollComesFirst ==
    \/ pc \in {"before", "test", "poll", "run"}
    \/ pc = "callback" /\ callingPendingFunctors

\* The inductive form of NoLostWakeup and NoLostQuit: a functor that has to
\* wait for an epoll_wait has its wakeup, done or under way.
IInv ==
    /\ TypeOK
    /\ PlacesFit
    /\ PollComesFirst /\ LateQueued => Woken
    /\ NoLostQuit

\* The pair (batch being run, queue) behaves as one FIFO queue whose tasks
\* run once each, whatever swaps, wakeups and nested calls happen.
TQ == INSTANCE TaskQueue WITH
        Tasks <- Functors,
        queue <- functors \o pendingFunctors,
        ran   <- ran

ImplementsTaskQueue == TQ!Spec

\* A functor that is queued runs, without any help from the 10 s timeout or
\* from other events, unless the loop is told to quit.
QueuedFunctorsRun ==
    \A f \in Functors \ EarlyFunctors :
        f \in Range(pendingFunctors) ~> f \in Range(ran) \/ quit

\* quit() called once loop() was entered makes it return.
QuitStopsLoop == quit /\ pc # "before" ~> pc = "after"

\* What net/eventloop.h:24 says of quit(), "leaves the event loop": not true
\* when quit() comes between the loop's construction and loop(), which
\* clears _quit.
QuitIsNeverLost == quit ~> pc = "after"
=============================================================================
