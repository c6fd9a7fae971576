-------------------------- MODULE EventLoopProofs --------------------------
(***************************************************************************)
(* Machine-checked proofs about EventLoop, for any set of threads,         *)
(* functors and channels: types, no lost wakeup, no lost quit, and the     *)
(* refinement of TaskQueue.                                                *)
(***************************************************************************)
EXTENDS EventLoop, SequenceTheorems, TLAPS

-----------------------------------------------------------------------------
(* Types.                                                                  *)

\* The variables have their types in the initial state.
LEMMA InitTypeOK == Init => TypeOK
  <1>1. << >> \in Seq(Functors)
    BY EmptySeq
  <1>2. 0 \in 0 .. EventfdMax
    BY EventLoopAssumption
  <1>3. QED
    BY <1>1, <1>2 DEF Init, TypeOK, Places

\* Every step of the owner keeps the types.
LEMMA OwnerTypeOK == TypeOK /\ OwnerStep => TypeOK'
  <1> SUFFICES ASSUME TypeOK, OwnerStep PROVE TypeOK'
    OBVIOUS
  <1> USE DEF TypeOK, Places
  <1>1. CASE LoopEnter
    BY <1>1 DEF LoopEnter
  <1>2. CASE LoopTest
    BY <1>2 DEF LoopTest
  <1>3. CASE Poll
    BY <1>3 DEF Poll, Reportable
  <1>4. CASE HandleRead
    BY <1>4, EventLoopAssumption DEF HandleRead
  <1>5. ASSUME NEW c \in Channels, HandleEvent(c) PROVE TypeOK'
    BY <1>5 DEF HandleEvent
  <1>6. CASE CallbackReturn
    BY <1>6 DEF CallbackReturn
  <1>7. CASE BeginPending
    BY <1>7 DEF BeginPending
  <1>8. CASE SwapFunctors
    BY <1>8 DEF SwapFunctors
  <1>9. CASE RunFunctor
    <2>1. Head(functors) \in Functors /\ Tail(functors) \in Seq(Functors)
      BY <1>9, HeadTailProperties DEF RunFunctor
    <2>2. ran' \in Seq(Functors) /\ functors' \in Seq(Functors)
      BY <1>9, <2>1, AppendProperties DEF RunFunctor
    <2>3. QED
      BY <1>9, <2>2 DEF RunFunctor
  <1>10. CASE EndPending
    BY <1>10 DEF EndPending
  <1>11. QED
    BY <1>1, <1>2, <1>3, <1>4, <1>5, <1>6, <1>7, <1>8, <1>9, <1>10
    DEF OwnerStep

\* Queueing a functor keeps the types.
LEMMA QueueTypeOK ==
  ASSUME TypeOK, NEW t \in Threads, NEW f \in Functors, QueueInLoop(t, f)
  PROVE  TypeOK'
  <1>1. pendingFunctors' \in Seq(Functors)
    BY AppendProperties DEF QueueInLoop, TypeOK
  <1>2. QED
    BY <1>1 DEF QueueInLoop, TypeOK

\* Every call of any thread keeps the types.
LEMMA CallTypeOK ==
  ASSUME TypeOK, NEW t \in Threads, Call(t)
  PROVE  TypeOK'
  <1>1. ASSUME NEW f \in Functors, QueueInLoop(t, f) PROVE TypeOK'
    BY <1>1, QueueTypeOK
  <1>2. ASSUME NEW f \in Functors, RunInLoop(t, f) PROVE TypeOK'
    <2>1. CASE t # Owner
      BY <1>2, <2>1, QueueTypeOK DEF RunInLoop
    <2>2. CASE t = Owner
      <3>1. ran' = Append(ran, f)
        BY <1>2, <2>2 DEF RunInLoop
      <3>2. ran' \in Seq(Functors)
        BY <3>1, AppendProperties DEF TypeOK
      <3>3. QED
        BY <1>2, <2>2, <3>2 DEF RunInLoop, TypeOK
    <2>3. QED
      BY <2>1, <2>2
  <1>3. CASE Quit(t)
    BY <1>3 DEF Quit, TypeOK
  <1>4. CASE Wakeup(t)
    BY <1>4, EventLoopAssumption DEF Wakeup, TypeOK
  <1>5. QED
    BY <1>1, <1>2, <1>3, <1>4 DEF Call

\* Every step keeps the types.
LEMMA NextTypeOK == TypeOK /\ [Next]_vars => TypeOK'
  <1>1. TypeOK /\ UNCHANGED vars => TypeOK'
    BY DEF TypeOK, vars
  <1>2. QED
    BY <1>1, OwnerTypeOK, CallTypeOK DEF Next

\* The variables of the loop always have their types: in particular the
\* eventfd counter never exceeds what the kernel allows, whatever number of
\* threads call wakeup() (net/eventloop.cc, EventLoop::wakeup).
THEOREM TypeCorrect == Spec => []TypeOK
  BY InitTypeOK, NextTypeOK, PTL DEF Spec

-----------------------------------------------------------------------------
(* No lost wakeup, no lost quit.                                           *)

\* A functor pushed at the back of the queue is the only late one that the
\* push can add.
LEMMA LateAppend ==
  ASSUME TypeOK, NEW f \in Functors,
         pendingFunctors' = Append(pendingFunctors, f),
         LateQueued'
  PROVE  LateQueued \/ f \notin EarlyFunctors
  <1>1. PICK i \in DOMAIN pendingFunctors' :
               pendingFunctors'[i] \notin EarlyFunctors
    BY DEF LateQueued
  <1>2. /\ Len(pendingFunctors) \in Nat
        /\ DOMAIN pendingFunctors = 1 .. Len(pendingFunctors)
    BY LenProperties DEF TypeOK
  <1>3. /\ DOMAIN pendingFunctors' = 1 .. Len(pendingFunctors) + 1
        /\ \A j \in 1 .. Len(pendingFunctors) :
              pendingFunctors'[j] = pendingFunctors[j]
        /\ pendingFunctors'[Len(pendingFunctors) + 1] = f
    BY AppendProperties, LenProperties DEF TypeOK
  <1>4. CASE i = Len(pendingFunctors) + 1
    BY <1>1, <1>3, <1>4
  <1>5. CASE i \in DOMAIN pendingFunctors
    BY <1>1, <1>2, <1>3, <1>5 DEF LateQueued
  <1>6. QED
    BY <1>1, <1>2, <1>3, <1>4, <1>5

\* Initially the queue is empty and nobody is in a call.
LEMMA InitIInv == Init => IInv
  BY InitTypeOK DEF Init, IInv, PlacesFit, LateQueued, NoLostQuit

\* No step of the owner leaves a late functor without its wakeup: the only
\* step that consumes a wakeup, HandleRead, has the swap ahead of it and no
\* epoll_wait in between.
LEMMA OwnerIInv == IInv /\ OwnerStep => IInv'
  <1> SUFFICES ASSUME IInv, OwnerStep PROVE IInv'
    OBVIOUS
  <1>0. TypeOK'
    BY OwnerTypeOK DEF IInv
  <1> USE <1>0 DEF IInv, PlacesFit, PollComesFirst, LateQueued, NoLostQuit,
                   Woken, Places
  <1>1. CASE LoopEnter
    BY <1>1 DEF LoopEnter
  <1>2. CASE LoopTest
    BY <1>2 DEF LoopTest
  <1>3. CASE Poll
    BY <1>3 DEF Poll
  <1>4. CASE HandleRead
    BY <1>4 DEF HandleRead
  <1>5. ASSUME NEW c \in Channels, HandleEvent(c) PROVE IInv'
    BY <1>5 DEF HandleEvent
  <1>6. CASE CallbackReturn
    BY <1>6 DEF CallbackReturn
  <1>7. CASE BeginPending
    BY <1>7 DEF BeginPending
  <1>8. CASE SwapFunctors
    <2>1. ~ LateQueued'
      BY <1>8 DEF SwapFunctors
    <2>2. PlacesFit' /\ NoLostQuit'
      BY <1>8 DEF SwapFunctors
    <2>3. QED
      BY <2>1, <2>2
  <1>9. CASE RunFunctor
    BY <1>9 DEF RunFunctor
  <1>10. CASE EndPending
    BY <1>10 DEF EndPending
  <1>11. QED
    BY <1>1, <1>2, <1>3, <1>4, <1>5, <1>6, <1>7, <1>8, <1>9, <1>10
    DEF OwnerStep

\* A call of queueInLoop either finds the next swap ahead of every
\* epoll_wait, or is bound to write the eventfd.
LEMMA QueueIInv ==
  ASSUME IInv, NEW t \in Threads, NEW f \in Functors, QueueInLoop(t, f)
  PROVE  IInv'
  <1>1. TypeOK'
    BY QueueTypeOK DEF IInv
  <1>2. PlacesFit'
    BY DEF IInv, PlacesFit, QueueInLoop, MayCall, NeedsWakeup
  <1>3. Woken => Woken'
    BY DEF QueueInLoop, Woken
  <1>4. ASSUME PollComesFirst', LateQueued' PROVE Woken'
    <2>1. PollComesFirst
      BY <1>4 DEF PollComesFirst, QueueInLoop
    <2>2. CASE LateQueued
      BY <1>3, <2>1, <2>2 DEF IInv
    <2>3. CASE f \notin EarlyFunctors
      <3>1. NeedsWakeup(t)
        BY <2>1, <2>3 DEF PollComesFirst, NeedsWakeup, QueueInLoop, MayCall
      <3>2. QED
        BY <3>1 DEF QueueInLoop, Woken
    <2>4. QED
      BY <1>4, <2>2, <2>3, LateAppend DEF QueueInLoop, IInv
  <1>5. NoLostQuit'
    BY <1>3 DEF QueueInLoop, NoLostQuit, IInv
  <1>6. QED
    BY <1>1, <1>2, <1>4, <1>5 DEF IInv

\* Every call of any thread keeps the inductive invariant.
LEMMA CallIInv ==
  ASSUME IInv, NEW t \in Threads, Call(t)
  PROVE  IInv'
  <1>0. TypeOK'
    BY CallTypeOK DEF IInv
  <1>1. ASSUME NEW f \in Functors, QueueInLoop(t, f) PROVE IInv'
    BY <1>1, QueueIInv
  <1>2. ASSUME NEW f \in Functors, RunInLoop(t, f) PROVE IInv'
    <2>1. CASE t # Owner
      BY <1>2, <2>1, QueueIInv DEF RunInLoop
    <2>2. CASE t = Owner
      BY <1>0, <1>2, <2>2 DEF RunInLoop, IInv, PlacesFit, PollComesFirst,
                              LateQueued, NoLostQuit, Woken
    <2>3. QED
      BY <2>1, <2>2
  <1>3. CASE Quit(t)
    BY <1>0, <1>3 DEF Quit, MayCall, IInv, PlacesFit, PollComesFirst,
                      LateQueued, NoLostQuit, Woken
  <1>4. CASE Wakeup(t)
    <2>1. wakeupFd' > 0
      BY <1>4, EventLoopAssumption DEF Wakeup, IInv, TypeOK
    <2>2. QED
      BY <1>0, <1>4, <2>1 DEF Wakeup, IInv, PlacesFit, PollComesFirst,
                              LateQueued, NoLostQuit, Woken
  <1>5. QED
    BY <1>1, <1>2, <1>3, <1>4 DEF Call

\* The invariant is inductive.
LEMMA NextIInv == IInv /\ [Next]_vars => IInv'
  <1>1. IInv /\ UNCHANGED vars => IInv'
    BY NextTypeOK DEF vars, IInv, PlacesFit, PollComesFirst, LateQueued,
                      NoLostQuit, Woken
  <1>2. QED
    BY <1>1, OwnerIInv, CallIInv DEF Next

\* It holds in every reachable state.
THEOREM IInvHolds == Spec => []IInv
  BY InitIInv, NextIInv, PTL DEF Spec

\* The owner never sleeps in epoll_wait on a functor that was queued after
\* it entered loop(), whatever the number of threads, functors and channels
\* (net/eventloop.cc, queueInLoop's test before wakeup()).
THEOREM NoLostWakeupHolds == Spec => []NoLostWakeup
  <1>1. IInv => NoLostWakeup
    BY DEF IInv, NoLostWakeup, PollComesFirst
  <1>2. QED
    BY <1>1, IInvHolds, PTL

\* Nor on a quit() that came after it entered loop() (EventLoop::quit).
THEOREM NoLostQuitHolds == Spec => []NoLostQuit
  <1>1. IInv => NoLostQuit
    BY DEF IInv
  <1>2. QED
    BY <1>1, IInvHolds, PTL

-----------------------------------------------------------------------------
(* The loop implements the FIFO executor TaskQueue.                        *)

\* The abstract queue: the batch being run followed by what is queued.
Queued == functors \o pendingFunctors

\* A fresh functor is new to the abstract executor.
LEMMA FreshIsNew ==
  ASSUME TypeOK, NEW f \in Functors, Fresh(f)
  PROVE  TQ!New(f)
  <1>1. Range(Queued) = Range(functors) \cup Range(pendingFunctors)
    BY RangeConcatenation DEF Queued, TypeOK
  <1>2. QED
    BY <1>1 DEF Fresh, TQ!New, TQ!Range, Range, Queued

\* Queueing is Submit.
LEMMA QueueIsSubmit ==
  ASSUME TypeOK, NEW t \in Threads, NEW f \in Functors, QueueInLoop(t, f)
  PROVE  TQ!Submit(f)
  <1>1. TQ!New(f)
    BY FreshIsNew DEF QueueInLoop
  <1>2. functors \in Seq(Functors) /\ pendingFunctors \in Seq(Functors)
    BY DEF TypeOK
  <1>3. Append(pendingFunctors, f) = pendingFunctors \o <<f>>
    BY <1>2, AppendIsConcat
  <1>4. <<f>> \in Seq(Functors)
    OBVIOUS
  <1>5. Queued \o <<f>> = functors \o (pendingFunctors \o <<f>>)
    BY <1>2, <1>4, ConcatAssociative DEF Queued
  <1>6. Append(Queued, f) = Queued \o <<f>>
    BY <1>2, ConcatProperties, AppendIsConcat DEF Queued
  <1>7. Queued' = Append(Queued, f)
    BY <1>3, <1>5, <1>6 DEF QueueInLoop, Queued
  <1>8. QED
    BY <1>1, <1>7 DEF TQ!Submit, Queued, QueueInLoop

\* Running a functor of the batch is running the oldest task.
LEMMA RunIsRunOldest ==
  ASSUME TypeOK, RunFunctor
  PROVE  TQ!RunOldest
  <1>1. functors \in Seq(Functors) /\ pendingFunctors \in Seq(Functors)
    BY DEF TypeOK
  <1>2. functors # << >>
    BY DEF RunFunctor
  <1>3. Queued # << >> /\ Head(Queued) = Head(functors)
    BY <1>1, <1>2, ConcatProperties, LenProperties, ConcatEqualIffEmpty
    DEF Queued
  <1>4. Tail(Queued) = Tail(functors) \o pendingFunctors
    <2>1. /\ Tail(functors) \in Seq(Functors)
          /\ Len(Tail(functors)) = Len(functors) - 1
          /\ \A i \in 1 .. Len(Tail(functors)) :
                Tail(functors)[i] = functors[i + 1]
      BY <1>1, <1>2, HeadTailProperties
    <2>2. /\ Queued \in Seq(Functors)
          /\ Len(Queued) = Len(functors) + Len(pendingFunctors)
          /\ \A i \in 1 .. Len(functors) + Len(pendingFunctors) :
                Queued[i] = IF i <= Len(functors)
                            THEN functors[i]
                            ELSE pendingFunctors[i - Len(functors)]
      BY <1>1, ConcatProperties DEF Queued
    <2>3. /\ Tail(Queued) \in Seq(Functors)
          /\ Len(Tail(Queued)) = Len(Queued) - 1
          /\ \A i \in 1 .. Len(Tail(Queued)) : Tail(Queued)[i] = Queued[i + 1]
      BY <1>3, <2>2, HeadTailProperties
    <2>4. DEFINE rest == Tail(functors) \o pendingFunctors
    <2>5. /\ rest \in Seq(Functors)
          /\ Len(rest) = Len(functors) - 1 + Len(pendingFunctors)
          /\ \A i \in 1 .. Len(functors) - 1 + Len(pendingFunctors) :
                rest[i] = IF i <= Len(functors) - 1
                          THEN Tail(functors)[i]
                          ELSE pendingFunctors[i - (Len(functors) - 1)]
      BY <1>1, <2>1, ConcatProperties
    <2>6. Len(functors) \in Nat \ {0} /\ Len(pendingFunctors) \in Nat
      BY <1>1, <1>2, EmptySeq, LenProperties
    <2>7. ASSUME NEW i \in 1 .. Len(Tail(Queued))
          PROVE  Tail(Queued)[i] = rest[i]
      <3>1. Tail(Queued)[i] = Queued[i + 1]
        BY <2>3
      <3>2. i + 1 \in 1 .. Len(functors) + Len(pendingFunctors)
        BY <2>2, <2>3, <2>6
      <3>3. i \in 1 .. Len(functors) - 1 + Len(pendingFunctors)
        BY <2>2, <2>3, <2>6
      <3>4. CASE i <= Len(functors) - 1
        BY <2>1, <2>2, <2>5, <2>6, <3>1, <3>2, <3>3, <3>4
      <3>5. CASE ~ (i <= Len(functors) - 1)
        <4>1. (i + 1) - Len(functors) = i - (Len(functors) - 1)
          BY <2>6, <3>3
        <4>2. ~ (i + 1 <= Len(functors))
          BY <2>6, <3>3, <3>5
        <4>3. QED
          BY <2>2, <2>5, <3>1, <3>2, <3>3, <3>5, <4>1, <4>2
      <3>6. QED
        BY <3>4, <3>5
    <2>8. Len(Tail(Queued)) = Len(rest)
      BY <2>2, <2>3, <2>5, <2>6
    <2>9. QED
      BY <2>3, <2>5, <2>7, <2>8, SeqEqual
  <1>5. Queued' = Tail(Queued)
    BY <1>4 DEF RunFunctor, Queued
  <1>6. QED
    BY <1>3, <1>5 DEF TQ!RunOldest, Queued, RunFunctor

\* The swap moves the queue into an empty batch: nothing changes outside.
LEMMA SwapIsStutter ==
  ASSUME IInv, SwapFunctors
  PROVE  UNCHANGED TQ!vars
  <1>1. functors = << >>
    BY DEF IInv, PlacesFit, SwapFunctors
  <1>2. << >> \in Seq(Functors) /\ pendingFunctors \in Seq(Functors)
    BY EmptySeq DEF IInv, TypeOK
  <1>3. /\ << >> \o pendingFunctors = pendingFunctors
        /\ pendingFunctors \o << >> = pendingFunctors
    BY <1>2, ConcatEmptySeq
  <1>4. QED
    BY <1>1, <1>3 DEF SwapFunctors, TQ!vars

\* Every step of the loop is a step of the executor or none.
LEMMA NextImplements == IInv /\ [Next]_vars => [TQ!Next]_TQ!vars
  <1> SUFFICES ASSUME IInv, [Next]_vars PROVE [TQ!Next]_TQ!vars
    OBVIOUS
  <1>0. TypeOK
    BY DEF IInv
  <1>1. CASE UNCHANGED vars
    BY <1>1 DEF vars, TQ!vars
  <1>2. CASE OwnerStep
    <2>1. CASE SwapFunctors
      BY <2>1, SwapIsStutter
    <2>2. CASE RunFunctor
      BY <1>0, <2>2, RunIsRunOldest DEF TQ!Next
    <2>3. CASE ~ SwapFunctors /\ ~ RunFunctor
      BY <1>2, <2>3 DEF OwnerStep, LoopEnter, LoopTest, Poll, HandleRead,
           HandleEvent, CallbackReturn, BeginPending, EndPending, TQ!vars
    <2>4. QED
      BY <2>1, <2>2, <2>3
  <1>3. ASSUME NEW t \in Threads, Call(t) PROVE [TQ!Next]_TQ!vars
    <2>1. ASSUME NEW f \in Functors, QueueInLoop(t, f)
          PROVE  TQ!Next
      BY <1>0, <2>1, QueueIsSubmit DEF TQ!Next
    <2>2. ASSUME NEW f \in Functors, RunInLoop(t, f), t = Owner
          PROVE  TQ!Next
      <3>1. TQ!New(f)
        BY <1>0, <2>2, FreshIsNew DEF RunInLoop
      <3>2. TQ!RunAtOnce(f)
        BY <2>2, <3>1 DEF RunInLoop, TQ!RunAtOnce
      <3>3. QED
        BY <3>2 DEF TQ!Next
    <2>3. CASE Quit(t) \/ Wakeup(t)
      BY <2>3 DEF Quit, Wakeup, TQ!vars
    <2>4. QED
      BY <1>3, <2>1, <2>2, <2>3 DEF Call, RunInLoop
  <1>4. QED
    BY <1>1, <1>2, <1>3 DEF Next

\* For any threads and functors, the functors handed to a loop run in the
\* order in which they were queued and each once, save those that
\* runInLoop calls on the spot (net/eventloop.cc, queueInLoop, runInLoop,
\* doPendingFunctors).
THEOREM ImplementsTaskQueueHolds == Spec => ImplementsTaskQueue
  <1>1. Init => TQ!Init
    <2>1. << >> \o << >> = << >>
      BY EmptySeq, ConcatEmptySeq
    <2>2. QED
      BY <2>1 DEF Init, TQ!Init
  <1>2. QED
    BY <1>1, IInvHolds, NextImplements, PTL
    DEF Spec, TQ!Spec, ImplementsTaskQueue

=============================================================================
