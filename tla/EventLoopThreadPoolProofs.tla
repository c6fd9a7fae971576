--------------------- MODULE EventLoopThreadPoolProofs ---------------------
(***************************************************************************)
(* Machine-checked proofs about EventLoopThreadPool, for any number of     *)
(* threads: the loops are handed out evenly, and no thread outlives its    *)
(* EventLoopThread unless a callback ended its loop.                       *)
(***************************************************************************)
EXTENDS EventLoopThreadPool, TLAPS

-----------------------------------------------------------------------------
\* Nothing has been started.
LEMMA InitIInv == Init => IInv
  BY PoolAssumption
  DEF Init, IInv, TypeOK, TurnsTaken, StartedInOrder, InStep, EndsWhenTold,
      Told, NoUseAfterDestroy, Destroyed, Starting, Ending, ThreadPlaces, Workers

\* Every step is one of these; the last case is a stutter.
LEMMA Steps ==
  ASSUME [Next]_vars
  PROVE  \/ StartThread \/ StartLoopLocked \/ Started
         \/ DtorReadsLoop \/ Quit \/ Wakeup \/ Join
         \/ SpuriousWakeup \/ GetNextLoop \/ DestroyPool
         \/ \E w \in Workers :
              \/ BuildLoop(w) \/ Publish(w) \/ EnterLoop(w) \/ TestQuit(w)
              \/ PollReturns(w) \/ UserQuits(w) \/ Served(w)
              \/ Unpublish(w) \/ Unlock(w) \/ DestroyLoop(w)
         \/ UNCHANGED vars
  BY DEF Next, BaseStep, WorkerStep

\* The variables keep their types.
LEMMA TypeInductive ==
  ASSUME IInv, [Next]_vars
  PROVE  TypeOK'
  <1> USE PoolAssumption
      DEF IInv, TypeOK, Workers, Starting, Ending, ThreadPlaces, poolVars,
          loopVars, Go
  <1>1. CASE StartThread
    BY <1>1 DEF StartThread
  <1>2. CASE StartLoopLocked
    BY <1>2 DEF StartLoopLocked, StartedInOrder
  <1>3. CASE Started
    BY <1>3 DEF Started
  <1>4. CASE DtorReadsLoop
    BY <1>4 DEF DtorReadsLoop
  <1>5. CASE Quit
    BY <1>5 DEF Quit
  <1>6. CASE Wakeup
    BY <1>6 DEF Wakeup
  <1>7. CASE Join
    BY <1>7 DEF Join
  <1>8. CASE SpuriousWakeup
    BY <1>8 DEF SpuriousWakeup
  <1>9. CASE GetNextLoop
    <2>1. CASE numLoops = 0
      BY <1>9, <2>1 DEF GetNextLoop
    <2>2. CASE numLoops # 0
      <3>1. /\ given' = [given EXCEPT ![next + 1] = @ + 1]
            /\ next' = IF next + 1 >= numLoops THEN 0 ELSE next + 1
            /\ UNCHANGED <<base, cur, thread, published, quit, signalled,
                           numThreads, numLoops, userQuit>>
        BY <1>9, <2>2 DEF GetNextLoop, Advance
      <3>2. next' \in Nat /\ (next' = 0 \/ next' < numLoops)
        BY <2>2, <3>1
      <3>3. given' \in [Workers \cup {0} -> Nat]
        <4>1. next + 1 \in Workers
          BY <2>2
        <4>2. QED
          BY <3>1, <4>1
      <3>4. QED
        BY <3>1, <3>2, <3>3
    <2>3. QED
      BY <2>1, <2>2
  <1>10. CASE DestroyPool
    BY <1>10 DEF DestroyPool
  <1>11. ASSUME NEW w \in Workers,
                \/ BuildLoop(w) \/ Publish(w) \/ EnterLoop(w) \/ TestQuit(w)
                \/ PollReturns(w)
         PROVE  TypeOK'
    BY <1>11 DEF BuildLoop, Publish, EnterLoop, TestQuit, PollReturns
  <1>12. ASSUME NEW w \in Workers,
                \/ UserQuits(w) \/ Served(w) \/ Unpublish(w) \/ Unlock(w)
                \/ DestroyLoop(w)
         PROVE  TypeOK'
    BY <1>12 DEF UserQuits, Served, Unpublish, Unlock, DestroyLoop
  <1>13. CASE UNCHANGED vars
    BY <1>13 DEF vars
  <1>14. QED
    BY Steps, <1>1, <1>2, <1>3, <1>4, <1>5, <1>6, <1>7, <1>8, <1>9, <1>10,
       <1>11, <1>12, <1>13

\* Round robin: the call goes to the loop after the last one, and after the
\* last loop the round begins anew with equal counts.
LEMMA TurnsInductive ==
  ASSUME IInv, [Next]_vars
  PROVE  TurnsTaken'
  <1> USE PoolAssumption
      DEF IInv, TypeOK, TurnsTaken, Workers, Starting, poolVars
  <1>1. CASE StartLoopLocked
    BY <1>1 DEF StartLoopLocked, StartedInOrder
  <1>2. CASE GetNextLoop
    <2>1. base = "serving" /\ UNCHANGED <<base, numLoops>>
      BY <1>2 DEF GetNextLoop
    <2>2. CASE numLoops = 0
      BY <2>1, <2>2
    <2>3. CASE numLoops # 0
      <3>1. /\ given' = [given EXCEPT ![next + 1] = @ + 1]
            /\ next' = IF next + 1 >= numLoops THEN 0 ELSE next + 1
            /\ next + 1 \in 1 .. numLoops
        BY <1>2, <2>3 DEF GetNextLoop, Advance
      <3>2. QED
        BY <2>1, <2>3, <3>1
    <2>4. QED
      BY <2>2, <2>3
  <1>3. CASE UNCHANGED poolVars /\ (base' \in Starting => base \in Starting)
    BY <1>3
  <1>4. CASE UNCHANGED poolVars /\ base = "wait" /\ base' = "lock"
    BY <1>4
  <1>5. QED
    BY Steps, <1>1, <1>2, <1>3, <1>4
    DEF StartThread, Started, DtorReadsLoop, Quit, Wakeup, Join,
        SpuriousWakeup, DestroyPool, BuildLoop, Publish, EnterLoop, TestQuit,
        PollReturns, UserQuits, Served, Unpublish, Unlock, DestroyLoop, vars

\* start() counts the loops as it publishes them.
LEMMA CountInductive ==
  ASSUME IInv, [Next]_vars
  PROVE  (numLoops = IF base \in Starting THEN cur - 1 ELSE numThreads)'
  <1> USE DEF IInv, TypeOK, StartedInOrder, Starting, Ending, poolVars
  <1>1. CASE StartLoopLocked
    BY <1>1 DEF StartLoopLocked
  <1>2. CASE Started \/ DestroyPool
    BY <1>2 DEF Started, DestroyPool
  <1>3. CASE DtorReadsLoop \/ Quit \/ Wakeup \/ Join
    BY <1>3 DEF DtorReadsLoop, Quit, Wakeup, Join
  <1>4. CASE UNCHANGED <<poolVars, cur>> /\ (base' \in Starting <=> base \in Starting)
    BY <1>4
  <1>5. QED
    BY Steps, <1>1, <1>2, <1>3, <1>4
    DEF StartThread, SpuriousWakeup, GetNextLoop, BuildLoop, Publish,
        EnterLoop, TestQuit, PollReturns, UserQuits, Served, Unpublish,
        Unlock, DestroyLoop, vars

\* How far the threads are is known from where the server's thread is.
LEMMA StartedInductive ==
  ASSUME IInv, [Next]_vars
  PROVE  StartedInOrder'
  <1> SUFFICES ASSUME NEW w \in Workers PROVE InStep(w)'
    BY CountInductive DEF StartedInOrder
  <1>1. /\ InStep(w)
        /\ thread[w] \in ThreadPlaces
        /\ w \in Nat /\ cur \in Nat /\ numLoops \in Nat
        /\ thread \in [Workers -> ThreadPlaces]
        /\ published \in [Workers -> BOOLEAN]
    BY PoolAssumption DEF IInv, TypeOK, StartedInOrder, Workers
  <1>2. numLoops = IF base \in Starting THEN cur - 1 ELSE numThreads
    BY DEF IInv, StartedInOrder
  <1>3. base \in Starting \cup {"serving"} \cup Ending
    BY DEF IInv, TypeOK
  <1> USE <1>1, <1>2 DEF InStep, poolVars
  <1>4. CASE StartThread
    BY <1>4 DEF StartThread, Starting
  <1>5. CASE StartLoopLocked
    BY <1>5 DEF StartLoopLocked, Starting
  <1>6. CASE UNCHANGED <<thread, published, numLoops>> /\ base' \notin Starting
    BY <1>6
  <1>7. CASE SpuriousWakeup
    BY <1>7 DEF SpuriousWakeup, Starting
  <1>8. ASSUME NEW v \in Workers, BuildLoop(v) \/ Publish(v) \/ EnterLoop(v)
        PROVE  InStep(w)'
    BY <1>8 DEF BuildLoop, Publish, EnterLoop, Go, Starting
  <1>9. ASSUME NEW v \in Workers, TestQuit(v) \/ PollReturns(v) \/ Served(v)
        PROVE  InStep(w)'
    BY <1>9 DEF TestQuit, PollReturns, Served, Go
  <1>10. ASSUME NEW v \in Workers,
                Unpublish(v) \/ Unlock(v) \/ DestroyLoop(v)
         PROVE  InStep(w)'
    BY <1>10 DEF Unpublish, Unlock, DestroyLoop, Go
  <1>11. CASE UNCHANGED <<thread, published, numLoops, base, cur>>
    BY <1>11
  <1>12. QED
    BY Steps, <1>3, <1>4, <1>5, <1>6, <1>7, <1>8, <1>9, <1>10, <1>11
    DEF Started, DtorReadsLoop, Quit, Wakeup, Join, GetNextLoop, DestroyPool,
        UserQuits, vars, Starting

\* Only the user and the destructors set _quit, and only _quit ends a loop.
LEMMA EndsInductive ==
  ASSUME IInv, [Next]_vars
  PROVE  EndsWhenTold'
  <1> DEFINE Ends(w) ==
               /\ w \notin userQuit
               /\ \/ quit[w]
                  \/ thread[w] \in {"left", "locked", "unwind", "gone"}
  <1> SUFFICES ASSUME NEW w \in Workers, Ends(w)' PROVE Told(w)'
    BY DEF EndsWhenTold
  <1>1. Ends(w) => Told(w)
    BY DEF IInv, EndsWhenTold
  <1>2. /\ thread \in [Workers -> ThreadPlaces]
        /\ quit \in [Workers -> BOOLEAN]
        /\ w \in Nat /\ cur \in Nat
    BY PoolAssumption DEF IInv, TypeOK, Workers
  <1>3. CASE Quit
    BY <1>1, <1>2, <1>3 DEF Quit, Told, Ending, poolVars
  <1>4. CASE DtorReadsLoop \/ Wakeup \/ Join
    BY <1>1, <1>2, <1>4 DEF DtorReadsLoop, Wakeup, Join, Told, Ending, loopVars
  <1>5. CASE /\ UNCHANGED <<thread, quit, userQuit>>
             /\ base' # base => base \notin Ending
             /\ cur' # cur => base \notin Ending
    BY <1>1, <1>5 DEF Told
  <1>6. CASE StartThread
    <2>1. Ends(w)
      BY <1>2, <1>6 DEF StartThread, loopVars
    <2>2. QED
      BY <1>1, <1>6, <2>1 DEF StartThread, Told, Ending
  <1>7. ASSUME NEW v \in Workers,
               \/ BuildLoop(v) \/ Publish(v) \/ EnterLoop(v) \/ TestQuit(v)
               \/ PollReturns(v) \/ Served(v) \/ UserQuits(v)
               \/ Unpublish(v) \/ Unlock(v) \/ DestroyLoop(v)
        PROVE  Told(w)'
    <2>1. Ends(w)
      <3>1. CASE BuildLoop(v) \/ Publish(v) \/ EnterLoop(v)
        BY <1>2, <3>1 DEF BuildLoop, Publish, EnterLoop, Go, loopVars
      <3>2. CASE TestQuit(v) \/ PollReturns(v) \/ Served(v) \/ UserQuits(v)
        BY <1>2, <3>2
        DEF TestQuit, PollReturns, Served, UserQuits, Go, loopVars
      <3>3. CASE Unpublish(v) \/ Unlock(v) \/ DestroyLoop(v)
        BY <1>2, <3>3 DEF Unpublish, Unlock, DestroyLoop, Go, loopVars
      <3>4. QED
        BY <1>7, <3>1, <3>2, <3>3
    <2>2. cur' = cur /\ (base' = base \/ (base = "wait" /\ base' = "lock"))
      BY <1>7
      DEF BuildLoop, Publish, EnterLoop, TestQuit, PollReturns, Served,
          UserQuits, Unpublish, Unlock, DestroyLoop
    <2>3. QED
      BY <1>1, <2>1, <2>2 DEF Told, Ending
  <1>8. QED
    BY Steps, <1>3, <1>4, <1>5, <1>6, <1>7
    DEF StartLoopLocked, Started, SpuriousWakeup, GetNextLoop, DestroyPool,
        loopVars, vars, Ending

\* The destructor skips the join only of a thread that has nulled _loop, and
\* before it calls quit() itself only a callback can have led there.
LEMMA DestroyInductive ==
  ASSUME IInv, [Next]_vars
  PROVE  NoUseAfterDestroy'
  <1> SUFFICES ASSUME NEW w \in Destroyed', w \notin userQuit'
               PROVE  thread'[w] = "gone"
    BY DEF NoUseAfterDestroy
  <1>1. /\ thread \in [Workers -> ThreadPlaces]
        /\ cur \in Nat /\ numThreads \in Nat
        /\ numThreads <= MaxThreads /\ MaxThreads \in Nat
        /\ base \notin {"start", "serving", "dtor"} => cur <= numThreads
    BY PoolAssumption DEF IInv, TypeOK, Workers
  <1>2. w \in Destroyed /\ w \notin userQuit => thread[w] = "gone"
    BY DEF IInv, NoUseAfterDestroy
  <1>3. CASE DtorReadsLoop
    <2>1. CASE published[cur]
      BY <1>1, <1>2, <1>3, <2>1 DEF DtorReadsLoop, Destroyed, Ending
    <2>2. CASE ~ published[cur] /\ w # cur
      BY <1>1, <1>2, <1>3, <2>2 DEF DtorReadsLoop, Destroyed, Ending
    <2>3. CASE ~ published[cur] /\ w = cur
      <3>1. /\ cur \in Workers /\ cur \notin userQuit
            /\ base = "dtor" /\ cur <= numThreads
        BY <1>1, <1>3, <2>3 DEF DtorReadsLoop, Destroyed, Ending, Workers
      <3>2. numLoops = numThreads /\ InStep(cur)
        BY <3>1 DEF IInv, StartedInOrder, Starting
      <3>3. thread[cur] \in {"left", "locked", "unwind", "gone"}
        BY <1>1, <2>3, <3>1, <3>2 DEF InStep, ThreadPlaces
      <3>4. Told(cur)
        BY <3>1, <3>3 DEF IInv, EndsWhenTold
      <3>5. QED
        BY <1>1, <3>1, <3>4 DEF Told
    <2>4. QED
      BY <2>1, <2>2, <2>3
  <1>4. CASE Join
    BY <1>1, <1>2, <1>4 DEF Join, Destroyed, Ending
  <1>5. CASE /\ UNCHANGED <<thread, userQuit>>
             /\ base' \in Ending => base \in Ending /\ cur' = cur
    BY <1>2, <1>5 DEF Destroyed
  <1>6. CASE DestroyPool
    BY <1>6 DEF DestroyPool, Destroyed, Ending
  <1>7. CASE StartThread
    BY <1>7 DEF StartThread, Destroyed, Ending
  <1>8. ASSUME NEW v \in Workers,
               \/ BuildLoop(v) \/ Publish(v) \/ EnterLoop(v) \/ TestQuit(v)
               \/ PollReturns(v) \/ UserQuits(v) \/ Served(v)
               \/ Unpublish(v) \/ Unlock(v) \/ DestroyLoop(v)
        PROVE  thread'[w] = "gone"
    <2>1. w \in Destroyed /\ w \notin userQuit
      BY <1>8
      DEF BuildLoop, Publish, EnterLoop, TestQuit, PollReturns, UserQuits,
          Served, Unpublish, Unlock, DestroyLoop, Destroyed, Ending
    <2>2. thread[w] = "gone"
      BY <1>2, <2>1
    <2>3. CASE thread' = thread
      BY <2>2, <2>3
    <2>4. CASE /\ thread[v] # "gone"
               /\ \E to \in ThreadPlaces : thread' = [thread EXCEPT ![v] = to]
      BY <1>1, <2>2, <2>4
    <2>5. QED
      BY <1>8, <2>3, <2>4
      DEF BuildLoop, Publish, EnterLoop, TestQuit, PollReturns, UserQuits,
          Served, Unpublish, Unlock, DestroyLoop, Go, ThreadPlaces
  <1>9. QED
    BY Steps, <1>3, <1>4, <1>5, <1>6, <1>7, <1>8
    DEF StartLoopLocked, Started, SpuriousWakeup, GetNextLoop, Quit, Wakeup,
        vars, Ending

-----------------------------------------------------------------------------
\* The invariant from which the properties below follow.
THEOREM IInvHolds == Spec => []IInv
  <1>1. IInv /\ [Next]_vars => IInv'
    BY TypeInductive, TurnsInductive, StartedInductive, EndsInductive,
       DestroyInductive
    DEF IInv
  <1>2. QED
    BY InitIInv, <1>1, PTL DEF Spec

\* Every variable has its type and _next is an index of _loops, so that
\* getNextLoop reads no element past the end.
THEOREM TypeCorrect == Spec => []TypeOK
  <1>1. IInv => TypeOK
    BY DEF IInv
  <1>2. QED
    BY <1>1, IInvHolds, PTL

\* getNextLoop hands the loops out evenly, for any number of threads and of
\* calls.
THEOREM SharedOutEvenlyHolds == Spec => []SharedOutEvenly
  <1>1. ASSUME IInv, NEW v \in 1 .. numLoops, NEW w \in 1 .. numLoops
        PROVE  given[v] <= given[w] + 1
    <2>1. given[numLoops] \in Nat
      BY <1>1, PoolAssumption DEF IInv, TypeOK, Workers
    <2>2. QED
      BY <1>1, <2>1 DEF IInv, TypeOK, TurnsTaken
  <1>2. IInv => SharedOutEvenly
    BY <1>1 DEF IInv, TypeOK, TurnsTaken, SharedOutEvenly
  <1>3. QED
    BY <1>2, IInvHolds, PTL

\* start() leaves in _loops only loops that live, until a callback ends one.
THEOREM LoopsAreLiveHolds == Spec => []LoopsAreLive
  <1>1. ASSUME IInv, base = "serving", NEW w \in 1 .. numLoops,
               w \notin userQuit
        PROVE  LoopExists(w) /\ published[w]
    <2>1. w \in Workers /\ ~ Told(w)
      BY <1>1, PoolAssumption DEF IInv, TypeOK, Told, Ending, Workers
    <2>2. InStep(w) /\ w <= numLoops /\ thread[w] \in ThreadPlaces
      BY <1>1, <2>1 DEF IInv, TypeOK, StartedInOrder
    <2>3. thread[w] \notin {"left", "locked", "unwind", "gone"}
      BY <1>1, <2>1 DEF IInv, EndsWhenTold
    <2>4. QED
      BY <2>2, <2>3 DEF InStep, ThreadPlaces, LoopExists
  <1>2. IInv => LoopsAreLive
    BY <1>1 DEF LoopsAreLive
  <1>3. QED
    BY <1>2, IInvHolds, PTL

\* No thread is inside threadFunc when its EventLoopThread is destroyed,
\* unless a callback had ended its loop.
THEOREM NoUseAfterDestroyHolds == Spec => []NoUseAfterDestroy
  <1>1. IInv => NoUseAfterDestroy
    BY DEF IInv
  <1>2. QED
    BY <1>1, IInvHolds, PTL
=============================================================================
