---------------------------- MODULE LoggerProofs ----------------------------
(***************************************************************************)
(* Machine-checked proofs about Logger, for any threads, messages, levels  *)
(* and times: types, no lost notification, which level and which time a    *)
(* line may carry, and the refinement of TaskQueue.                        *)
(***************************************************************************)
EXTENDS Logger, SequenceLemmas, TLAPS

-----------------------------------------------------------------------------
(* Types.                                                                  *)

\* The variables have their types in the initial state.
LEMMA InitTypeOK == Init => TypeOK
  <1>1. /\ << >> \in Seq(Messages)
        /\ << >> \in Seq(Lines)
    BY EmptySeq
  <1>2. 0 \in 0 .. MaxTime
    BY LoggerAssumption
  <1>3. QED
    BY <1>1, <1>2 DEF Init, TypeOK, Places, LogLevels

\* A macro keeps the types.
LEMMA SetLogLevelTypeOK ==
  ASSUME TypeOK, NEW t \in Threads, NEW m \in Messages, SetLogLevel(t, m)
  PROVE  TypeOK'
  <1>1. macros' \in Seq(Messages)
    BY AppendProperties DEF SetLogLevel, TypeOK
  <1>2. Level[m] \in LogLevels
    BY LoggerAssumption
  <1>3. QED
    BY <1>1, <1>2 DEF SetLogLevel, LevelSet, TypeOK, writerVars

\* Push keeps the types.
LEMMA LogTypeOK ==
  ASSUME TypeOK, NEW t \in Threads, Log(t), writer # "exited"
  PROVE  TypeOK'
  <1>1. caller[t] \in Messages
    BY DEF Log, TypeOK
  <1>2. queue_' \in Seq(Messages)
    BY <1>1, AppendProperties DEF Log, TypeOK
  <1>3. writer' \in Places /\ (writer' = "write" <=> writer = "write")
    BY DEF Log, Notified, TypeOK, Places
  <1>4. QED
    BY <1>2, <1>3 DEF Log, TypeOK, writerVars

\* The writer keeps the types.
LEMMA WriterTypeOK == TypeOK /\ WriterStep => TypeOK'
  <1> SUFFICES ASSUME TypeOK, WriterStep PROVE TypeOK'
    OBVIOUS
  <1>1. CASE TakeTime
    BY <1>1 DEF TakeTime, Clock, TypeOK, Places, callVars
  <1>2. CASE Pop
    <2>1. /\ Head(queue_) \in Messages
          /\ Tail(queue_) \in Seq(Messages)
      BY <1>2, HeadTailProperties DEF Pop, TypeOK
    <2>2. /\ msg' = Head(queue_)
          /\ queue_' = Tail(queue_)
      BY <1>2 DEF Pop, Popped
    <2>3. QED
      BY <1>2, <2>1, <2>2, LoggerAssumption DEF Pop, TypeOK, Places, callVars
  <1>3. CASE Wait
    BY <1>3 DEF Wait, TypeOK, Places, callVars, writerVars
  <1>4. CASE WriteLine
    <2>1. [msg |-> msg, time |-> nowtm, tag |-> Shown(level_), at |-> now]
            \in Lines
      BY <1>4 DEF WriteLine, TypeOK, Lines, Shown
    <2>2. file' \in Seq(Lines)
      BY <1>4, <2>1, AppendProperties DEF WriteLine, TypeOK
    <2>3. QED
      BY <1>4, <2>2 DEF WriteLine, TypeOK, Places, callVars
  <1>5. QED
    BY <1>1, <1>2, <1>3, <1>4 DEF WriterStep

\* Every step keeps the types.
LEMMA NextTypeOK == TypeOK /\ [Next]_vars => TypeOK'
  <1> SUFFICES ASSUME TypeOK, [Next]_vars PROVE TypeOK'
    OBVIOUS
  <1>1. CASE UNCHANGED vars
    BY <1>1 DEF TypeOK, vars, callVars, writerVars
  <1>2. ASSUME NEW t \in Threads, Log(t), writer # "exited"
        PROVE  TypeOK'
    BY <1>2, LogTypeOK
  <1>3. ASSUME NEW t \in Threads, NEW m \in Messages, SetLogLevel(t, m)
        PROVE  TypeOK'
    BY <1>3, SetLogLevelTypeOK
  <1>4. CASE WriterStep
    BY <1>4, WriterTypeOK
  <1>5. CASE SpuriousWakeup
    BY <1>5 DEF SpuriousWakeup, TypeOK, Places, callVars, writerVars
  <1>6. CASE Tick
    BY <1>6, LoggerAssumption DEF Tick, TypeOK, callVars, writerVars
  <1>7. CASE ProcessEnds
    BY <1>7 DEF ProcessEnds, TypeOK, Places, callVars, writerVars
  <1>8. QED
    BY <1>1, <1>2, <1>3, <1>4, <1>5, <1>6, <1>7 DEF Next

\* For any threads, messages and times the variables of the logger keep
\* their types, and the writer formats a line exactly when it has popped a
\* message (base/logger.h, base/lockqueue.h).
THEOREM TypeCorrect == Spec => []TypeOK
  BY InitTypeOK, NextTypeOK, PTL DEF Spec

-----------------------------------------------------------------------------
(* The inductive invariant.  Each part is about what a macro began and the *)
(* writer has not yet finished.                                            *)

Pushed(m) ==
    \/ m \in Range(queue_)
    \/ m = msg
    \/ \E i \in DOMAIN file : file[i].msg = m

\* What is pushed was begun by a macro.
PushedBegan == \A m \in Messages : Pushed(m) => m \in Range(macros)

\* A message inside a macro was begun, is not pushed yet, and is in no other
\* thread's macro.
CallsAreFresh ==
    \A t \in Threads : caller[t] # NoMessage =>
      /\ caller[t] \in Range(macros)
      /\ ~ Pushed(caller[t])
      /\ \A u \in Threads \ {t} : caller[u] # caller[t]

\* level_ is the level of the macro that began last.
LevelIsLast ==
    level_ = IF macros = << >> THEN "INFO" ELSE Level[macros[Len(macros)]]

\* The last line was written before the time of the next one was taken.
LastLineAt == file[Len(file)].at
ClockOrder ==
    /\ nowtm <= now
    /\ file # << >> =>
         /\ LastLineAt <= now
         /\ writer \in {"pop", "waiting", "write"} => LastLineAt <= nowtm

IInv ==
    /\ TypeOK
    /\ NoLostNotify
    /\ PushedBegan
    /\ CallsAreFresh
    /\ LevelIsLast
    /\ ClockOrder
    /\ TagIsNotStale
    /\ TimeIsAfterLineBefore

\* Initially nothing was said, and the writer does not wait.
LEMMA InitIInv == Init => IInv
  <1> SUFFICES ASSUME Init PROVE IInv
    OBVIOUS
  <1>1. Range(queue_) = {} /\ DOMAIN file = {}
    BY DEF Init, Range
  <1>2. PushedBegan /\ CallsAreFresh
    BY <1>1, LoggerAssumption DEF Init, PushedBegan, CallsAreFresh, Pushed
  <1>3. LevelIsLast /\ NoLostNotify /\ ClockOrder
    BY DEF Init, LevelIsLast, NoLostNotify, ClockOrder
  <1>4. TagIsNotStale /\ TimeIsAfterLineBefore
    BY <1>1 DEF TagIsNotStale, TimeIsAfterLineBefore
  <1>5. QED
    BY <1>2, <1>3, <1>4, InitTypeOK DEF IInv

-----------------------------------------------------------------------------
(* The steps.                                                              *)

\* The line that WriteLine adds, and the lines before it.
LEMMA NewLine ==
  ASSUME TypeOK, WriteLine
  PROVE  /\ Len(file) \in Nat
         /\ DOMAIN file = 1 .. Len(file)
         /\ DOMAIN file' = 1 .. Len(file) + 1
         /\ Len(file') = Len(file) + 1
         /\ \A i \in 1 .. Len(file) : file'[i] = file[i]
         /\ file'[Len(file) + 1] =
              [msg |-> msg, time |-> nowtm, tag |-> Shown(level_), at |-> now]
  <1> DEFINE line ==
         [msg |-> msg, time |-> nowtm, tag |-> Shown(level_), at |-> now]
  <1>1. line \in Lines
    BY DEF WriteLine, TypeOK, Lines, Shown
  <1>2. file' = Append(file, line) /\ file \in Seq(Lines)
    BY DEF WriteLine, TypeOK
  <1> HIDE DEF line
  <1>3. /\ file' \in Seq(Lines)
        /\ Len(file') = Len(file) + 1
        /\ \A i \in 1 .. Len(file) : file'[i] = file[i]
        /\ file'[Len(file) + 1] = line
    BY <1>1, <1>2, AppendProperties
  <1>4. /\ Len(file) \in Nat
        /\ DOMAIN file = 1 .. Len(file)
        /\ DOMAIN file' = 1 .. Len(file')
    BY <1>2, <1>3, LenProperties
  <1>5. QED
    BY <1>3, <1>4 DEF line

\* A macro adds its message to macros.
LEMMA NewMacro ==
  ASSUME TypeOK, NEW t \in Threads, NEW m \in Messages, SetLogLevel(t, m)
  PROVE  /\ Len(macros) \in Nat
         /\ DOMAIN macros = 1 .. Len(macros)
         /\ DOMAIN macros' = 1 .. Len(macros) + 1
         /\ Len(macros') = Len(macros) + 1
         /\ \A i \in 1 .. Len(macros) : macros'[i] = macros[i]
         /\ macros'[Len(macros) + 1] = m
         /\ macros' # << >>
         /\ Range(macros') = Range(macros) \cup {m}
  <1>1. macros' = Append(macros, m) /\ macros \in Seq(Messages)
    BY DEF SetLogLevel, TypeOK
  <1>2. /\ macros' \in Seq(Messages)
        /\ macros' # << >>
        /\ Len(macros') = Len(macros) + 1
        /\ \A i \in 1 .. Len(macros) : macros'[i] = macros[i]
        /\ macros'[Len(macros) + 1] = m
    BY <1>1, AppendProperties
  <1>3. /\ Len(macros) \in Nat
        /\ DOMAIN macros = 1 .. Len(macros)
        /\ DOMAIN macros' = 1 .. Len(macros')
    BY <1>1, <1>2, LenProperties
  <1>4. Range(macros') = Range(macros) \cup {m}
    BY <1>1, RangeOfAppend
  <1>5. QED
    BY <1>2, <1>3, <1>4

\* The writer moves a message from the queue to msg to the file: what is
\* pushed stays the same.
LEMMA WriterKeepsPushed ==
  ASSUME TypeOK, WriterStep, NEW m \in Messages
  PROVE  Pushed(m)' <=> Pushed(m)
  <1>1. CASE TakeTime \/ Wait
    BY <1>1 DEF TakeTime, Wait, Pushed, writerVars
  <1>2. CASE Pop
    <2>1. /\ msg' = Head(queue_)
          /\ queue_' = Tail(queue_)
          /\ file' = file
          /\ queue_ \in Seq(Messages)
          /\ queue_ # << >>
          /\ msg = NoMessage
      BY <1>2 DEF Pop, Popped, TypeOK
    <2>2. Range(queue_) = {msg'} \cup Range(queue_')
      BY <2>1, RangeOfHeadTail
    <2>3. QED
      BY <2>1, <2>2, LoggerAssumption DEF Pushed
  <1>3. CASE WriteLine
    <2>1. queue_' = queue_ /\ msg' = NoMessage
      BY <1>3 DEF WriteLine
    <2>2. (\E i \in DOMAIN file' : file'[i].msg = m)
            <=> (\E i \in DOMAIN file : file[i].msg = m) \/ m = msg
      BY <1>3, NewLine
    <2>3. QED
      BY <2>1, <2>2, LoggerAssumption DEF Pushed
  <1>4. QED
    BY <1>1, <1>2, <1>3 DEF WriterStep

\* Push adds the message of the macro, and nothing else.
LEMMA LogPushes ==
  ASSUME TypeOK, NEW t \in Threads, Log(t), NEW m \in Messages
  PROVE  Pushed(m)' <=> Pushed(m) \/ m = caller[t]
  <1>1. caller[t] \in Messages /\ queue_ \in Seq(Messages)
    BY DEF Log, TypeOK
  <1>2. Range(queue_') = Range(queue_) \cup {caller[t]}
    BY <1>1, RangeOfAppend DEF Log
  <1>3. QED
    BY <1>2 DEF Log, Pushed, writerVars

\* Messages are begun, inside a macro, pushed, in this order and once.
LEMMA NextFresh ==
  ASSUME IInv, [Next]_vars
  PROVE  PushedBegan' /\ CallsAreFresh'
  <1> USE DEF IInv
  <1>1. ASSUME UNCHANGED <<caller, macros>>,
               \A m \in Messages : Pushed(m)' <=> Pushed(m)
        PROVE  PushedBegan' /\ CallsAreFresh'
    BY <1>1 DEF PushedBegan, CallsAreFresh, TypeOK
  <1>2. ASSUME NEW t \in Threads, NEW m \in Messages, SetLogLevel(t, m)
        PROVE  PushedBegan' /\ CallsAreFresh'
    <2>1. /\ caller' = [caller EXCEPT ![t] = m]
          /\ caller \in [Threads -> Messages \cup {NoMessage}]
          /\ m \notin Range(macros)
      BY <1>2 DEF SetLogLevel, TypeOK
    <2>2. Range(macros') = Range(macros) \cup {m}
      BY <1>2, NewMacro
    <2>3. \A n : Pushed(n)' <=> Pushed(n)
      BY <1>2 DEF SetLogLevel, Pushed, writerVars
    <2>4. PushedBegan'
      BY <2>2, <2>3 DEF PushedBegan
    <2>5. ~ Pushed(m)
      BY <2>1 DEF PushedBegan
    <2>6. CallsAreFresh'
      BY <2>1, <2>2, <2>3, <2>5 DEF CallsAreFresh
    <2>7. QED
      BY <2>4, <2>6
  <1>3. ASSUME NEW t \in Threads, Log(t)
        PROVE  PushedBegan' /\ CallsAreFresh'
    <2>1. /\ caller' = [caller EXCEPT ![t] = NoMessage]
          /\ caller \in [Threads -> Messages \cup {NoMessage}]
          /\ caller[t] # NoMessage
          /\ macros' = macros
      BY <1>3 DEF Log, TypeOK
    <2>2. \A m \in Messages : Pushed(m)' <=> Pushed(m) \/ m = caller[t]
      BY <1>3, LogPushes
    <2>3. PushedBegan'
      BY <2>1, <2>2 DEF PushedBegan, CallsAreFresh
    <2>4. CallsAreFresh'
      BY <2>1, <2>2 DEF CallsAreFresh
    <2>5. QED
      BY <2>3, <2>4
  <1>4. CASE WriterStep
    <2>1. UNCHANGED <<caller, macros>>
      BY <1>4 DEF WriterStep, TakeTime, Pop, Wait, WriteLine, callVars
    <2>2. QED
      BY <1>1, <1>4, <2>1, WriterKeepsPushed
  <1>5. CASE SpuriousWakeup \/ Tick \/ ProcessEnds \/ UNCHANGED vars
    <2>1. /\ UNCHANGED <<caller, macros>>
          /\ \A m \in Messages : Pushed(m)' <=> Pushed(m)
      BY <1>5 DEF SpuriousWakeup, Tick, ProcessEnds, vars, callVars,
           writerVars, Pushed
    <2>2. QED
      BY <1>1, <2>1
  <1>6. QED
    BY <1>2, <1>3, <1>4, <1>5 DEF Next

\* level_ follows the last macro; only setLogLevel touches either.
LEMMA NextLevel ==
  ASSUME IInv, [Next]_vars
  PROVE  LevelIsLast'
  <1>1. ASSUME NEW t \in Threads, NEW m \in Messages, SetLogLevel(t, m)
        PROVE  LevelIsLast'
    <2>1. macros' # << >> /\ macros'[Len(macros')] = m
      BY <1>1, NewMacro DEF IInv
    <2>2. level_' = Level[m]
      BY <1>1 DEF SetLogLevel, LevelSet
    <2>3. QED
      BY <2>1, <2>2 DEF LevelIsLast
  <1>2. ASSUME UNCHANGED <<level_, macros>> PROVE LevelIsLast'
    BY <1>2 DEF IInv, LevelIsLast
  <1>3. QED
    BY <1>1, <1>2 DEF Next, Log, WriterStep, TakeTime, Pop, Wait, WriteLine,
         SpuriousWakeup, Tick, ProcessEnds, vars, callVars

\* The writer goes to wait with the mutex held and the queue empty, and a
\* push takes it out of the wait.
LEMMA NextNotify ==
  ASSUME IInv, [Next]_vars
  PROVE  NoLostNotify'
  <1> USE DEF IInv, NoLostNotify
  <1>1. CASE UNCHANGED vars
    BY <1>1 DEF vars
  <1>2. ASSUME NEW t \in Threads, Log(t) PROVE NoLostNotify'
    BY <1>2 DEF Log, Notified
  <1>3. ASSUME NEW t \in Threads, NEW m \in Messages, SetLogLevel(t, m)
        PROVE  NoLostNotify'
    BY <1>3 DEF SetLogLevel
  <1>4. CASE WriterStep
    BY <1>4 DEF WriterStep, TakeTime, Pop, Wait, WriteLine
  <1>5. CASE SpuriousWakeup \/ Tick \/ ProcessEnds
    BY <1>5 DEF SpuriousWakeup, Tick, ProcessEnds
  <1>6. QED
    BY <1>1, <1>2, <1>3, <1>4, <1>5 DEF Next

\* The clock goes on, the writer reads it after it has written.
LEMMA NextClock ==
  ASSUME IInv, [Next]_vars
  PROVE  ClockOrder'
  <1> USE DEF ClockOrder, LastLineAt
  <1>1. /\ now \in Nat /\ nowtm \in Nat
        /\ file # << >> => file[Len(file)].at \in Nat
    <2>1. file # << >> => Len(file) \in 1 .. Len(file)
      BY EmptySeq DEF IInv, TypeOK
    <2>2. file # << >> => file[Len(file)] \in Lines
      BY <2>1, ElementOfSeq DEF IInv, TypeOK
    <2>3. QED
      BY <2>2 DEF IInv, TypeOK, Lines
  <1>2. ASSUME UNCHANGED <<now, nowtm, file>>,
               \/ writer' \notin {"pop", "waiting", "write"}
               \/ writer \in {"pop", "waiting", "write"}
        PROVE  ClockOrder'
    BY <1>2 DEF IInv
  <1>3. CASE UNCHANGED vars
    BY <1>3 DEF IInv, vars, writerVars
  <1>4. ASSUME NEW t \in Threads, Log(t) PROVE ClockOrder'
    BY <1>4 DEF IInv, Log, Notified, writerVars
  <1>5. ASSUME NEW t \in Threads, NEW m \in Messages, SetLogLevel(t, m)
        PROVE  ClockOrder'
    BY <1>5 DEF IInv, SetLogLevel, writerVars
  <1>6. CASE TakeTime
    BY <1>1, <1>6 DEF IInv, TakeTime, Clock
  <1>7. CASE Pop \/ Wait \/ SpuriousWakeup \/ ProcessEnds
    BY <1>2, <1>7 DEF Pop, Wait, SpuriousWakeup, ProcessEnds,
         writerVars
  <1>8. CASE WriteLine
    <2>1. file'[Len(file')].at = now
      BY <1>8, NewLine DEF IInv
    <2>2. UNCHANGED <<now, nowtm>> /\ writer' = "takeTime"
      BY <1>8 DEF WriteLine
    <2>3. QED
      BY <1>1, <2>1, <2>2 DEF IInv
  <1>9. CASE Tick
    BY <1>1, <1>9 DEF IInv, Tick, writerVars
  <1>10. QED
    BY <1>3, <1>4, <1>5, <1>6, <1>7, <1>8, <1>9 DEF Next, WriterStep

\* A new macro adds to macros at the end, a new line looks at the end.
LEMMA NextTags ==
  ASSUME IInv, [Next]_vars
  PROVE  TagIsNotStale'
  <1>0. TypeOK /\ TagIsNotStale
    BY DEF IInv
  <1>1. CASE UNCHANGED <<macros, file>>
    BY <1>0, <1>1 DEF TagIsNotStale
  <1>2. ASSUME NEW t \in Threads, NEW m \in Messages, SetLogLevel(t, m)
        PROVE  TagIsNotStale'
    <2>1. file' = file
      BY <1>2 DEF SetLogLevel
    <2>2. \A j \in DOMAIN macros : j \in DOMAIN macros' /\ macros'[j] = macros[j]
      BY <1>0, <1>2, NewMacro
    <2>3. QED
      BY <1>0, <2>1, <2>2 DEF TagIsNotStale
  <1>3. CASE WriteLine
    <2> SUFFICES ASSUME NEW i \in DOMAIN file'
                 PROVE  \E j, k \in DOMAIN macros :
                          /\ macros[j] = file'[i].msg
                          /\ j <= k
                          /\ file'[i].tag = Shown(Level[macros[k]])
      BY <1>3 DEF TagIsNotStale, WriteLine, callVars
    <2>1. CASE i \in DOMAIN file
      BY <1>0, <1>3, <2>1, NewLine DEF TagIsNotStale
    <2>2. CASE i \notin DOMAIN file
      <3>1. file'[i].msg = msg /\ file'[i].tag = Shown(level_)
        BY <1>0, <1>3, <2>2, NewLine
      <3>2. msg \in Range(macros)
        BY <1>3 DEF IInv, TypeOK, PushedBegan, Pushed, WriteLine
      <3>3. PICK j \in DOMAIN macros : macros[j] = msg
        BY <3>2 DEF Range
      <3>4. /\ DOMAIN macros = 1 .. Len(macros)
            /\ Len(macros) \in Nat
            /\ macros # << >>
        BY <1>0, <3>3, LenProperties, EmptySeq DEF TypeOK
      <3>5. /\ Len(macros) \in DOMAIN macros
            /\ j <= Len(macros)
            /\ level_ = Level[macros[Len(macros)]]
        BY <3>4 DEF IInv, LevelIsLast
      <3>6. QED
        BY <3>1, <3>3, <3>5
    <2>3. QED
      BY <2>1, <2>2
  <1>4. QED
    BY <1>1, <1>2, <1>3 DEF Next, Log, WriterStep, TakeTime, Pop, Wait,
         SpuriousWakeup, Tick, ProcessEnds, vars, callVars

\* A new line has the time of its wait, after the line before.
LEMMA NextTimes ==
  ASSUME IInv, [Next]_vars
  PROVE  TimeIsAfterLineBefore'
  <1>0. TypeOK /\ TimeIsAfterLineBefore
    BY DEF IInv
  <1>1. CASE UNCHANGED file
    BY <1>0, <1>1 DEF TimeIsAfterLineBefore
  <1>2. CASE WriteLine
    <2>1. file # << >> => Len(file) \in Nat \ {0} /\ LastLineAt <= nowtm
      BY <1>2, EmptySeq DEF IInv, TypeOK, ClockOrder, WriteLine
    <2>2. nowtm <= now
      BY DEF IInv, ClockOrder
    <2> SUFFICES ASSUME NEW i \in DOMAIN file'
                 PROVE  /\ file'[i].time <= file'[i].at
                        /\ i > 1 => file'[i - 1].at <= file'[i].time
      BY DEF TimeIsAfterLineBefore
    <2>3. CASE i \in DOMAIN file
      <3>1. file'[i] = file[i] /\ (i > 1 => file'[i - 1] = file[i - 1])
        BY <1>0, <1>2, <2>3, NewLine
      <3>2. QED
        BY <1>0, <2>3, <3>1 DEF TimeIsAfterLineBefore
    <2>4. CASE i \notin DOMAIN file
      <3>1. i = Len(file) + 1 /\ Len(file) \in Nat
        BY <1>0, <1>2, <2>4, NewLine
      <3>2. file'[i].time = nowtm /\ file'[i].at = now
        BY <1>0, <1>2, <3>1, NewLine
      <3>3. ASSUME i > 1 PROVE file'[i - 1].at <= nowtm
        <4>1. i - 1 = Len(file) /\ Len(file) \in 1 .. Len(file)
          BY <3>1, <3>3
        <4>2. file # << >>
          BY <4>1, EmptySeq
        <4>3. file'[Len(file)] = file[Len(file)]
          BY <1>0, <1>2, <4>1, NewLine
        <4>4. QED
          BY <2>1, <4>1, <4>2, <4>3 DEF LastLineAt
      <3>4. QED
        BY <2>2, <3>2, <3>3
    <2>5. QED
      BY <2>3, <2>4
  <1>3. QED
    BY <1>1, <1>2 DEF Next, Log, SetLogLevel, WriterStep, TakeTime, Pop, Wait,
         SpuriousWakeup, Tick, ProcessEnds, vars

\* Every step keeps the invariant.
LEMMA NextIInv == IInv /\ [Next]_vars => IInv'
  BY NextTypeOK, NextNotify, NextFresh, NextLevel, NextClock, NextTags,
     NextTimes DEF IInv

\* What is between a macro and its line, for any threads and messages.
THEOREM IInvHolds == Spec => []IInv
  BY InitIInv, NextIInv, PTL DEF Spec

\* The writer never sleeps while a message is queued: no push falls between
\* its test of the queue and its wait (base/lockqueue.h, Push and Pop).
THEOREM NoLostNotifyHolds == Spec => []NoLostNotify
  <1>1. IInv => NoLostNotify
    BY DEF IInv
  <1>2. QED
    BY <1>1, IInvHolds, PTL

\* A line carries the level of its own macro or of one that began later,
\* however many threads log at once (base/logger.cc:48).
THEOREM TagIsNotStaleHolds == Spec => []TagIsNotStale
  <1>1. IInv => TagIsNotStale
    BY DEF IInv
  <1>2. QED
    BY <1>1, IInvHolds, PTL

\* The time of a line lies between the line before it and the line itself
\* (base/logger.cc:28).
THEOREM TimeIsAfterLineBeforeHolds == Spec => []TimeIsAfterLineBefore
  <1>1. IInv => TimeIsAfterLineBefore
    BY DEF IInv
  <1>2. QED
    BY <1>1, IInvHolds, PTL

-----------------------------------------------------------------------------
(* The refinement of TaskQueue.                                            *)

\* The message being written and those queued are a sequence of messages.
LEMMA UnwrittenIs ==
  ASSUME TypeOK
  PROVE  /\ queue_ \in Seq(Messages)
         /\ << >> \in Seq(Messages)
         /\ Unwritten \in Seq(Messages)
         /\ msg = NoMessage => Unwritten = queue_
         /\ msg # NoMessage =>
              <<msg>> \in Seq(Messages) /\ Unwritten = <<msg>> \o queue_
  <1>1. queue_ \in Seq(Messages) /\ << >> \in Seq(Messages)
    BY EmptySeq DEF TypeOK
  <1>2. CASE msg = NoMessage
    BY <1>1, <1>2, ConcatEmptySeq DEF Unwritten
  <1>3. CASE msg # NoMessage
    <2>1. <<msg>> \in Seq(Messages)
      BY <1>3 DEF TypeOK
    <2>2. Unwritten = <<msg>> \o queue_
      BY <1>3 DEF Unwritten
    <2>3. Unwritten \in Seq(Messages)
      BY <1>1, <2>1, <2>2, ConcatProperties
    <2>4. QED
      BY <1>1, <1>3, <2>1, <2>2, <2>3
  <1>4. QED
    BY <1>2, <1>3

\* A message goes behind the others.
LEMMA ConcatAppend ==
  ASSUME NEW S, NEW s \in Seq(S), NEW q \in Seq(S), NEW elt \in S
  PROVE  s \o Append(q, elt) = Append(s \o q, elt)
  <1>1. <<elt>> \in Seq(S)
    OBVIOUS
  <1>2. Append(q, elt) = q \o <<elt>>
    BY AppendIsConcat
  <1>3. s \o q \in Seq(S)
    BY ConcatProperties
  <1>4. Append(s \o q, elt) = (s \o q) \o <<elt>>
    BY <1>3, AppendIsConcat
  <1>5. QED
    BY <1>1, <1>2, <1>4, ConcatAssociative

\* One element and the rest.
LEMMA ConcatOne ==
  ASSUME NEW S, NEW q \in Seq(S), NEW elt \in S
  PROVE  /\ <<elt>> \o q \in Seq(S)
         /\ <<elt>> \o q # << >>
         /\ Head(<<elt>> \o q) = elt
         /\ Tail(<<elt>> \o q) = q
  <1> DEFINE long == <<elt>> \o q
  <1>1. <<elt>> \in Seq(S) /\ Len(<<elt>>) = 1 /\ <<elt>>[1] = elt
    OBVIOUS
  <1>2. Len(q) \in Nat
    BY LenProperties
  <1>3. /\ long \in Seq(S)
        /\ Len(long) = 1 + Len(q)
        /\ \A i \in 1 .. 1 + Len(q) :
              long[i] = IF i <= 1 THEN <<elt>>[i] ELSE q[i - 1]
    BY <1>1, ConcatProperties
  <1> HIDE DEF long
  <1>4. long # << >> /\ Head(long) = elt
    <2>1. Len(long) # 0 /\ 1 \in 1 .. 1 + Len(q)
      BY <1>2, <1>3
    <2>2. long # << >>
      BY <2>1, EmptySeq
    <2>3. QED
      BY <1>1, <1>3, <2>1, <2>2
  <1>5. /\ Tail(long) \in Seq(S)
        /\ Len(Tail(long)) = Len(long) - 1
        /\ \A i \in 1 .. Len(Tail(long)) : Tail(long)[i] = long[i + 1]
    BY <1>3, <1>4, HeadTailProperties
  <1>6. Len(Tail(long)) = Len(q)
    BY <1>2, <1>3, <1>5
  <1>7. ASSUME NEW i \in 1 .. Len(Tail(long)) PROVE Tail(long)[i] = q[i]
    <2>1. /\ i + 1 \in 1 .. 1 + Len(q)
          /\ ~ (i + 1 <= 1)
          /\ (i + 1) - 1 = i
      BY <1>2, <1>6
    <2>2. QED
      BY <1>3, <1>5, <2>1
  <1>8. Tail(long) = q
    BY <1>5, <1>6, <1>7, SeqEqual
  <1>9. QED
    BY <1>3, <1>4, <1>8 DEF long

\* Taking the head off and putting it in front again changes nothing.
LEMMA HeadAndTail ==
  ASSUME NEW S, NEW q \in Seq(S), q # << >>
  PROVE  <<Head(q)>> \o Tail(q) = q
  <1> DEFINE h == Head(q)
             r == Tail(q)
             long == <<h>> \o r
  <1>1. h \in S /\ r \in Seq(S) /\ Len(r) = Len(q) - 1
    BY HeadTailProperties
  <1>2. Len(q) \in Nat \ {0}
    BY EmptySeq
  <1>3. Head(q) = q[1] /\ \A i \in 1 .. Len(r) : r[i] = q[i + 1]
    BY HeadTailProperties
  <1>4. <<h>> \in Seq(S) /\ Len(<<h>>) = 1 /\ <<h>>[1] = h
    BY <1>1
  <1>5. /\ long \in Seq(S)
        /\ Len(long) = 1 + Len(r)
        /\ \A i \in 1 .. 1 + Len(r) :
              long[i] = IF i <= 1 THEN <<h>>[i] ELSE r[i - 1]
    BY <1>1, <1>4, ConcatProperties
  <1>6. h = q[1]
    BY <1>3
  <1> HIDE DEF h, r, long
  <1>7. Len(long) = Len(q)
    BY <1>1, <1>2, <1>5
  <1>8. ASSUME NEW i \in 1 .. Len(long) PROVE long[i] = q[i]
    <2>1. CASE i = 1
      BY <1>2, <1>4, <1>5, <1>6, <1>7, <2>1
    <2>2. CASE i # 1
      <3>1. i - 1 \in 1 .. Len(r) /\ (i - 1) + 1 = i /\ ~ (i <= 1)
        BY <1>1, <1>2, <1>7, <2>2
      <3>2. r[i - 1] = q[i]
        BY <1>3, <3>1 DEF r
      <3>3. QED
        BY <1>5, <3>1, <3>2
    <2>3. QED
      BY <2>1, <2>2
  <1>9. long = q
    BY <1>5, <1>7, <1>8, SeqEqual
  <1>10. QED
    BY <1>9 DEF long, h, r

\* A message not pushed yet is new to the abstract queue.
LEMMA FreshIsNew ==
  ASSUME TypeOK, NEW m \in Messages, ~ Pushed(m)
  PROVE  TQ!New(m)
  <1>1. m \notin Range(Written)
    BY DEF Range, Written, Pushed
  <1>2. m \notin Range(Unwritten)
    <2>1. CASE msg = NoMessage
      BY <2>1, UnwrittenIs DEF Pushed
    <2>2. CASE msg # NoMessage
      <3>1. Range(Unwritten) = Range(<<msg>>) \cup Range(queue_)
        BY <2>2, UnwrittenIs, RangeConcatenation
      <3>2. Range(<<msg>>) = {msg}
        BY DEF Range
      <3>3. QED
        BY <3>1, <3>2 DEF Pushed
    <2>3. QED
      BY <2>1, <2>2
  <1>3. QED
    BY <1>1, <1>2 DEF TQ!New, TQ!Range, Range

\* Push is Submit.
LEMMA LogIsSubmit ==
  ASSUME IInv, NEW t \in Threads, Log(t)
  PROVE  TQ!Submit(caller[t])
  <1>1. /\ TypeOK
        /\ caller[t] \in Messages
        /\ ~ Pushed(caller[t])
    BY DEF IInv, TypeOK, CallsAreFresh, Log
  <1>2. queue_' = Append(queue_, caller[t]) /\ UNCHANGED <<msg, file>>
    BY DEF Log, writerVars
  <1>3. Unwritten' = Append(Unwritten, caller[t])
    <2> DEFINE front == IF msg = NoMessage THEN << >> ELSE <<msg>>
    <2>1. front \in Seq(Messages)
      BY <1>1, UnwrittenIs
    <2>2. Unwritten = front \o queue_
      BY DEF Unwritten
    <2>3. Unwritten' = front \o Append(queue_, caller[t])
      BY <1>2 DEF Unwritten
    <2> HIDE DEF front
    <2>4. QED
      BY <1>1, <2>1, <2>2, <2>3, UnwrittenIs, ConcatAppend
  <1>4. Written' = Written
    BY <1>2 DEF Written
  <1>5. QED
    BY <1>1, <1>3, <1>4, FreshIsNew DEF TQ!Submit

\* Pop moves the oldest message to msg: nothing changes outside.
LEMMA PopIsStutter ==
  ASSUME TypeOK, Pop
  PROVE  UNCHANGED TQ!vars
  <1>1. /\ msg = NoMessage
        /\ queue_ # << >>
        /\ msg' = Head(queue_)
        /\ queue_' = Tail(queue_)
        /\ file' = file
    BY DEF Pop, Popped, TypeOK
  <1>2. Head(queue_) \in Messages
    BY <1>1, HeadTailProperties DEF TypeOK
  <1>3. Unwritten = queue_
    BY <1>1, UnwrittenIs
  <1>4. Unwritten' = <<Head(queue_)>> \o Tail(queue_)
    BY <1>1, <1>2, LoggerAssumption DEF Unwritten
  <1>5. <<Head(queue_)>> \o Tail(queue_) = queue_
    BY <1>1, HeadAndTail DEF TypeOK
  <1>6. QED
    BY <1>1, <1>3, <1>4, <1>5 DEF TQ!vars, Written

\* Writing the line is running the oldest task.
LEMMA WriteIsRunOldest ==
  ASSUME TypeOK, WriteLine
  PROVE  TQ!RunOldest
  <1>1. /\ msg # NoMessage
        /\ msg \in Messages
        /\ queue_ \in Seq(Messages)
        /\ msg' = NoMessage
        /\ queue_' = queue_
    BY DEF WriteLine, TypeOK
  <1>2. Unwritten = <<msg>> \o queue_
    BY <1>1, UnwrittenIs
  <1>3. /\ Unwritten # << >>
        /\ Head(Unwritten) = msg
        /\ Tail(Unwritten) = queue_
    BY <1>1, <1>2, ConcatOne
  <1>4. Unwritten' = queue_
    <2>1. Unwritten' = << >> \o queue_
      BY <1>1 DEF Unwritten
    <2>2. QED
      BY <1>1, <2>1, ConcatEmptySeq
  <1>5. Written' = Append(Written, msg)
    <2>1. /\ Len(file) \in Nat
          /\ DOMAIN file = 1 .. Len(file)
          /\ DOMAIN file' = 1 .. Len(file) + 1
          /\ \A i \in 1 .. Len(file) : file'[i] = file[i]
          /\ file'[Len(file) + 1].msg = msg
      BY NewLine
    <2>2. /\ Written = [i \in 1 .. Len(file) |-> file[i].msg]
          /\ Written' = [i \in 1 .. Len(file) + 1 |-> file'[i].msg]
      BY <2>1 DEF Written
    <2>3. \A i \in 1 .. Len(file) : file[i].msg \in Messages
      <3>1. \A i \in 1 .. Len(file) : file[i] \in Lines
        BY ElementOfSeq DEF TypeOK
      <3>2. QED
        BY <3>1 DEF Lines
    <2>4. Written \in Seq(Messages) /\ Len(Written) = Len(file)
      BY <2>1, <2>2, <2>3
    <2>5. /\ Written' \in Seq(Messages)
          /\ Len(Written') = Len(file) + 1
      <3>1. \A i \in 1 .. Len(file) + 1 : file'[i].msg \in Messages
        BY <1>1, <2>1, <2>3
      <3>2. QED
        BY <2>1, <2>2, <3>1
    <2> DEFINE longer == Append(Written, msg)
    <2>6. /\ longer \in Seq(Messages)
          /\ Len(longer) = Len(file) + 1
          /\ \A i \in 1 .. Len(file) : longer[i] = Written[i]
          /\ longer[Len(file) + 1] = msg
      BY <1>1, <2>4, AppendProperties
    <2> HIDE DEF longer
    <2>7. ASSUME NEW i \in 1 .. Len(Written')
          PROVE  Written'[i] = longer[i]
      <3>1. CASE i = Len(file) + 1
        BY <2>1, <2>2, <2>5, <2>6, <3>1
      <3>2. CASE i # Len(file) + 1
        <4>1. i \in 1 .. Len(file) /\ i \in 1 .. Len(file) + 1
          BY <2>1, <2>5, <3>2
        <4>2. Written'[i] = file[i].msg /\ Written[i] = file[i].msg
          BY <2>1, <2>2, <4>1
        <4>3. QED
          BY <2>6, <4>1, <4>2
      <3>3. QED
        BY <3>1, <3>2
    <2>8. Written' = longer
      BY <2>5, <2>6, <2>7, SeqEqual
    <2>9. QED
      BY <2>8 DEF longer
  <1>6. QED
    BY <1>3, <1>4, <1>5 DEF TQ!RunOldest

\* Every step of the logger is a step of the abstract queue or none.
LEMMA NextImplements == IInv /\ [Next]_vars => [TQ!Next]_TQ!vars
  <1> SUFFICES ASSUME IInv, [Next]_vars PROVE [TQ!Next]_TQ!vars
    OBVIOUS
  <1>0. TypeOK
    BY DEF IInv
  <1>1. ASSUME NEW t \in Threads, Log(t) PROVE TQ!Next
    <2>1. caller[t] \in Messages
      BY <1>0, <1>1 DEF Log, TypeOK
    <2>2. QED
      BY <1>1, <2>1, LogIsSubmit DEF TQ!Next
  <1>2. CASE Pop
    BY <1>0, <1>2, PopIsStutter
  <1>3. CASE WriteLine
    BY <1>0, <1>3, WriteIsRunOldest DEF TQ!Next
  <1>4. ASSUME UNCHANGED <<queue_, msg, file>> PROVE UNCHANGED TQ!vars
    BY <1>4 DEF TQ!vars, Unwritten, Written
  <1>5. QED
    BY <1>1, <1>2, <1>3, <1>4 DEF Next, SetLogLevel, WriterStep, TakeTime,
         Wait, SpuriousWakeup, Tick, ProcessEnds, vars, writerVars

\* For any threads and messages, the lines are those of the messages pushed,
\* in the order of the pushes, each once (base/lockqueue.h, Push and Pop;
\* base/logger.cc, the writer thread).
THEOREM ImplementsTaskQueueHolds == Spec => ImplementsTaskQueue
  <1>1. Init => TQ!Init
    <2> SUFFICES ASSUME Init PROVE Unwritten = << >> /\ Written = << >>
      BY DEF TQ!Init
    <2>1. Unwritten = << >>
      BY EmptySeq, ConcatEmptySeq DEF Init, Unwritten
    <2>2. Written = << >>
      BY DEF Init, Written
    <2>3. QED
      BY <2>1, <2>2
  <1>2. QED
    BY <1>1, IInvHolds, NextImplements, PTL
    DEF Spec, TQ!Spec, ImplementsTaskQueue

=============================================================================
