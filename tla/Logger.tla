------------------------------- MODULE Logger -------------------------------
(***************************************************************************)
(* base/logger.{h,cc} and base/lockqueue.h: the LOG_ macros of any thread, *)
(* the queue behind its mutex and condition variable, and the one writer   *)
(* thread that appends the lines to the day's file.                        *)
(*                                                                         *)
(* A macro is two steps, the assignment of level_, which no lock guards,   *)
(* and the push.  The writer takes the time and opens the file before it   *)
(* waits for a message, and looks at level_ when it formats the line.      *)
(***************************************************************************)
EXTENDS Integers, SequencesExt

CONSTANTS
    Threads,    \* threads that log
    Messages,   \* calls of a LOG_ macro, each made once
    NoMessage,  \* no call is under way
    Level,      \* the macro of each call
    MaxTime     \* bound: time(nullptr)

LogLevels == {"INFO", "ERROR", "FATAL", "DEBUG"}

ASSUME LoggerAssumption ==
    /\ NoMessage \notin Messages
    /\ Level \in [Messages -> LogLevels]
    /\ MaxTime \in Nat

VARIABLES
    level_,   \* the one level of the Logger
    caller,   \* the message with which each thread is inside a macro
    queue_,   \* the queue of the LockQueue
    writer,   \* where the writer thread is
    nowtm,    \* the time it took for its next line
    msg,      \* the message it popped
    now,      \* the clock
    macros,   \* history: the messages in the order of setLogLevel
    file      \* history: the lines written

callVars   == <<level_, caller, macros>>
writerVars == <<nowtm, msg>>
vars == <<callVars, queue_, writer, writerVars, now, file>>

\* At the top of its loop, in Pop, asleep in Pop, formatting the line; or the
\* process has ended.
Places == {"takeTime", "pop", "waiting", "write", "exited"}

Lines == [msg : Messages, time : 0 .. MaxTime, tag : {"info", "error"},
          at : 0 .. MaxTime]

\* The first macro builds the Logger, which starts the writer.  The Logger is
\* static, so level_ is zero at first, which is INFO.
Init ==
    /\ level_ = "INFO"
    /\ caller = [t \in Threads |-> NoMessage]
    /\ queue_ = << >>
    /\ writer = "takeTime"
    /\ nowtm = 0
    /\ msg = NoMessage
    /\ now = 0
    /\ macros = << >>
    /\ file = << >>

-----------------------------------------------------------------------------
(* A thread in a LOG_ macro.                                               *)

\* Mutant of LevelSet: one of the macros forgets it.
LevelSetNotByDebug(m) == IF Level[m] = "DEBUG" THEN level_ ELSE Level[m]

\* Each macro passes its own level to setLogLevel.
LevelSet(m) == Level[m]

SetLogLevel(t, m) ==
    /\ caller[t] = NoMessage
    /\ m \notin Range(macros)
    /\ level_' = LevelSet(m)
    /\ macros' = Append(macros, m)
    /\ caller' = [caller EXCEPT ![t] = m]
    /\ UNCHANGED <<queue_, writer, writerVars, now, file>>

\* Mutant of Notified: no notify_one.
NeverNotified == writer

\* notify_one wakes the writer if it waits.
Notified == IF writer = "waiting" THEN "pop" ELSE writer

\* LockQueue::Push, under the mutex.
Log(t) ==
    /\ caller[t] # NoMessage
    /\ queue_' = Append(queue_, caller[t])
    /\ caller' = [caller EXCEPT ![t] = NoMessage]
    /\ writer' = Notified
    /\ UNCHANGED <<level_, writerVars, now, macros, file>>

-----------------------------------------------------------------------------
(* The writer thread.                                                      *)

\* Mutant of Clock: the time is taken only for the first line.
ClockOnce == IF file = << >> THEN now ELSE nowtm

\* time(nullptr).
Clock == now

\* The time, and the file of that day; the process exits if it cannot be
\* opened.
TakeTime ==
    /\ writer = "takeTime"
    /\ nowtm' = Clock
    /\ writer' \in {"pop", "exited"}
    /\ UNCHANGED <<callVars, queue_, msg, now, file>>

\* Mutants of Popped: the newest message is taken; the queue is emptied for
\* one message.
PoppedNewest == <<Last(queue_), Front(queue_)>>
PoppedAll == <<Head(queue_), << >>>>

\* The message popped, and what is left.
Popped == <<Head(queue_), Tail(queue_)>>

\* LockQueue::Pop finds a message.
Pop ==
    /\ writer = "pop"
    /\ queue_ # << >>
    /\ msg' = Popped[1]
    /\ queue_' = Popped[2]
    /\ writer' = "write"
    /\ UNCHANGED <<callVars, nowtm, now, file>>

\* It finds none: wait() releases the mutex and sleeps in one step.
Wait ==
    /\ writer = "pop"
    /\ queue_ = << >>
    /\ writer' = "waiting"
    /\ UNCHANGED <<callVars, queue_, writerVars, now, file>>

\* wait() may return unasked: Pop looks at the queue again.
SpuriousWakeup ==
    /\ writer = "waiting"
    /\ writer' = "pop"
    /\ UNCHANGED <<callVars, queue_, writerVars, now, file>>

Shown(level) == IF level = "INFO" THEN "info" ELSE "error"

\* The line carries the time taken before the wait and the level of now.
WriteLine ==
    /\ writer = "write"
    /\ file' = Append(file, [msg |-> msg, time |-> nowtm,
                             tag |-> Shown(level_), at |-> now])
    /\ msg' = NoMessage
    /\ writer' = "takeTime"
    /\ UNCHANGED <<callVars, queue_, nowtm, now>>

Tick ==
    /\ now < MaxTime
    /\ now' = now + 1
    /\ UNCHANGED <<callVars, queue_, writer, writerVars, file>>

\* main returns while the writer, a detached thread, is wherever it is.
ProcessEnds ==
    /\ writer' = "exited"
    /\ UNCHANGED <<callVars, queue_, writerVars, now, file>>

WriterStep == TakeTime \/ Pop \/ Wait \/ WriteLine

Next ==
    /\ writer # "exited"
    /\ \/ \E t \in Threads : Log(t) \/ \E m \in Messages : SetLogLevel(t, m)
       \/ WriterStep
       \/ SpuriousWakeup
       \/ Tick
       \/ ProcessEnds

Spec == Init /\ [][Next]_vars

\* The threads run on; no spurious wakeup is relied on, and time may stand.
FairSpec ==
    /\ Spec
    /\ WF_vars(WriterStep)
    /\ \A t \in Threads : WF_vars(writer # "exited" /\ Log(t))

-----------------------------------------------------------------------------
(* Properties.                                                             *)

\* Every variable has its type; a line being formatted has its message.
TypeOK ==
    /\ level_ \in LogLevels
    /\ caller \in [Threads -> Messages \cup {NoMessage}]
    /\ queue_ \in Seq(Messages)
    /\ writer \in Places
    /\ nowtm \in 0 .. MaxTime
    /\ msg \in Messages \cup {NoMessage}
    /\ writer # "exited" => (writer = "write" <=> msg # NoMessage)
    /\ now \in 0 .. MaxTime
    /\ macros \in Seq(Messages)
    /\ file \in Seq(Lines)

\* The writer never sleeps on a message, whatever falls between its test of
\* the queue and its wait.
NoLostNotify == writer = "waiting" => queue_ = << >>

\* level_ is shared by all messages, so a line may carry the level of another
\* macro: but only of one that began later, never of an earlier one.
TagIsNotStale ==
    \A i \in DOMAIN file :
      \E j, k \in DOMAIN macros :
        /\ macros[j] = file[i].msg
        /\ j <= k
        /\ file[i].tag = Shown(Level[macros[k]])

\* The time on a line is that of the writer's wait, not of the call: it is
\* taken after the line before was written, and so is early by no more than
\* the log was quiet; the times in the file never go back.
TimeIsAfterLineBefore ==
    \A i \in DOMAIN file :
      /\ file[i].time <= file[i].at
      /\ i > 1 => file[i - 1].at <= file[i].time

\* The messages pushed and not yet written, and those written.
Unwritten == (IF msg = NoMessage THEN << >> ELSE <<msg>>) \o queue_
Written   == [i \in DOMAIN file |-> file[i].msg]

TQ == INSTANCE TaskQueue WITH
        Tasks <- Messages, queue <- Unwritten, ran <- Written

\* Every message pushed is written once, in the order of the pushes, which is
\* what TaskQueue says of tasks.
ImplementsTaskQueue == TQ!Spec

\* A message whose macro began is written in the end, unless the process
\* ends: main returns, or the file cannot be opened.
EveryCallIsWritten ==
    \A m \in Messages :
      m \in Range(macros) ~>
        writer = "exited" \/ \E i \in DOMAIN file : file[i].msg = m
=============================================================================
