----------------------------- MODULE TaskQueue -----------------------------
(***************************************************************************)
(* What an EventLoop promises about the functors handed to it              *)
(* (net/eventloop.h, runInLoop and queueInLoop): functors queued by any    *)
(* thread are run one at a time, in the order in which they were queued,   *)
(* each exactly once; runInLoop called in the loop's own thread runs its   *)
(* functor at once, ahead of everything queued.                            *)
(***************************************************************************)
EXTENDS Sequences, Functions

CONSTANT Tasks       \* task objects, each submitted at most once

VARIABLES queue,     \* tasks submitted and not yet run, oldest first
          ran        \* tasks run so far, in the order they were run

vars == <<queue, ran>>

\* A task object is new when it was never submitted.
New(task) == task \notin Range(queue) \cup Range(ran)

Init == queue = << >> /\ ran = << >>

Submit(task) ==
    /\ New(task)
    /\ queue' = Append(queue, task)
    /\ UNCHANGED ran

RunAtOnce(task) ==
    /\ New(task)
    /\ ran' = Append(ran, task)
    /\ UNCHANGED queue

RunOldest ==
    /\ queue # << >>
    /\ ran' = Append(ran, Head(queue))
    /\ queue' = Tail(queue)

Next ==
    \/ \E task \in Tasks : Submit(task) \/ RunAtOnce(task)
    \/ RunOldest

Spec == Init /\ [][Next]_vars
=============================================================================
