--------------------------- MODULE ConnectionLife ---------------------------
(***************************************************************************)
(* What a TcpServer promises about one connection (the connection callback *)
(* of net/tcpserver.h and the comments of net/tcpconnection.{h,cc}): it is *)
(* built, the user is told once that it is up and once that it is down,    *)
(* and then it is freed.                                                   *)
(*                                                                         *)
(* There are two exceptions.  A server that is destroyed may lose one,     *)
(* that is free it without telling that it is down: if its loop ends with  *)
(* functors in its queue, or if the user has called shutdown().  And a     *)
(* send() of another thread that comes too late may make a connection go   *)
(* down again.                                                             *)
(***************************************************************************)
VARIABLES life,       \* where the connection is
          ending,     \* the server is being destroyed
          loopEnded,  \* its loop has ended, with whatever was in its queue
          shutDown,   \* the user has called shutdown()
          late        \* a send() has come too late

vars == <<life, ending, loopEnded, shutDown, late>>

Init == life = "none" /\ ~ ending /\ ~ loopEnded /\ ~ late

Move(from, to) == life \in from /\ life' = to

\* Built, and at once up if the server's loop is its own.
Accept == Move({"none"}, "built") \/ Move({"none"}, "up")

Establish == Move({"built"}, "up")

Close == Move({"up"}, "down")

\* Freed, in the very step that told the user or later.
Free == Move({"up", "down"}, "freed")

Lose ==
    /\ ending'
    /\ \/ loopEnded' /\ Move({"built", "up"}, "lost")
       \/ shutDown' /\ Move({"up"}, "lost")

CloseAgain == late' /\ Move({"down"}, "mistold")

Next ==
    /\ ending => ending'
    /\ loopEnded => loopEnded'
    /\ late => late'
    /\ \/ UNCHANGED life
       \/ Accept \/ Establish \/ Close \/ Free \/ Lose \/ CloseAgain

Spec == Init /\ [][Next]_vars
=============================================================================
