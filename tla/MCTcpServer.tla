---------------------------- MODULE MCTcpServer ----------------------------
(* What the configurations of TcpServer need: pools of no, one or two      *)
(* threads, and for the runs with a user's thread of no or one.            *)
EXTENDS TcpServer

CONSTANTS base, io1, io2, u1

PoolSizes == {<< >>, <<io1>>, <<io1, io2>>}
SmallPools == {<< >>, <<io1>>}
=============================================================================
