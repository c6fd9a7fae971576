-------------------------- MODULE MCTcpConnection --------------------------
(* Instances of TcpConnection for TLC. *)
EXTENDS TcpConnection

CONSTANTS m1, m2

\* Messages that the kernel may take in parts; both together, and the long
\* one alone, lift the buffer above a mark of 2.
Sizes == [m \in Messages |-> IF m = m1 THEN 3 ELSE 2]
=============================================================================
