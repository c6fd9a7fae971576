------------------------------ MODULE MCPoller ------------------------------
(* Instances of Poller for TLC. *)
EXTENDS Poller, TLC

\* Channel objects that behave alike and file descriptors that do.
Symmetry == Permutations(Channels) \cup Permutations(Fds)
=============================================================================
