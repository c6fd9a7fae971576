----------------------------- MODULE ByteQueue -----------------------------
(***************************************************************************)
(* What a Buffer promises (net/buffer.h): the bytes that were appended or  *)
(* read from a socket come out in that order, each once.                   *)
(***************************************************************************)
EXTENDS Naturals, Sequences

CONSTANT Bytes

VARIABLES content,   \* the readable bytes
          passed     \* the bytes last put in or taken out

vars == <<content, passed>>

Init == content = << >> /\ passed = << >>

\* Bytes are added at the end.
Put ==
    /\ passed' \in Seq(Bytes)
    /\ content' = content \o passed'

\* Bytes are dropped at the front.
Drop(n) == content' = SubSeq(content, n + 1, Len(content))

Take(n) == Drop(n) /\ passed' = SubSeq(content, 1, n)

Next ==
    \/ Put
    \/ \E n \in 0 .. Len(content) : Take(n) \/ (Drop(n) /\ UNCHANGED passed)

Spec == Init /\ [][Next]_vars
=============================================================================
