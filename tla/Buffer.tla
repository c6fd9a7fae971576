------------------------------- MODULE Buffer -------------------------------
(***************************************************************************)
(* net/buffer.{h,cc}: a vector of bytes with a reader and a writer index,  *)
(*                                                                         *)
(*    kCheapPrepend <= readerIndex_ <= writerIndex_ <= buffer_.size()      *)
(*                                                                         *)
(* that makes room by moving the readable bytes to the front or by growing *)
(* the vector.  Callers ask for no more than is readable (tcpconnection.cc *)
(* and EchoServer.cc do).  Cell i of the vector is buffer[i + 1].          *)
(***************************************************************************)
EXTENDS Integers, Sequences

CONSTANTS
    Bytes,          \* values of a byte
    NoByte,         \* the value that resize() gives to new cells
    kCheapPrepend,
    kInitialSize,
    ExtraSize,      \* sizeof(extrabuf)
    MaxAppend,      \* bound: bytes of one append or one read
    MaxReadable     \* bound: bytes that the users leave in the buffer

ASSUME BufferAssumption ==
    /\ {kCheapPrepend, kInitialSize, ExtraSize, MaxAppend, MaxReadable}
         \subseteq Nat
    /\ NoByte \notin Bytes

VARIABLES buffer,       \* buffer_
          readerIndex,  \* readerIndex_
          writerIndex,  \* writerIndex_
          passed        \* history: the bytes of the last append, read
                        \* or retrieveAsString

vars == <<buffer, readerIndex, writerIndex, passed>>

readable      == SubSeq(buffer, readerIndex + 1, writerIndex)
readableBytes == writerIndex - readerIndex

Zeros(n) == [i \in 1 .. n |-> NoByte]

\* The data that a caller or the peer may hand over.
Data == UNION {[1 .. n -> Bytes] : n \in 0 .. MaxAppend}

Init ==
    /\ buffer = Zeros(kCheapPrepend + kInitialSize)
    /\ readerIndex = kCheapPrepend
    /\ writerIndex = kCheapPrepend
    /\ passed = << >>

-----------------------------------------------------------------------------
(* append and what it calls, on a vector b with indices r and w.           *)

\* The cells from w on overwritten with data; what lies beyond the vector
\* is not written.
Overwrite(b, w, data) ==
    [i \in 1 .. Len(b) |->
        IF i \in w + 1 .. w + Len(data) THEN data[i - w] ELSE b[i]]

\* resize(writerIndex_ + len): new cells at the end.
Grown(b, r, w, len) ==
    [cells |-> b \o Zeros(w + len - Len(b)), reader |-> r, writer |-> w]

\* The readable bytes copied to the front.
Moved(b, r, w) ==
    [cells  |-> Overwrite(b, kCheapPrepend, SubSeq(b, r + 1, w)),
     reader |-> kCheapPrepend,
     writer |-> kCheapPrepend + (w - r)]

\* Mutant of MakeSpace: always grows.
MakeSpaceGrows(b, r, w, len) == Grown(b, r, w, len)

\* makeSpace: grow the vector, or move the readable bytes to the front.
MakeSpace(b, r, w, len) ==
    IF Len(b) - w + r - kCheapPrepend < len
    THEN Grown(b, r, w, len) ELSE Moved(b, r, w)

\* ensureWritableBytes.
Writable(b, r, w, len) ==
    IF Len(b) - w < len THEN MakeSpace(b, r, w, len)
    ELSE [cells |-> b, reader |-> r, writer |-> w]

AppendTo(b, r, w, data) ==
    LET s == Writable(b, r, w, Len(data))
    IN  /\ buffer' = Overwrite(s.cells, s.writer, data)
        /\ readerIndex' = s.reader
        /\ writerIndex' = s.writer + Len(data)

-----------------------------------------------------------------------------
AppendData(data) ==
    /\ readableBytes + Len(data) <= MaxReadable
    /\ AppendTo(buffer, readerIndex, writerIndex, data)
    /\ passed' = data

\* Mutant of ReadFd: the overflow is appended with the old writer index.
ReadFdOldIndex(data) ==
    LET writable == Len(buffer) - writerIndex
        room     == writable + (IF writable < ExtraSize THEN ExtraSize ELSE 0)
    IN  /\ readableBytes + Len(data) <= MaxReadable
        /\ Len(data) <= room
        /\ IF Len(data) <= writable
           THEN /\ buffer' = Overwrite(buffer, writerIndex, data)
                /\ writerIndex' = writerIndex + Len(data)
                /\ UNCHANGED readerIndex
           ELSE AppendTo(Overwrite(buffer, writerIndex,
                                   SubSeq(data, 1, writable)),
                         readerIndex, writerIndex,
                         SubSeq(data, writable + 1, Len(data)))
        /\ passed' = data

\* readv fills the writable cells, then extrabuf, which is appended.
ReadFd(data) ==
    LET writable == Len(buffer) - writerIndex
        room     == writable + (IF writable < ExtraSize THEN ExtraSize ELSE 0)
    IN  /\ readableBytes + Len(data) <= MaxReadable
        /\ Len(data) <= room
        /\ IF Len(data) <= writable
           THEN /\ buffer' = Overwrite(buffer, writerIndex, data)
                /\ writerIndex' = writerIndex + Len(data)
                /\ UNCHANGED readerIndex
           ELSE AppendTo(Overwrite(buffer, writerIndex,
                                   SubSeq(data, 1, writable)),
                         readerIndex, Len(buffer),
                         SubSeq(data, writable + 1, Len(data)))
        /\ passed' = data

\* retrieve, and retrieveAll when nothing stays.
Retrieve(n) ==
    /\ IF n < readableBytes
       THEN /\ readerIndex' = readerIndex + n
            /\ UNCHANGED writerIndex
       ELSE /\ readerIndex' = kCheapPrepend
            /\ writerIndex' = kCheapPrepend
    /\ UNCHANGED buffer

RetrieveAsString(n) ==
    /\ passed' = SubSeq(buffer, readerIndex + 1, readerIndex + n)
    /\ Retrieve(n)

Next ==
    \/ \E data \in Data : AppendData(data) \/ ReadFd(data)
    \/ \E n \in 0 .. readableBytes :
         RetrieveAsString(n) \/ (Retrieve(n) /\ UNCHANGED passed)

Spec == Init /\ [][Next]_vars

-----------------------------------------------------------------------------
(* Properties.                                                             *)

\* The drawing of buffer.h:5-12: the indices are in order and inside the
\* vector.  (That is also why no size_t subtraction of the code wraps.)
TypeOK ==
    /\ buffer \in Seq(Bytes \cup {NoByte})
    /\ {readerIndex, writerIndex} \subseteq Nat
    /\ kCheapPrepend <= readerIndex
    /\ readerIndex <= writerIndex
    /\ writerIndex <= Len(buffer)
    /\ passed \in Seq(Bytes)

\* A Buffer is a queue of bytes: through any mix of growing, moving to the
\* front, overflow into extrabuf and partial retrieval, the bytes come out
\* in the order in which they came in, none lost, repeated or stale.
BQ == INSTANCE ByteQueue WITH content <- readable, passed <- passed

ImplementsByteQueue == BQ!Spec

\* The vector grows only when the readable and the new bytes do not fit with
\* the prepend area, and so stays below a bound set by the largest backlog
\* and the largest append, however long the buffer is used.
SizeBounded ==
    Len(buffer) <= kCheapPrepend
                     + (IF kInitialSize >= MaxReadable + MaxAppend
                        THEN kInitialSize ELSE MaxReadable + MaxAppend)

\* The inductive invariant behind the properties: the cells between the
\* indices hold bytes that were put in, never those of resize().
IInv ==
    /\ TypeOK
    /\ readable \in Seq(Bytes)
    /\ SizeBounded
=============================================================================
