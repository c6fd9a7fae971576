---------------------------- MODULE BufferProofs ----------------------------
(***************************************************************************)
(* Machine-checked proofs about Buffer, for any sizes of the vector, of    *)
(* extrabuf and of the data: the indices stay in order and inside the      *)
(* vector, the vector stays bounded, and the buffer is a queue of bytes.   *)
(***************************************************************************)
EXTENDS Buffer, SequenceTheorems, TLAPS

Cells == Bytes \cup {NoByte}

\* A vector with its two indices, as the code keeps it: the drawing of
\* buffer.h, and bytes between the indices.
WellFormed(b, r, w) ==
    /\ b \in Seq(Cells)
    /\ r \in Nat /\ w \in Nat
    /\ kCheapPrepend <= r
    /\ r <= w
    /\ w <= Len(b)
    /\ \A i \in r + 1 .. w : b[i] \in Bytes

\* The cells between the indices.
Part(b, r, w) == SubSeq(b, r + 1, w)

-----------------------------------------------------------------------------
(* Sequences.                                                              *)

\* The readable part of a well-formed vector.
LEMMA ReadablePart ==
  ASSUME NEW b, NEW r, NEW w, WellFormed(b, r, w)
  PROVE  /\ Part(b, r, w) \in Seq(Bytes)
         /\ Len(Part(b, r, w)) = w - r
         /\ \A i \in 1 .. w - r : Part(b, r, w)[i] = b[r + i]
  <1>1. r + 1 \in Int /\ w \in Int
    BY DEF WellFormed
  <1>2. \A i \in r + 1 .. w : b[i] \in Bytes
    BY DEF WellFormed
  <1>3. /\ Part(b, r, w) \in Seq(Bytes)
        /\ Len(Part(b, r, w)) = IF r + 1 <= w THEN w - (r + 1) + 1 ELSE 0
        /\ \A i \in 1 .. w - (r + 1) + 1 :
             Part(b, r, w)[i] = b[r + 1 + i - 1]
    BY <1>1, <1>2, SubSeqProperties DEF Part
  <1>4. QED
    BY <1>3 DEF WellFormed, Part

\* A sequence of bytes whose elements are those of the readable part is it.
LEMMA ReadablePartIs ==
  ASSUME NEW b, NEW r, NEW w, WellFormed(b, r, w),
         NEW s \in Seq(Bytes), Len(s) = w - r,
         \A i \in 1 .. w - r : s[i] = b[r + i]
  PROVE  Part(b, r, w) = s
  <1>1. \A i \in 1 .. Len(s) : Part(b, r, w)[i] = s[i]
    BY ReadablePart
  <1>2. QED
    BY <1>1, ReadablePart, SeqEqual

\* What the callers may hand over is a sequence of bytes.
LEMMA DataIsSeq ==
  ASSUME NEW data \in Data
  PROVE  data \in Seq(Bytes)
  <1>1. PICK n \in 0 .. MaxAppend : data \in [1 .. n -> Bytes]
    BY DEF Data
  <1>2. n \in Nat
    BY BufferAssumption
  <1>3. QED
    BY <1>1, <1>2

\* Its length is bounded.
LEMMA DataLength ==
  ASSUME NEW data \in Data
  PROVE  Len(data) <= MaxAppend
  <1>1. PICK n \in 0 .. MaxAppend : data \in [1 .. n -> Bytes]
    BY DEF Data
  <1>2. n \in Nat /\ Len(data) = n
    BY <1>1, BufferAssumption
  <1>3. QED
    BY <1>1, <1>2, BufferAssumption

-----------------------------------------------------------------------------
(* append and what it calls.                                               *)

\* Copying data into the free cells from the writer index on appends it to
\* the readable part.
LEMMA OverwriteAppends ==
  ASSUME NEW b, NEW r, NEW w, WellFormed(b, r, w),
         NEW data \in Seq(Bytes), w + Len(data) <= Len(b)
  PROVE  /\ WellFormed(Overwrite(b, w, data), r, w + Len(data))
         /\ Len(Overwrite(b, w, data)) = Len(b)
         /\ Part(Overwrite(b, w, data), r, w + Len(data))
              = Part(b, r, w) \o data
  <1> DEFINE c == Overwrite(b, w, data)
             n == Len(data)
  <1>1. /\ Len(b) \in Nat /\ n \in Nat /\ r \in Nat /\ w \in Nat
        /\ b \in Seq(Cells) /\ r <= w /\ w <= Len(b)
    BY LenProperties DEF WellFormed
  <1>2. \A i \in 1 .. Len(b) :
          (IF i \in w + 1 .. w + n THEN data[i - w] ELSE b[i]) \in Cells
    <2> SUFFICES ASSUME NEW i \in 1 .. Len(b)
                 PROVE  (IF i \in w + 1 .. w + n THEN data[i - w] ELSE b[i])
                          \in Cells
      OBVIOUS
    <2>1. CASE i \in w + 1 .. w + n
      <3>1. i - w \in 1 .. n
        BY <1>1, <2>1
      <3>2. data[i - w] \in Bytes
        BY <3>1, ElementOfSeq
      <3>3. QED
        BY <2>1, <3>2 DEF Cells
    <2>2. CASE i \notin w + 1 .. w + n
      BY <1>1, <2>2, ElementOfSeq
    <2>3. QED
      BY <2>1, <2>2
  <1>3. /\ c \in Seq(Cells)
        /\ Len(c) = Len(b)
        /\ \A i \in 1 .. Len(b) :
             c[i] = IF i \in w + 1 .. w + n THEN data[i - w] ELSE b[i]
    BY <1>1, <1>2 DEF Overwrite
  <1> HIDE DEF c
  <1>4. \A i \in w + 1 .. w + n : c[i] = data[i - w] /\ data[i - w] \in Bytes
    <2> SUFFICES ASSUME NEW i \in w + 1 .. w + n
                 PROVE  c[i] = data[i - w] /\ data[i - w] \in Bytes
      OBVIOUS
    <2>1. i \in 1 .. Len(b) /\ i - w \in 1 .. n
      BY <1>1
    <2>2. QED
      BY <1>3, <2>1, ElementOfSeq
  <1>5. \A i \in r + 1 .. w : c[i] = b[i]
    BY <1>1, <1>3
  <1>6. WellFormed(c, r, w + n)
    <2>1. \A i \in r + 1 .. w + n : c[i] \in Bytes
      <3> SUFFICES ASSUME NEW i \in r + 1 .. w + n PROVE c[i] \in Bytes
        OBVIOUS
      <3>1. i \in r + 1 .. w \/ i \in w + 1 .. w + n
        BY <1>1
      <3>2. QED
        BY <1>4, <1>5, <3>1 DEF WellFormed
    <2>2. kCheapPrepend <= r
      BY DEF WellFormed
    <2>3. QED
      BY <1>1, <1>3, <2>1, <2>2 DEF WellFormed
  <1>7. Part(c, r, w + n) = Part(b, r, w) \o data
    <2> DEFINE head == Part(b, r, w)
    <2>1. /\ head \in Seq(Bytes)
          /\ Len(head) = w - r
          /\ \A i \in 1 .. w - r : head[i] = b[r + i]
      BY ReadablePart
    <2> HIDE DEF head
    <2>2. /\ head \o data \in Seq(Bytes)
          /\ Len(head \o data) = Len(head) + n
          /\ \A i \in 1 .. Len(head) + n :
               (head \o data)[i]
                 = IF i <= Len(head) THEN head[i] ELSE data[i - Len(head)]
      BY <2>1, ConcatProperties, Zenon
    <2> DEFINE all == head \o data
    <2> HIDE DEF all
    <2>3. \A i \in 1 .. (w + n) - r : all[i] = c[r + i]
      <3> SUFFICES ASSUME NEW i \in 1 .. (w + n) - r
                   PROVE  all[i] = c[r + i]
        OBVIOUS
      <3>1. CASE i <= w - r
        <4>1. r + i \in r + 1 .. w /\ i \in 1 .. w - r
          BY <1>1, <3>1
        <4>2. QED
          BY <1>1, <1>5, <2>1, <2>2, <3>1, <4>1 DEF all
      <3>2. CASE ~ (i <= w - r)
        <4>1. /\ r + i \in w + 1 .. w + n
              /\ (r + i) - w = i - Len(head)
              /\ i \in 1 .. Len(head) + n
              /\ ~ (i <= Len(head))
          BY <1>1, <2>1, <3>2
        <4>2. QED
          BY <1>4, <2>2, <4>1 DEF all
      <3>3. QED
        BY <3>1, <3>2
    <2>4. Len(all) = (w + n) - r
      BY <1>1, <2>1, <2>2 DEF all
    <2>5. Part(c, r, w + n) = all
      <3>1. all \in Seq(Bytes)
        BY <2>2 DEF all
      <3>2. QED
        BY <1>6, <2>3, <2>4, <3>1, ReadablePartIs
    <2>6. QED
      BY <2>5 DEF head, all
  <1>8. QED
    BY <1>3, <1>6, <1>7 DEF c

\* resize() keeps the readable part and makes the room that is asked for.
LEMMA GrownKeeps ==
  ASSUME NEW b, NEW r, NEW w, WellFormed(b, r, w),
         NEW len \in Nat, Len(b) - w < len
  PROVE  LET s == Grown(b, r, w, len)
         IN  /\ WellFormed(s.cells, s.reader, s.writer)
             /\ Len(s.cells) = w + len
             /\ s.writer = w
             /\ Part(s.cells, s.reader, s.writer) = Part(b, r, w)
  <1> DEFINE more == w + len - Len(b)
             c == b \o Zeros(more)
  <1>1. /\ Len(b) \in Nat /\ r \in Nat /\ w \in Nat /\ more \in Nat
        /\ b \in Seq(Cells) /\ r <= w /\ w <= Len(b) /\ kCheapPrepend <= r
    BY LenProperties DEF WellFormed
  <1>2. Zeros(more) \in Seq(Cells) /\ Len(Zeros(more)) = more
    BY <1>1 DEF Zeros, Cells
  <1>3. /\ c \in Seq(Cells)
        /\ Len(c) = w + len
        /\ \A i \in 1 .. Len(b) : c[i] = b[i]
    BY <1>1, <1>2
  <1> HIDE DEF c
  <1>4. \A i \in r + 1 .. w : c[i] = b[i] /\ b[i] \in Bytes
    BY <1>1, <1>3 DEF WellFormed
  <1>5. WellFormed(c, r, w)
    BY <1>1, <1>3, <1>4 DEF WellFormed
  <1>6. Part(c, r, w) = Part(b, r, w)
    <2>1. \A i \in 1 .. w - r : Part(b, r, w)[i] = c[r + i]
      <3> SUFFICES ASSUME NEW i \in 1 .. w - r
                   PROVE  Part(b, r, w)[i] = c[r + i]
        OBVIOUS
      <3>1. r + i \in r + 1 .. w
        BY <1>1
      <3>2. QED
        BY <1>4, <3>1, ReadablePart
    <2>2. QED
      BY <1>5, <2>1, ReadablePart, ReadablePartIs
  <1>7. /\ Grown(b, r, w, len).cells = c
        /\ Grown(b, r, w, len).reader = r
        /\ Grown(b, r, w, len).writer = w
    BY DEF Grown, c
  <1>8. QED
    BY <1>3, <1>5, <1>6, <1>7, Zenon

\* std::copy to the front keeps the readable part.
LEMMA MovedKeeps ==
  ASSUME NEW b, NEW r, NEW w, WellFormed(b, r, w)
  PROVE  LET s == Moved(b, r, w)
         IN  /\ WellFormed(s.cells, s.reader, s.writer)
             /\ Len(s.cells) = Len(b)
             /\ s.writer = kCheapPrepend + (w - r)
             /\ Part(s.cells, s.reader, s.writer) = Part(b, r, w)
  <1> DEFINE k == kCheapPrepend
             data == Part(b, r, w)
             c == Overwrite(b, k, data)
  <1>1. /\ data \in Seq(Bytes) /\ Len(data) = w - r
    BY ReadablePart
  <1>2. /\ Len(b) \in Nat /\ r \in Nat /\ w \in Nat /\ k \in Nat
        /\ r <= w /\ w <= Len(b) /\ k <= r /\ b \in Seq(Cells)
    BY LenProperties, BufferAssumption DEF WellFormed
  <1>3. WellFormed(b, k, k)
    BY <1>2 DEF WellFormed
  <1>4. k + Len(data) <= Len(b)
    BY <1>1, <1>2
  <1> HIDE DEF data
  <1>5. /\ WellFormed(c, k, k + Len(data))
        /\ Len(c) = Len(b)
        /\ Part(c, k, k + Len(data)) = Part(b, k, k) \o data
    BY <1>1, <1>3, <1>4, OverwriteAppends
  <1>6. Part(b, k, k) = << >>
    BY <1>2, SubSeqEmpty DEF Part
  <1>7. Part(c, k, k + (w - r)) = data
    BY <1>1, <1>5, <1>6, ConcatEmptySeq
  <1>8. /\ Moved(b, r, w).cells = c
        /\ Moved(b, r, w).reader = k
        /\ Moved(b, r, w).writer = k + (w - r)
    BY DEF Moved, data, Part
  <1> HIDE DEF c
  <1>9. QED
    BY <1>1, <1>5, <1>7, <1>8, Zenon DEF data

\* After ensureWritableBytes there is room for len bytes, the readable part
\* is what it was, and the vector has grown only if it had to.
LEMMA WritableMakesRoom ==
  ASSUME NEW b, NEW r, NEW w, WellFormed(b, r, w), NEW len \in Nat
  PROVE  LET s == Writable(b, r, w, len)
         IN  /\ WellFormed(s.cells, s.reader, s.writer)
             /\ s.writer + len <= Len(s.cells)
             /\ Part(s.cells, s.reader, s.writer) = Part(b, r, w)
             /\ \/ Len(s.cells) = Len(b)
                \/ /\ Len(s.cells) = w + len
                   /\ Len(b) - w + r - kCheapPrepend < len
  <1> DEFINE s == Writable(b, r, w, len)
  <1>1. /\ Len(b) \in Nat /\ r \in Nat /\ w \in Nat /\ kCheapPrepend \in Nat
        /\ r <= w /\ w <= Len(b) /\ kCheapPrepend <= r
    BY LenProperties, BufferAssumption DEF WellFormed
  <1>2. CASE ~ (Len(b) - w < len)
    <2>1. s.cells = b /\ s.reader = r /\ s.writer = w
      BY <1>2 DEF Writable
    <2>2. QED
      BY <1>1, <1>2, <2>1
  <1>3. CASE /\ Len(b) - w < len
             /\ Len(b) - w + r - kCheapPrepend < len
    <2>1. s = Grown(b, r, w, len)
      BY <1>3 DEF Writable, MakeSpace
    <2>2. /\ WellFormed(s.cells, s.reader, s.writer)
          /\ Len(s.cells) = w + len
          /\ s.writer = w
          /\ Part(s.cells, s.reader, s.writer) = Part(b, r, w)
      BY <1>3, <2>1, GrownKeeps
    <2>3. QED
      BY <1>1, <1>3, <2>2
  <1>4. CASE /\ Len(b) - w < len
             /\ ~ (Len(b) - w + r - kCheapPrepend < len)
    <2>1. s = Moved(b, r, w)
      BY <1>4 DEF Writable, MakeSpace
    <2>2. /\ WellFormed(s.cells, s.reader, s.writer)
          /\ Len(s.cells) = Len(b)
          /\ s.writer = kCheapPrepend + (w - r)
          /\ Part(s.cells, s.reader, s.writer) = Part(b, r, w)
      BY <2>1, MovedKeeps
    <2>3. QED
      BY <1>1, <1>4, <2>2
  <1>5. QED
    BY <1>2, <1>3, <1>4

\* append(): the data come after what was readable, and the vector grows
\* only if the readable bytes and the data do not fit.
LEMMA AppendToAppends ==
  ASSUME NEW b, NEW r, NEW w, WellFormed(b, r, w),
         NEW data \in Seq(Bytes), AppendTo(b, r, w, data)
  PROVE  /\ WellFormed(buffer', readerIndex', writerIndex')
         /\ Part(buffer', readerIndex', writerIndex') = Part(b, r, w) \o data
         /\ \/ Len(buffer') = Len(b)
            \/ /\ Len(buffer') = w + Len(data)
               /\ Len(b) - w + r - kCheapPrepend < Len(data)
  <1> DEFINE s == Writable(b, r, w, Len(data))
             c == s.cells
             p == s.reader
             q == s.writer
  <1>1. Len(data) \in Nat
    BY LenProperties
  <1>2. /\ WellFormed(c, p, q)
        /\ q + Len(data) <= Len(c)
        /\ Part(c, p, q) = Part(b, r, w)
        /\ \/ Len(c) = Len(b)
           \/ /\ Len(c) = w + Len(data)
              /\ Len(b) - w + r - kCheapPrepend < Len(data)
    BY <1>1, WritableMakesRoom, Zenon
  <1>3. /\ buffer' = Overwrite(c, q, data)
        /\ readerIndex' = p
        /\ writerIndex' = q + Len(data)
    BY DEF AppendTo
  <1> HIDE DEF c, p, q
  <1>4. /\ WellFormed(Overwrite(c, q, data), p, q + Len(data))
        /\ Len(Overwrite(c, q, data)) = Len(c)
        /\ Part(Overwrite(c, q, data), p, q + Len(data)) = Part(c, p, q) \o data
    BY <1>2, OverwriteAppends
  <1>5. QED
    BY <1>2, <1>3, <1>4

-----------------------------------------------------------------------------
(* The actions.                                                            *)

\* The invariant in the terms of the lemmas.
LEMMA IInvWellFormed ==
  /\ IInv => WellFormed(buffer, readerIndex, writerIndex)
  /\ readable = Part(buffer, readerIndex, writerIndex)
  <1>1. readable = Part(buffer, readerIndex, writerIndex)
    BY DEF readable, Part
  <1>2. ASSUME IInv PROVE WellFormed(buffer, readerIndex, writerIndex)
    <2>1. /\ buffer \in Seq(Cells) /\ readerIndex \in Nat /\ writerIndex \in Nat
          /\ kCheapPrepend <= readerIndex /\ readerIndex <= writerIndex
          /\ writerIndex <= Len(buffer) /\ readable \in Seq(Bytes)
      BY <1>2 DEF IInv, TypeOK, Cells
    <2>2. ASSUME NEW i \in readerIndex + 1 .. writerIndex
          PROVE  buffer[i] \in Bytes
      <3> DEFINE m == readerIndex + 1
      <3>1. \A j \in m .. writerIndex : buffer[j] \in Cells
        BY <2>1, ElementOfSeq, LenProperties
      <3>2. /\ Len(readable) = IF m <= writerIndex THEN writerIndex - m + 1 ELSE 0
            /\ \A j \in 1 .. writerIndex - m + 1 :
                 readable[j] = buffer[m + j - 1]
        BY <2>1, <3>1, SubSeqProperties DEF readable
      <3>3. i - readerIndex \in 1 .. Len(readable)
        BY <2>1, <3>2
      <3>4. readable[i - readerIndex] \in Bytes
        BY <2>1, <3>3, ElementOfSeq
      <3>5. readable[i - readerIndex] = buffer[i]
        BY <2>1, <3>2
      <3>6. QED
        BY <3>4, <3>5
    <2>3. QED
      BY <2>1, <2>2 DEF WellFormed
  <1>3. QED
    BY <1>1, <1>2

\* The room that SizeBounded allows.
Room == IF kInitialSize >= MaxReadable + MaxAppend
        THEN kInitialSize ELSE MaxReadable + MaxAppend

\* Appending data to an intermediate vector that is no longer than the old
\* one, with as much readable in all as the callers leave, stays in bounds.
LEMMA GrowthIsBounded ==
  ASSUME NEW b, NEW r, NEW w, WellFormed(b, r, w),
         NEW n \in Nat, NEW size \in Nat,
         n <= MaxAppend, w - r + n <= MaxReadable,
         Len(b) <= kCheapPrepend + Room,
         \/ size = Len(b)
         \/ /\ size = w + n
            /\ Len(b) - w + r - kCheapPrepend < n
  PROVE  size <= kCheapPrepend + Room
  <1>1. /\ Len(b) \in Nat /\ r \in Nat /\ w \in Nat
        /\ r <= w /\ w <= Len(b) /\ kCheapPrepend <= r
    BY LenProperties DEF WellFormed
  <1>2. {kCheapPrepend, kInitialSize, MaxAppend, MaxReadable} \subseteq Nat
    BY BufferAssumption
  <1>3. CASE size = w + n /\ Len(b) - w + r - kCheapPrepend < n
    <2>1. w + n <= kCheapPrepend + MaxReadable + MaxAppend
      BY <1>1, <1>2, <1>3
    <2>2. QED
      BY <1>1, <1>2, <1>3, <2>1 DEF Room
  <1>4. QED
    BY <1>3

\* What an append or a read does to the buffer, given that it appends data.
Appended(data) ==
    /\ data \in Seq(Bytes)
    /\ WellFormed(buffer', readerIndex', writerIndex')
    /\ readable' = readable \o data
    /\ Len(buffer') <= kCheapPrepend + Room
    /\ passed' = data

LEMMA AppendDataAppends ==
  ASSUME IInv, NEW data \in Data, AppendData(data)
  PROVE  Appended(data)
  <1>1. WellFormed(buffer, readerIndex, writerIndex)
    BY IInvWellFormed
  <1>2. data \in Seq(Bytes) /\ Len(data) \in Nat /\ Len(data) <= MaxAppend
    BY DataIsSeq, DataLength, LenProperties
  <1>3. AppendTo(buffer, readerIndex, writerIndex, data)
    BY DEF AppendData
  <1>4. /\ WellFormed(buffer', readerIndex', writerIndex')
        /\ Part(buffer', readerIndex', writerIndex')
             = Part(buffer, readerIndex, writerIndex) \o data
        /\ \/ Len(buffer') = Len(buffer)
           \/ /\ Len(buffer') = writerIndex + Len(data)
              /\ Len(buffer) - writerIndex + readerIndex - kCheapPrepend
                   < Len(data)
    BY <1>1, <1>2, <1>3, AppendToAppends
  <1>5. Len(buffer') \in Nat
    BY <1>4, LenProperties DEF WellFormed
  <1>6. /\ writerIndex - readerIndex + Len(data) <= MaxReadable
        /\ Len(buffer) <= kCheapPrepend + Room
    BY DEF AppendData, readableBytes, IInv, SizeBounded, Room
  <1>7. Len(buffer') <= kCheapPrepend + Room
    BY <1>1, <1>2, <1>4, <1>5, <1>6, GrowthIsBounded
  <1>8. readable' = readable \o data
    BY <1>4, IInvWellFormed DEF readable, Part
  <1>9. QED
    BY <1>2, <1>4, <1>7, <1>8 DEF Appended, AppendData

\* readv into the vector alone.
LEMMA ReadFdFits ==
  ASSUME IInv, NEW data \in Data, ReadFd(data),
         Len(data) <= Len(buffer) - writerIndex
  PROVE  Appended(data)
  <1>1. WellFormed(buffer, readerIndex, writerIndex)
    BY IInvWellFormed
  <1>2. data \in Seq(Bytes) /\ Len(data) \in Nat
    BY DataIsSeq, LenProperties
  <1>3. /\ buffer' = Overwrite(buffer, writerIndex, data)
        /\ writerIndex' = writerIndex + Len(data)
        /\ readerIndex' = readerIndex
        /\ passed' = data
    BY DEF ReadFd
  <1>4. writerIndex + Len(data) <= Len(buffer)
    BY <1>1, <1>2, LenProperties DEF WellFormed
  <1>5. /\ WellFormed(buffer', readerIndex', writerIndex')
        /\ Len(buffer') = Len(buffer)
        /\ Part(buffer', readerIndex', writerIndex')
             = Part(buffer, readerIndex, writerIndex) \o data
    <2> DEFINE b == Overwrite(buffer, writerIndex, data)
               w == writerIndex + Len(data)
    <2>1. /\ WellFormed(b, readerIndex, w)
          /\ Len(b) = Len(buffer)
          /\ Part(b, readerIndex, w)
               = Part(buffer, readerIndex, writerIndex) \o data
      BY <1>1, <1>2, <1>4, OverwriteAppends
    <2> HIDE DEF b
    <2>2. buffer' = b /\ readerIndex' = readerIndex /\ writerIndex' = w
      BY <1>3 DEF b
    <2> HIDE DEF w
    <2>3. QED
      BY <2>1, <2>2
  <1>6. Len(buffer') <= kCheapPrepend + Room
    BY <1>5 DEF IInv, SizeBounded, Room
  <1>7. readable' = readable \o data
    BY <1>5, IInvWellFormed DEF readable, Part
  <1>8. QED
    BY <1>2, <1>3, <1>5, <1>6, <1>7 DEF Appended

\* A sequence cut in two, what fits the vector and what goes to extrabuf.
LEMMA Cut ==
  ASSUME NEW data \in Seq(Bytes), NEW n \in Nat, n <= Len(data)
  PROVE  /\ SubSeq(data, 1, n) \in Seq(Bytes)
         /\ Len(SubSeq(data, 1, n)) = n
         /\ SubSeq(data, n + 1, Len(data)) \in Seq(Bytes)
         /\ Len(SubSeq(data, n + 1, Len(data))) = Len(data) - n
         /\ SubSeq(data, 1, n) \o SubSeq(data, n + 1, Len(data)) = data
  <1>1. Len(data) \in Nat /\ \A i \in 1 .. Len(data) : data[i] \in Bytes
    BY LenProperties, ElementOfSeq
  <1>2. /\ SubSeq(data, 1, n) \in Seq(Bytes)
        /\ Len(SubSeq(data, 1, n)) = n
    <2>1. \A i \in 1 .. n : data[i] \in Bytes
      BY <1>1
    <2>2. /\ SubSeq(data, 1, n) \in Seq(Bytes)
          /\ Len(SubSeq(data, 1, n)) = IF 1 <= n THEN n - 1 + 1 ELSE 0
      BY <2>1, SubSeqProperties
    <2>3. QED
      BY <2>2
  <1>3. /\ SubSeq(data, n + 1, Len(data)) \in Seq(Bytes)
        /\ Len(SubSeq(data, n + 1, Len(data))) = Len(data) - n
    <2> DEFINE m == n + 1
    <2>1. m \in Int /\ \A i \in m .. Len(data) : data[i] \in Bytes
      BY <1>1
    <2>2. /\ SubSeq(data, m, Len(data)) \in Seq(Bytes)
          /\ Len(SubSeq(data, m, Len(data)))
               = IF m <= Len(data) THEN Len(data) - m + 1 ELSE 0
      BY <1>1, <2>1, SubSeqProperties
    <2>3. QED
      BY <1>1, <2>2
  <1>4. SubSeq(data, 1, n) \o SubSeq(data, n + 1, Len(data)) = data
    <2>1. /\ 1 \in 1 .. Len(data) + 1
          /\ n \in 1 - 1 .. Len(data)
          /\ Len(data) \in n .. Len(data)
      BY <1>1
    <2>2. SubSeq(data, 1, n) \o SubSeq(data, n + 1, Len(data))
            = SubSeq(data, 1, Len(data))
      BY <2>1, ConcatAdjacentSubSeq, Zenon
    <2>3. QED
      BY <2>2, SubSeqFull
  <1>5. QED
    BY <1>2, <1>3, <1>4

\* readv into the vector and extrabuf, which is then appended.
LEMMA ReadFdOverflows ==
  ASSUME IInv, NEW data \in Data, ReadFd(data),
         ~ (Len(data) <= Len(buffer) - writerIndex)
  PROVE  Appended(data)
  <1> DEFINE n == Len(buffer) - writerIndex
             head == SubSeq(data, 1, n)
             rest == SubSeq(data, n + 1, Len(data))
             r == readerIndex
             b == Overwrite(buffer, writerIndex, head)
             w == Len(buffer)
  <1>1. WellFormed(buffer, readerIndex, writerIndex)
    BY IInvWellFormed
  <1>2. /\ data \in Seq(Bytes) /\ Len(data) \in Nat /\ Len(data) <= MaxAppend
        /\ w \in Nat /\ writerIndex \in Nat /\ readerIndex \in Nat
        /\ n \in Nat /\ n <= Len(data)
    BY <1>1, DataIsSeq, DataLength, LenProperties DEF WellFormed
  <1>3. AppendTo(b, r, w, rest) /\ passed' = data
    BY DEF ReadFd
  <1>4. /\ head \in Seq(Bytes) /\ Len(head) = n
        /\ rest \in Seq(Bytes) /\ Len(rest) = Len(data) - n
        /\ head \o rest = data
    BY <1>2, Cut, Zenon
  <1> HIDE DEF head, rest
  <1>5. /\ WellFormed(b, r, w)
        /\ Len(b) = w
        /\ Part(b, r, w) = readable \o head
    <2>1. writerIndex + Len(head) = w
      BY <1>2, <1>4
    <2>2. writerIndex + Len(head) <= Len(buffer)
      BY <1>2, <2>1
    <2>3. /\ WellFormed(b, r, writerIndex + Len(head))
          /\ Len(b) = w
          /\ Part(b, r, writerIndex + Len(head))
               = Part(buffer, readerIndex, writerIndex) \o head
      BY <1>1, <1>4, <2>2, OverwriteAppends
    <2>4. QED
      BY <2>1, <2>3, IInvWellFormed
  <1> HIDE DEF b
  <1>6. /\ WellFormed(buffer', readerIndex', writerIndex')
        /\ Part(buffer', readerIndex', writerIndex') = Part(b, r, w) \o rest
        /\ \/ Len(buffer') = Len(b)
           \/ /\ Len(buffer') = w + Len(rest)
              /\ Len(b) - w + r - kCheapPrepend < Len(rest)
    BY <1>3, <1>4, <1>5, AppendToAppends
  <1>7. Len(buffer') <= kCheapPrepend + Room
    <2>1. /\ writerIndex - readerIndex + Len(data) <= MaxReadable
          /\ Len(b) <= kCheapPrepend + Room
      BY <1>5 DEF ReadFd, readableBytes, IInv, SizeBounded, Room
    <2>2. MaxReadable \in Nat /\ MaxAppend \in Nat
      BY BufferAssumption
    <2>3. /\ Len(rest) \in Nat
          /\ Len(rest) <= MaxAppend
          /\ w - r + Len(rest) <= MaxReadable
      BY <1>2, <1>4, <2>1, <2>2
    <2>4. Len(buffer') \in Nat
      BY <1>6, LenProperties DEF WellFormed
    <2>5. QED
      BY <1>5, <1>6, <2>1, <2>3, <2>4, GrowthIsBounded
  <1>8. readable' = readable \o data
    <2> DEFINE old == readable
    <2>1. old \in Seq(Bytes) /\ head \in Seq(Bytes) /\ rest \in Seq(Bytes)
      BY <1>4 DEF IInv
    <2> HIDE DEF old
    <2>2. (old \o head) \o rest = old \o (head \o rest)
      BY <2>1, SMT
    <2>3. readable' = Part(b, r, w) \o rest
      BY <1>6 DEF readable, Part
    <2>4. QED
      BY <1>4, <1>5, <2>2, <2>3 DEF old
  <1>9. QED
    BY <1>2, <1>3, <1>6, <1>7, <1>8 DEF Appended

\* retrieve(): the first n readable bytes go, and nothing else.
LEMMA RetrieveDrops ==
  ASSUME IInv, NEW n \in 0 .. readableBytes, Retrieve(n)
  PROVE  /\ WellFormed(buffer', readerIndex', writerIndex')
         /\ readable' = SubSeq(readable, n + 1, Len(readable))
         /\ buffer' = buffer
  <1> DEFINE b == buffer
             r == readerIndex
             w == writerIndex
  <1>1. /\ WellFormed(b, r, w)
        /\ readable = Part(b, r, w) /\ readable' = Part(b', r', w')
        /\ b' = b
    BY IInvWellFormed DEF Retrieve, readable, Part
  <1>2. /\ b \in Seq(Cells) /\ Len(b) \in Nat /\ r \in Nat /\ w \in Nat
        /\ kCheapPrepend \in Nat
        /\ kCheapPrepend <= r /\ r <= w /\ w <= Len(b)
        /\ \A i \in r + 1 .. w : b[i] \in Bytes
    BY <1>1, LenProperties, BufferAssumption DEF WellFormed
  <1>3. /\ readable \in Seq(Bytes) /\ Len(readable) = w - r
        /\ \A i \in 1 .. w - r : readable[i] = b[r + i]
    BY <1>1, ReadablePart
  <1>4. n \in 0 .. w - r
    BY DEF readableBytes
  <1>5. CASE n < w - r
    <2>1. r' = r + n /\ w' = w
      BY <1>5 DEF Retrieve, readableBytes
    <2>2. WellFormed(b, r + n, w)
      BY <1>2, <1>4, <1>5 DEF WellFormed
    <2> DEFINE m == n + 1
               rest == SubSeq(readable, m, w - r)
    <2>3. m \in Int /\ w - r \in Int /\ \A i \in m .. w - r : readable[i] \in Bytes
      BY <1>2, <1>3, <1>4, ElementOfSeq
    <2>4. /\ rest \in Seq(Bytes)
          /\ Len(rest) = IF m <= w - r THEN (w - r) - m + 1 ELSE 0
          /\ \A i \in 1 .. (w - r) - m + 1 : rest[i] = readable[m + i - 1]
      BY <2>3, SubSeqProperties
    <2> HIDE DEF rest
    <2>5. Len(rest) = w - (r + n)
      BY <1>2, <1>4, <1>5, <2>4
    <2>6. \A i \in 1 .. w - (r + n) : rest[i] = b[(r + n) + i]
      <3> SUFFICES ASSUME NEW i \in 1 .. w - (r + n)
                   PROVE  rest[i] = b[(r + n) + i]
        OBVIOUS
      <3>1. /\ i \in 1 .. (w - r) - m + 1
            /\ m + i - 1 \in 1 .. w - r
            /\ r + (m + i - 1) = (r + n) + i
        BY <1>2, <1>4, <1>5
      <3>2. QED
        BY <1>3, <2>4, <3>1
    <2>7. Part(b, r + n, w) = rest
      BY <2>2, <2>4, <2>5, <2>6, ReadablePartIs
    <2>8. rest = SubSeq(readable, n + 1, Len(readable))
      BY <1>3 DEF rest
    <2>9. QED
      BY <1>1, <2>1, <2>2, <2>7, <2>8
  <1>6. CASE ~ (n < w - r)
    <2>1. r' = kCheapPrepend /\ w' = kCheapPrepend
      BY <1>6 DEF Retrieve, readableBytes
    <2>2. WellFormed(b, kCheapPrepend, kCheapPrepend)
      BY <1>2 DEF WellFormed
    <2>3. Part(b, kCheapPrepend, kCheapPrepend) = << >>
      BY <1>2, SubSeqEmpty DEF Part
    <2>4. SubSeq(readable, n + 1, Len(readable)) = << >>
      <3>1. n + 1 \in Int /\ Len(readable) \in Int /\ Len(readable) < n + 1
        BY <1>2, <1>3, <1>4, <1>6
      <3>2. QED
        BY <3>1, SubSeqEmpty
    <2>5. QED
      BY <1>1, <2>1, <2>2, <2>3, <2>4
  <1>7. QED
    BY <1>5, <1>6

\* What retrieveAsString copies out are the first n readable bytes.
LEMMA RetrievedAreFirst ==
  ASSUME IInv, NEW n \in 0 .. readableBytes
  PROVE  /\ SubSeq(buffer, readerIndex + 1, readerIndex + n)
              = SubSeq(readable, 1, n)
         /\ SubSeq(readable, 1, n) \in Seq(Bytes)
         /\ n \in 0 .. Len(readable)
  <1> DEFINE b == buffer
             r == readerIndex
             w == writerIndex
  <1>1. WellFormed(b, r, w) /\ readable = Part(b, r, w)
    BY IInvWellFormed
  <1>2. /\ b \in Seq(Cells) /\ Len(b) \in Nat /\ r \in Nat /\ w \in Nat
        /\ kCheapPrepend <= r /\ r <= w /\ w <= Len(b)
        /\ \A i \in r + 1 .. w : b[i] \in Bytes
    BY <1>1, LenProperties DEF WellFormed
  <1>3. /\ readable \in Seq(Bytes) /\ Len(readable) = w - r
        /\ \A i \in 1 .. w - r : readable[i] = b[r + i]
    BY <1>1, ReadablePart
  <1>4. n \in 0 .. w - r /\ n \in Nat
    BY <1>2 DEF readableBytes
  <1> DEFINE first == SubSeq(readable, 1, n)
  <1>5. /\ first \in Seq(Bytes) /\ Len(first) = n
        /\ \A i \in 1 .. n : first[i] = readable[i]
    <2>1. \A i \in 1 .. n : readable[i] \in Bytes
      BY <1>2, <1>3, <1>4, ElementOfSeq
    <2>2. /\ first \in Seq(Bytes)
          /\ Len(first) = IF 1 <= n THEN n - 1 + 1 ELSE 0
          /\ \A i \in 1 .. n - 1 + 1 : first[i] = readable[1 + i - 1]
      BY <1>4, <2>1, SubSeqProperties
    <2>3. QED
      BY <1>4, <2>2
  <1> HIDE DEF first
  <1>6. WellFormed(b, r, r + n)
    BY <1>2, <1>4 DEF WellFormed
  <1>7. Part(b, r, r + n) = first
    <2>1. Len(first) = (r + n) - r
      BY <1>2, <1>4, <1>5
    <2>2. \A i \in 1 .. (r + n) - r : first[i] = b[r + i]
      BY <1>2, <1>3, <1>4, <1>5
    <2>3. QED
      BY <1>5, <1>6, <2>1, <2>2, ReadablePartIs
  <1>8. QED
    BY <1>3, <1>4, <1>5, <1>7 DEF first, Part

-----------------------------------------------------------------------------
(* The invariant and the refinement.                                       *)

\* A new buffer is empty, with its indices after the prepend area.
LEMMA InitIInv == Init => IInv /\ readable = << >>
  <1> SUFFICES ASSUME Init PROVE IInv /\ readable = << >>
    OBVIOUS
  <1>1. /\ kCheapPrepend \in Nat /\ kInitialSize \in Nat
        /\ MaxReadable \in Nat /\ MaxAppend \in Nat
    BY BufferAssumption
  <1>2. /\ buffer \in Seq(Bytes \cup {NoByte})
        /\ Len(buffer) = kCheapPrepend + kInitialSize
    BY <1>1 DEF Init, Zeros
  <1>3. readable = << >>
    BY <1>1, SubSeqEmpty DEF Init, readable
  <1>4. readable \in Seq(Bytes) /\ passed \in Seq(Bytes)
    BY <1>3 DEF Init
  <1>5. TypeOK
    BY <1>1, <1>2, <1>4 DEF Init, TypeOK
  <1>6. SizeBounded
    BY <1>1, <1>2 DEF SizeBounded
  <1>7. QED
    BY <1>3, <1>4, <1>5, <1>6 DEF IInv

\* The lemmas about the actions give back the invariant.
LEMMA WellFormedIInv ==
  ASSUME WellFormed(buffer', readerIndex', writerIndex'),
         Len(buffer') <= kCheapPrepend + Room,
         passed' \in Seq(Bytes)
  PROVE  IInv'
  <1>1. readable' = Part(buffer', readerIndex', writerIndex')
    BY DEF readable, Part
  <1>2. readable' \in Seq(Bytes)
    BY <1>1, ReadablePart
  <1>3. TypeOK'
    BY DEF WellFormed, Cells, TypeOK
  <1>4. SizeBounded'
    BY DEF SizeBounded, Room
  <1>5. QED
    BY <1>2, <1>3, <1>4 DEF IInv

\* Every step preserves the invariant and is a step of ByteQueue.
LEMMA StepIInv ==
  ASSUME IInv, [Next]_vars
  PROVE  IInv' /\ [BQ!Next]_(BQ!vars)
  <1>1. ASSUME NEW data \in Data, AppendData(data) \/ ReadFd(data)
        PROVE  IInv' /\ BQ!Next
    <2>1. Appended(data)
      BY <1>1, AppendDataAppends, ReadFdFits, ReadFdOverflows
    <2>2. IInv'
      BY <2>1, WellFormedIInv DEF Appended
    <2>3. BQ!Put
      BY <2>1 DEF Appended, BQ!Put
    <2>4. QED
      BY <2>2, <2>3 DEF BQ!Next
  <1>2. ASSUME NEW n \in 0 .. readableBytes, Retrieve(n),
               \/ UNCHANGED passed
               \/ passed' = SubSeq(buffer, readerIndex + 1, readerIndex + n)
        PROVE  IInv' /\ BQ!Next
    <2>1. /\ WellFormed(buffer', readerIndex', writerIndex')
          /\ readable' = SubSeq(readable, n + 1, Len(readable))
          /\ buffer' = buffer
      BY <1>2, RetrieveDrops
    <2>2. /\ SubSeq(buffer, readerIndex + 1, readerIndex + n)
               = SubSeq(readable, 1, n)
          /\ SubSeq(readable, 1, n) \in Seq(Bytes)
          /\ n \in 0 .. Len(readable)
      BY RetrievedAreFirst
    <2>3. passed' \in Seq(Bytes)
      BY <1>2, <2>2 DEF IInv, TypeOK
    <2>4. Len(buffer') <= kCheapPrepend + Room
      BY <2>1 DEF IInv, SizeBounded, Room
    <2>5. IInv'
      BY <2>1, <2>3, <2>4, WellFormedIInv
    <2>6. BQ!Drop(n)
      BY <2>1 DEF BQ!Drop
    <2>7. BQ!Take(n) \/ (BQ!Drop(n) /\ UNCHANGED passed)
      BY <1>2, <2>2, <2>6 DEF BQ!Take
    <2>8. QED
      BY <2>2, <2>5, <2>7 DEF BQ!Next
  <1>3. CASE UNCHANGED vars
    <2>1. IInv' <=> IInv
      BY <1>3 DEF vars, IInv, TypeOK, SizeBounded, readable
    <2>2. UNCHANGED BQ!vars
      BY <1>3 DEF vars, BQ!vars, readable
    <2>3. QED
      BY <2>1, <2>2
  <1>4. CASE Next
    BY <1>1, <1>2, <1>4 DEF Next, RetrieveAsString
  <1>5. QED
    BY <1>3, <1>4

\* The inductive invariant holds in every reachable state.
THEOREM IInvHolds == Spec => []IInv
  <1>1. Init => IInv
    BY InitIInv
  <1>2. IInv /\ [Next]_vars => IInv'
    BY StepIInv
  <1>3. QED
    BY <1>1, <1>2, PTL DEF Spec

\* The indices of buffer.h stay in order and inside the vector, for any
\* sizes: no size_t difference wraps, nothing is written beyond the end.
THEOREM TypeCorrect == Spec => []TypeOK
  <1>1. IInv => TypeOK
    BY DEF IInv
  <1>2. QED
    BY <1>1, IInvHolds, PTL

\* The vector stays within a bound given by the backlog that the users leave
\* and the largest append, however long the buffer is used.
THEOREM SizeBoundedHolds == Spec => []SizeBounded
  <1>1. IInv => SizeBounded
    BY DEF IInv
  <1>2. QED
    BY <1>1, IInvHolds, PTL

\* A Buffer is a queue of bytes: none is lost, repeated, stale or out of
\* order, whatever makeSpace and readFd do.
THEOREM ImplementsByteQueueHolds == Spec => ImplementsByteQueue
  <1>1. Init => BQ!Init
    BY InitIInv DEF Init, BQ!Init
  <1>2. IInv /\ [Next]_vars => [BQ!Next]_(BQ!vars)
    BY StepIInv
  <1>3. QED
    BY <1>1, <1>2, IInvHolds, PTL DEF Spec, ImplementsByteQueue, BQ!Spec
=============================================================================
