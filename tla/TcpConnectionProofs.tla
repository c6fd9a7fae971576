------------------------ MODULE TcpConnectionProofs ------------------------
(***************************************************************************)
(* Theorems about one connection, for any messages, sizes, other threads,  *)
(* high-water mark and room in the kernel.                                 *)
(***************************************************************************)
EXTENDS TcpConnection, SequenceLemmas, TLAPS

-----------------------------------------------------------------------------
(* The inductive invariant.                                                *)

\* Nothing is missing between the wire and the buffer; or the connection is
\* broken, nothing will be written again, and nothing is buffered again.
StreamKept ==
    \/ wire \o outputBuffer = accepted
    \/ outputBuffer = << >> /\ (reset \/ shutWr) /\ IsPrefix(wire, accepted)

\* Whoever wants EPOLLOUT has something to write, and, until the connection
\* goes down, the other way round.
WritingFits ==
    /\ isWriting => outputBuffer # << >>
    /\ outputBuffer # << >> /\ ~ Down => isWriting
    /\ index = "kDeleted" => events = {}

\* connectEstablished is not in the queue q.
NotEstablishing(q) == \A i \in DOMAIN q : q[i] # <<"connectEstablished">>

\* Before connectEstablished has run, it is the first functor, and nothing
\* else has happened; it is nowhere else, and nowhere afterwards.
EstablishedFirst ==
    /\ calls = << >> =>
         /\ state = "kConnecting"
         /\ outputBuffer = << >>
         /\ ~ inCallback
         /\ todo = << >>
         /\ index = "kNew"
         /\ queue # << >>
         /\ Head(queue) = <<"connectEstablished">>
         /\ NotEstablishing(Tail(queue))
         /\ \A u \in Users : user[u] \in {Idle, Absent}
    /\ calls # << >> => NotEstablishing(queue)
    /\ \A u \in Users : user[u] # <<"connectEstablished">>

\* _state follows the connection callbacks.
StateFits ==
    /\ state = "kConnecting" => calls = << >>
    /\ state = "kDisconnected" => Down

IInv ==
    /\ TypeOK
    /\ StreamKept
    /\ WritingFits
    /\ EstablishedFirst
    /\ StateFits
    /\ DestroyedIsTold

-----------------------------------------------------------------------------
(* Sequences.                                                              *)

\* A sequence is its first n elements and the rest.
LEMMA SplitAt ==
  ASSUME NEW S, NEW s \in Seq(S), NEW n \in 0 .. Len(s)
  PROVE  /\ SubSeq(s, 1, n) \in Seq(S)
         /\ SubSeq(s, n + 1, Len(s)) \in Seq(S)
         /\ SubSeq(s, 1, n) \o SubSeq(s, n + 1, Len(s)) = s
         /\ n < Len(s) => SubSeq(s, n + 1, Len(s)) # << >>
  <1>0. Len(s) \in Nat
    OBVIOUS
  <1>1. \A i \in 1 .. Len(s) : s[i] \in S
    BY ElementOfSeq
  <1>2. SubSeq(s, 1, n) \in Seq(S)
    BY <1>0, <1>1, SubSeqProperties
  <1>3. /\ SubSeq(s, n + 1, Len(s)) \in Seq(S)
        /\ n < Len(s) => Len(SubSeq(s, n + 1, Len(s))) # 0
    BY <1>0, <1>1, SubSeqProperties
  <1>4. SubSeq(s, 1, n) \o SubSeq(s, n + 1, Len(s)) = SubSeq(s, 1, Len(s))
    <2>1. /\ 1 \in 1 .. Len(s) + 1
          /\ n \in 1 - 1 .. Len(s)
          /\ Len(s) \in n .. Len(s)
      BY <1>0
    <2>2. QED
      BY <2>1, ConcatAdjacentSubSeq, Zenon
  <1>5. SubSeq(s, 1, Len(s)) = s
    BY SubSeqFull
  <1>6. n < Len(s) => SubSeq(s, n + 1, Len(s)) # << >>
    <2>1. Len(<< >>) = 0
      BY EmptySeq
    <2>2. QED
      BY <1>3, <2>1, Zenon
  <1>7. QED
    BY <1>2, <1>3, <1>4, <1>5, <1>6

\* The empty part of a sequence.
LEMMA NothingOf == ASSUME NEW s PROVE SubSeq(s, 1, 0) = << >>
  BY SubSeqEmpty

\* A prefix stays one when the longer sequence grows.
LEMMA PrefixGrows ==
  ASSUME NEW S, NEW s \in Seq(S), NEW t \in Seq(S), NEW u \in Seq(S),
         IsPrefix(s, t)
  PROVE  IsPrefix(s, t \o u)
  <1>1. /\ t \o u \in Seq(S)
        /\ Len(t \o u) = Len(t) + Len(u)
    BY ConcatProperties
  <1>2. CASE Len(s) = 0
    BY <1>1, <1>2, NothingOf DEF IsPrefix
  <1>3. CASE Len(s) # 0
    <2>1. SubSeq(t \o u, 1, Len(s)) = SubSeq(t, 1, Len(s))
      BY <1>3, SubSeqOfConcat1 DEF IsPrefix
    <2>2. QED
      BY <1>1, <2>1 DEF IsPrefix
  <1>4. QED
    BY <1>2, <1>3

\* Every sequence is a prefix of itself.
LEMMA PrefixOfItself == ASSUME NEW s, Len(s) \in Nat PROVE IsPrefix(s, s)
  BY DEF IsPrefix

-----------------------------------------------------------------------------
(* Helpers of the handlers.                                                *)

\* The callbacks that the history records.
CallbackNames == {"up", "message", "down"}

\* The bytes of a message, or what replaced them, are bytes.
LEMMA BytesTyped ==
  ASSUME NEW m \in Messages
  PROVE  Bytes(m) \in Seq(AllBytes) /\ Recycled(m) \in Seq(AllBytes)
  <1>1. Size[m] \in Nat
    BY TcpConnectionAssumption
  <1>2. \A i \in 1 .. Size[m] :
          <<m, i>> \in AllBytes /\ <<"recycled", i>> \in AllBytes
    BY DEF AllBytes
  <1>3. /\ Bytes(m) \in [1 .. Size[m] -> AllBytes]
        /\ Recycled(m) \in [1 .. Size[m] -> AllBytes]
    BY <1>2 DEF Bytes, Recycled
  <1>4. QED
    BY <1>1, <1>3, SeqDef

\* A write takes part of what it is given, within the room of the kernel,
\* and fails for good exactly on a connection that is broken.
LEMMA WriteTakes ==
  ASSUME NEW len \in Nat, NEW result \in WriteResults(len),
         sndSpace \in Nat
  PROVE  /\ result \in Int
         /\ Taken(result) \in 0 .. len
         /\ sndSpace - Taken(result) \in 0 .. sndSpace
         /\ result = Broken => Taken(result) = 0
         /\ result = Broken <=> reset \/ shutWr
  BY DEF WriteResults, Taken, Again, Broken

\* What a callback leaves in the history.
LEMMA CalledAdds ==
  ASSUME NEW callback \in CallbackNames, calls \in Seq(CallbackNames),
         Called(callback)
  PROVE  /\ calls' \in Seq(CallbackNames)
         /\ calls' # << >>
         /\ Down => Down'
         /\ callback = "down" => Down'
  <1>1. CASE calls' = calls /\ calls # << >> /\ callback = "message"
    BY <1>1 DEF Down, CallbackNames
  <1>2. CASE calls' = Append(calls, callback)
    <2>1. /\ calls' \in Seq(CallbackNames)
          /\ calls' # << >>
          /\ Len(calls') = Len(calls) + 1
          /\ \A i \in 1 .. Len(calls) : calls'[i] = calls[i]
          /\ calls'[Len(calls) + 1] = callback
      BY <1>2, AppendProperties
    <2>2. Range(calls') = {calls'[i] : i \in 1 .. Len(calls) + 1}
      BY <2>1, RangeEquality
    <2>3. Range(calls) = {calls[i] : i \in 1 .. Len(calls)}
      BY RangeEquality
    <2>4. callback \in Range(calls')
      BY <2>1, <2>2
    <2>5. Range(calls) \subseteq Range(calls')
      BY <2>1, <2>2, <2>3
    <2>6. QED
      BY <2>1, <2>4, <2>5 DEF Down
  <1>3. QED
    BY <1>1, <1>2 DEF Called

\* The channel's update keeps _index and the events together.
LEMMA SetEventsFits ==
  ASSUME NEW mask \in SUBSET {"in", "out"}, SetEvents(mask)
  PROVE  /\ events' = mask
         /\ index' \in Indices \ {"kNew"}
         /\ index' = "kDeleted" => events' = {}
  BY DEF SetEvents, Indices

\* Functors that are queued later are not connectEstablished.
LEMMA QueuedLater ==
  ASSUME NEW q \in Seq(Functors), NEW f \in Functors,
         f # <<"connectEstablished">>
  PROVE  /\ Append(q, f) \in Seq(Functors)
         /\ NotEstablishing(q) => NotEstablishing(Append(q, f))
         /\ q # << >> =>
              /\ Append(q, f) # << >>
              /\ Head(Append(q, f)) = Head(q)
              /\ Tail(Append(q, f)) = Append(Tail(q), f)
  <1>1. /\ Append(q, f) \in Seq(Functors)
        /\ Append(q, f) # << >>
        /\ DOMAIN Append(q, f) = 1 .. Len(q) + 1
        /\ DOMAIN q = 1 .. Len(q)
        /\ Len(q) \in Nat
        /\ \A i \in 1 .. Len(q) : Append(q, f)[i] = q[i]
        /\ Append(q, f)[Len(q) + 1] = f
    BY AppendProperties, LenProperties
  <1>2. ASSUME NotEstablishing(q), NEW i \in 1 .. Len(q) + 1
        PROVE  Append(q, f)[i] # <<"connectEstablished">>
    <2>1. CASE i \in 1 .. Len(q)
      BY <1>1, <1>2, <2>1 DEF NotEstablishing
    <2>2. CASE i = Len(q) + 1
      BY <1>1, <2>2
    <2>3. QED
      BY <1>1, <1>2, <2>1, <2>2
  <1>3. QED
    BY <1>1, <1>2, HeadTailAppend DEF NotEstablishing

\* Functors that are concatenated to the queue are not connectEstablished.
LEMMA QueuedTogether ==
  ASSUME NEW q \in Seq(Functors), NEW r \in Seq(Functors)
  PROVE  /\ q \o r \in Seq(Functors)
         /\ NotEstablishing(q) /\ NotEstablishing(r) =>
              NotEstablishing(q \o r)
  <1>1. /\ q \o r \in Seq(Functors)
        /\ DOMAIN (q \o r) = 1 .. Len(q) + Len(r)
        /\ DOMAIN q = 1 .. Len(q)
        /\ DOMAIN r = 1 .. Len(r)
        /\ Len(q) \in Nat /\ Len(r) \in Nat
        /\ \A i \in 1 .. Len(q) + Len(r) :
             (q \o r)[i] = IF i <= Len(q) THEN q[i] ELSE r[i - Len(q)]
    BY ConcatProperties, LenProperties
  <1>2. ASSUME NotEstablishing(q), NotEstablishing(r),
               NEW i \in 1 .. Len(q) + Len(r)
        PROVE  (q \o r)[i] # <<"connectEstablished">>
    <2>1. CASE i <= Len(q)
      BY <1>1, <1>2, <2>1 DEF NotEstablishing
    <2>2. CASE ~ (i <= Len(q))
      <3>1. i - Len(q) \in 1 .. Len(r)
        BY <1>1, <2>2
      <3>2. QED
        BY <1>1, <1>2, <2>2, <3>1 DEF NotEstablishing
    <2>3. QED
      BY <2>1, <2>2
  <1>3. QED
    BY <1>1, <1>2 DEF NotEstablishing

\* The callbacks that sendInLoop queues behind itself, if at all.
Told == {"writeComplete", "highWaterMark"}
Maybe(cond, kind) == IF cond THEN <<<<kind>>>> ELSE << >>

\* None of them is connectEstablished.
LEMMA MaybeIsLater ==
  ASSUME NEW cond, NEW kind \in Told
  PROVE  /\ Maybe(cond, kind) \in Seq(Functors)
         /\ NotEstablishing(Maybe(cond, kind))
  <1>1. << >> \in Seq(Functors) /\ NotEstablishing(<< >>)
    BY EmptySeq DEF NotEstablishing
  <1>2. <<<<kind>>>> \in Seq(Functors) /\ NotEstablishing(<<<<kind>>>>)
    <2>1. <<kind>> \in Functors
      BY DEF Functors, Told
    <2>2. <<kind>> # <<"connectEstablished">>
      BY DEF Told
    <2>3. QED
      BY <2>1, <2>2 DEF NotEstablishing
  <1>3. QED
    BY <1>1, <1>2 DEF Maybe

\* What sendInLoop does with a result of write: a part is written, the rest
\* is buffered (and EPOLLOUT wanted) or, on a broken connection, dropped; the
\* user is to be told of a message that went out at once, or of a buffer that
\* crosses the mark.
Tried(len) == IF WritesDirectly THEN WriteResults(len) ELSE {0}

IsComplete(data, result) == WritesDirectly /\ Completes(result, Len(data))

IsBuffered(data, result) == result # Broken /\ Len(data) - Taken(result) > 0

IsCrossing(data, result) ==
    /\ IsBuffered(data, result)
    /\ Crosses(Len(outputBuffer), Len(data) - Taken(result))

Sends(data, rest, result) ==
    /\ Written(data, result)
    /\ accepted' = accepted \o data
    /\ outputBuffer' = IF IsBuffered(data, result)
                       THEN outputBuffer
                              \o SubSeq(data, Taken(result) + 1, Len(data))
                       ELSE outputBuffer
    /\ IF IsBuffered(data, result) /\ ~ isWriting
       THEN SetEvents(events \cup {"out"}) ELSE UNCHANGED interest
    /\ queue' = rest \o Maybe(IsComplete(data, result), "writeComplete")
                     \o Maybe(IsCrossing(data, result), "highWaterMark")

\* sendInLoop is such a step for some result of write.
LEMMA SendInLoopSends ==
  ASSUME NEW data, NEW rest, SendInLoop(data, rest)
  PROVE  \E result \in Tried(Len(data)) : Sends(data, rest, result)
  BY Zenon
     DEF SendInLoop, Sends, Tried, IsComplete, IsBuffered, IsCrossing, Maybe

\* sendInLoop keeps the types of what it changes.
LEMMA SendInLoopTypes ==
  ASSUME TypeOK, NEW data \in Seq(AllBytes), NEW rest \in Seq(Functors),
         SendInLoop(data, rest)
  PROVE  /\ events' \subseteq {"in", "out"}
         /\ index' \in Indices
         /\ outputBuffer' \in Seq(AllBytes)
         /\ queue' \in Seq(Functors)
         /\ NotEstablishing(rest) => NotEstablishing(queue')
         /\ sndSpace' \in 0 .. SndBuf
         /\ soError' \in BOOLEAN
         /\ accepted' \in Seq(AllBytes)
         /\ wire' \in Seq(AllBytes)
  <1> DEFINE len == Len(data)
  <1>1. PICK result \in Tried(len) : Sends(data, rest, result)
    BY SendInLoopSends
  <1>2. len \in Nat
    OBVIOUS
  <1>3. /\ Taken(result) \in 0 .. len
        /\ sndSpace - Taken(result) \in 0 .. SndBuf
    <2>1. CASE WritesDirectly
      <3>1. result \in WriteResults(len) /\ sndSpace \in Nat
        BY <2>1, TcpConnectionAssumption DEF Tried, TypeOK
      <3>2. QED
        BY <1>2, <3>1, WriteTakes, TcpConnectionAssumption DEF TypeOK
    <2>2. CASE ~ WritesDirectly
      BY <1>2, <2>2, TcpConnectionAssumption
         DEF Tried, TypeOK, Taken, Again, Broken
    <2>3. QED
      BY <2>1, <2>2
  <1>4. /\ SubSeq(data, 1, Taken(result)) \in Seq(AllBytes)
        /\ SubSeq(data, Taken(result) + 1, len) \in Seq(AllBytes)
    BY <1>3, SplitAt
  <1>5. events' \subseteq {"in", "out"} /\ index' \in Indices
    <2>1. CASE UNCHANGED interest
      BY <2>1 DEF TypeOK, interest
    <2>2. CASE SetEvents(events \cup {"out"})
      <3>1. events \cup {"out"} \in SUBSET {"in", "out"}
        BY DEF TypeOK
      <3>2. QED
        BY <2>2, <3>1, SetEventsFits
    <2>3. QED
      BY <1>1, <2>1, <2>2 DEF Sends
  <1>6. outputBuffer' \in Seq(AllBytes)
    BY <1>1, <1>4, ConcatProperties DEF TypeOK, Sends
  <1>7. /\ queue' \in Seq(Functors)
        /\ NotEstablishing(rest) => NotEstablishing(queue')
    <2> DEFINE c == Maybe(IsComplete(data, result), "writeComplete")
               h == Maybe(IsCrossing(data, result), "highWaterMark")
    <2>1. /\ c \in Seq(Functors) /\ NotEstablishing(c)
          /\ h \in Seq(Functors) /\ NotEstablishing(h)
      BY MaybeIsLater DEF Told
    <2>2. queue' = rest \o c \o h
      BY <1>1 DEF Sends
    <2> HIDE DEF c, h
    <2>3. QED
      BY <2>1, <2>2, QueuedTogether
  <1>8. sndSpace' \in 0 .. SndBuf /\ soError' \in BOOLEAN
    BY <1>1, <1>3 DEF Sends, Written, TypeOK
  <1>9. accepted' \in Seq(AllBytes) /\ wire' \in Seq(AllBytes)
    BY <1>1, <1>4, ConcatProperties DEF Sends, Written, TypeOK
  <1>10. QED
    BY <1>5, <1>6, <1>7, <1>8, <1>9

-----------------------------------------------------------------------------
(* Types.                                                                  *)

\* newConnection builds a connection with the right types.
LEMMA InitTypeOK == Init => TypeOK
  <1> SUFFICES ASSUME Init PROVE TypeOK
    OBVIOUS
  <1>1. /\ << >> \in Seq(AllBytes)
        /\ << >> \in Seq(Functors)
        /\ << >> \in Seq({"close", "error", "read", "write"})
        /\ << >> \in Seq({<<"removeConnectionInLoop">>})
        /\ << >> \in Seq({"up", "message", "down"})
    BY EmptySeq
  <1>2. <<"connectEstablished">> \in Functors
    BY DEF Functors
  <1>3. <<<<"connectEstablished">>>> \in Seq(Functors)
    BY <1>2
  <1>4. user \in [Users -> Functors \cup {Idle, Absent, <<"setState">>}]
    BY DEF Init
  <1>5. SndBuf \in 0 .. SndBuf /\ 0 \in 0 .. MaxInput
    BY TcpConnectionAssumption
  <1>6. QED
    BY <1>1, <1>3, <1>4, <1>5, TcpConnectionAssumption
       DEF Init, TypeOK, States, Indices

\* What the server and the loop do to the queue and the channel.
LEMMA ConnectDestroyedTypes ==
  ASSUME TypeOK, ConnectDestroyed
  PROVE  /\ state' \in States
         /\ events' \subseteq {"in", "out"}
         /\ index' \in Indices
         /\ calls' \in Seq({"up", "message", "down"})
  BY CalledAdds DEF TypeOK, ConnectDestroyed, States, Indices, CallbackNames

\* Asking for connectDestroyed queues it behind everything else.
LEMMA DestroysInLoopTypes ==
  ASSUME NEW q \in Seq(Functors)
  PROVE  /\ DestroysInLoop(q) \in Seq(Functors)
         /\ NotEstablishing(q) => NotEstablishing(DestroysInLoop(q))
         /\ q # << >> =>
              /\ DestroysInLoop(q) # << >>
              /\ Head(DestroysInLoop(q)) = Head(q)
              /\ Tail(DestroysInLoop(q))
                   = Append(Tail(q), <<"connectDestroyed">>)
  <1>1. <<"connectDestroyed">> \in Functors
    BY DEF Functors
  <1>2. <<"connectDestroyed">> # <<"connectEstablished">>
    OBVIOUS
  <1>3. QED
    BY <1>1, <1>2, QueuedLater DEF DestroysInLoop

\* Every functor keeps the types.
LEMMA RunFunctorTypeOK == TypeOK /\ RunFunctor => TypeOK'
  <1> SUFFICES ASSUME TypeOK, RunFunctor PROVE TypeOK'
    OBVIOUS
  <1>0. /\ queue \in Seq(Functors)
        /\ queue # << >>
        /\ Tail(queue) \in Seq(Functors)
    BY HeadTailProperties DEF TypeOK, RunFunctor
  <1>1. CASE ConnectEstablished
    <2>1. calls' \in Seq({"up", "message", "down"})
      BY <1>1, CalledAdds DEF ConnectEstablished, TypeOK, CallbackNames
    <2>2. events' \subseteq {"in", "out"} /\ index' \in Indices
      <3>1. events \cup {"in"} \in SUBSET {"in", "out"}
        BY DEF TypeOK
      <3>2. QED
        BY <1>1, <3>1, SetEventsFits DEF ConnectEstablished
    <2>3. QED
      BY <1>0, <1>1, <2>1, <2>2
         DEF ConnectEstablished, TypeOK, States, otherVars, serverVars,
             userVars, kernelVars, peerVars, socketVars, stream
  <1>2. CASE ConnectDestroyed /\ queue' = Tail(queue) /\ UNCHANGED serverVars
    BY <1>0, <1>2, ConnectDestroyedTypes
       DEF ConnectDestroyed, TypeOK, serverVars, userVars, kernelVars,
           peerVars, socketVars, stream
  <1>3. CASE UserFunctor
    BY <1>0, <1>3
       DEF UserFunctor, TypeOK, connVars, interest, otherVars, serverVars,
           userVars, kernelVars, peerVars, socketVars, historyVars, stream
  <1>4. CASE /\ ShutdownInLoop
             /\ queue' = Tail(queue)
             /\ UNCHANGED <<connVars, todo, inCallback, otherVars,
                            peerVars, socketVars, historyVars>>
    BY <1>0, <1>4
       DEF ShutdownInLoop, ShutdownWrite, TypeOK, connVars, interest,
           otherVars, serverVars, userVars, peerVars, socketVars,
           historyVars, stream
  <1>5. ASSUME NEW data \in Seq(AllBytes), SendInLoop(data, Tail(queue)),
               UNCHANGED <<state, todo, inCallback, otherVars, peerVars,
                           shutWr, calls>>
        PROVE  TypeOK'
    BY <1>0, <1>5, SendInLoopTypes
       DEF TypeOK, otherVars, serverVars, userVars, peerVars
  <1>6. QED
    BY <1>1, <1>2, <1>3, <1>4, <1>5, BytesTyped DEF RunFunctor

\* The four handlers of Channel keep the types.
LEMMA HandleCloseTypeOK ==
  ASSUME TypeOK, HandleClose, todo' \in Seq({"close", "error", "read", "write"})
  PROVE  TypeOK'
  <1>1. calls' \in Seq({"up", "message", "down"})
    BY CalledAdds DEF HandleClose, TypeOK, CallbackNames
  <1>2. events' \subseteq {"in", "out"} /\ index' \in Indices
    BY SetEventsFits DEF HandleClose
  <1>3. /\ queue' \in Seq(Functors)
        /\ baseQueue' \in Seq({<<"removeConnectionInLoop">>})
    <2>1. Append(baseQueue, <<"removeConnectionInLoop">>)
            \in Seq({<<"removeConnectionInLoop">>})
      BY AppendProperties DEF TypeOK
    <2>2. DestroysInLoop(queue) \in Seq(Functors)
      BY DestroysInLoopTypes DEF TypeOK
    <2>3. QED
      BY <2>1, <2>2 DEF HandleClose, TypeOK
  <1>4. QED
    BY <1>1, <1>2, <1>3
       DEF HandleClose, TypeOK, States, userVars, kernelVars, peerVars,
           socketVars, stream

LEMMA HandleErrorTypeOK ==
  ASSUME TypeOK, HandleError, todo' \in Seq({"close", "error", "read", "write"})
  PROVE  TypeOK'
  BY DEF HandleError, TypeOK, connVars, interest, otherVars, serverVars,
         userVars, peerVars, historyVars, stream

LEMMA HandleReadTypeOK ==
  ASSUME TypeOK, HandleRead, todo' \in Seq({"close", "error", "read", "write"})
  PROVE  TypeOK'
  <1>1. CASE /\ inData > 0
             /\ \E n \in 1 .. inData : inData' = inData - n
             /\ Called("message")
             /\ inCallback' = TRUE
             /\ UNCHANGED <<connVars, queue, otherVars, peerFin, reset,
                            socketVars, shutWr, stream>>
    <2>1. calls' \in Seq({"up", "message", "down"})
      BY <1>1, CalledAdds DEF TypeOK, CallbackNames
    <2>2. inData' \in 0 .. MaxInput
      BY <1>1, TcpConnectionAssumption DEF TypeOK
    <2>3. QED
      BY <1>1, <2>1, <2>2
         DEF TypeOK, connVars, interest, otherVars, serverVars, userVars,
             socketVars, stream
  <1>2. QED
    BY <1>1, HandleCloseTypeOK, HandleErrorTypeOK DEF HandleRead

\* What handleWrite leaves of the buffer and of the room in the kernel.
LEMMA WrittenTypes ==
  ASSUME TypeOK, NEW result \in WriteResults(Len(outputBuffer)),
         Written(outputBuffer, result)
  PROVE  /\ Taken(result) \in 0 .. Len(outputBuffer)
         /\ SubSeq(outputBuffer, Taken(result) + 1, Len(outputBuffer))
              \in Seq(AllBytes)
         /\ sndSpace' \in 0 .. SndBuf
         /\ soError' \in BOOLEAN
         /\ wire' \in Seq(AllBytes)
  <1>1. Len(outputBuffer) \in Nat /\ sndSpace \in Nat /\ SndBuf \in Nat
    BY TcpConnectionAssumption DEF TypeOK
  <1>2. /\ Taken(result) \in 0 .. Len(outputBuffer)
        /\ sndSpace - Taken(result) \in 0 .. SndBuf
    BY <1>1, WriteTakes DEF TypeOK
  <1>3. /\ SubSeq(outputBuffer, 1, Taken(result)) \in Seq(AllBytes)
        /\ SubSeq(outputBuffer, Taken(result) + 1, Len(outputBuffer))
             \in Seq(AllBytes)
    BY <1>2, SplitAt DEF TypeOK
  <1>4. QED
    BY <1>2, <1>3, ConcatProperties DEF Written, TypeOK

LEMMA HandleWriteTypeOK ==
  ASSUME TypeOK, HandleWrite, todo' \in Seq({"close", "error", "read", "write"})
  PROVE  TypeOK'
  <1>1. CASE ~ isWriting
    BY <1>1
       DEF HandleWrite, TypeOK, connVars, interest, otherVars, serverVars,
           userVars, kernelVars, peerVars, socketVars, historyVars, stream
  <1>2. CASE isWriting
    <2>1. PICK result \in WriteResults(Len(outputBuffer)) :
            /\ Written(outputBuffer, result)
            /\ outputBuffer' = SubSeq(outputBuffer, Taken(result) + 1,
                                      Len(outputBuffer))
            /\ IF Taken(result) > 0 /\ outputBuffer' = << >>
               THEN /\ Drained
                    /\ queue' = Append(queue, <<"writeComplete">>)
                    /\ IF ShutdownWaits THEN ShutdownWrite ELSE UNCHANGED shutWr
               ELSE UNCHANGED <<interest, queue, shutWr>>
      BY <1>2 DEF HandleWrite
    <2>2. /\ outputBuffer' \in Seq(AllBytes)
          /\ sndSpace' \in 0 .. SndBuf
          /\ soError' \in BOOLEAN
          /\ wire' \in Seq(AllBytes)
      BY <2>1, WrittenTypes
    <2>3. /\ events' \subseteq {"in", "out"}
          /\ index' \in Indices
          /\ queue' \in Seq(Functors)
          /\ shutWr' \in BOOLEAN
      <3>1. CASE UNCHANGED <<interest, queue, shutWr>>
        BY <3>1 DEF TypeOK, interest
      <3>2. CASE /\ Drained
                 /\ queue' = Append(queue, <<"writeComplete">>)
                 /\ IF ShutdownWaits THEN ShutdownWrite ELSE UNCHANGED shutWr
        <4>1. events \ {"out"} \in SUBSET {"in", "out"}
          BY DEF TypeOK
        <4>2. <<"writeComplete">> \in Functors
          BY DEF Functors
        <4>3. QED
          BY <3>2, <4>1, <4>2, SetEventsFits, AppendProperties
             DEF Drained, ShutdownWrite, TypeOK
      <3>3. QED
        BY <2>1, <3>1, <3>2
    <2>4. QED
      BY <1>2, <2>2, <2>3
         DEF HandleWrite, TypeOK, otherVars, serverVars, userVars, peerVars
  <1>3. QED
    BY <1>1, <1>2

\* So does the dispatch of an event.
LEMMA DispatchTypeOK == TypeOK /\ Dispatch => TypeOK'
  <1> SUFFICES ASSUME TypeOK, Dispatch PROVE TypeOK'
    OBVIOUS
  <1>1. todo' \in Seq({"close", "error", "read", "write"})
    BY HeadTailProperties DEF Dispatch, TypeOK
  <1>2. QED
    BY <1>1, HandleCloseTypeOK, HandleErrorTypeOK, HandleReadTypeOK,
       HandleWriteTypeOK DEF Dispatch

\* The callbacks that epoll asks for are callbacks of Channel.
LEMMA PollTypeOK == TypeOK /\ Poll => TypeOK'
  <1> SUFFICES ASSUME TypeOK, Poll PROVE TypeOK'
    OBVIOUS
  <1> DEFINE Names == {"close", "error", "read", "write"}
  <1>1. /\ << >> \in Seq(Names)
        /\ <<"close">> \in Seq(Names) /\ <<"error">> \in Seq(Names)
        /\ <<"read">> \in Seq(Names) /\ <<"write">> \in Seq(Names)
    OBVIOUS
  <1> HIDE DEF Names
  <1>2. Callbacks(Reported) \in Seq(Names)
    BY <1>1, ConcatProperties DEF Callbacks
  <1>3. QED
    BY <1>2
       DEF Names, Poll, TypeOK, connVars, interest, otherVars, serverVars,
           userVars, kernelVars, peerVars, socketVars, historyVars, stream

\* User code, in callbacks and in other threads.
LEMMA UserTypeOK ==
  ASSUME TypeOK,
         \/ \E m \in Messages : CallbackSend(m)
         \/ CallbackShutdown
         \/ CallbackReturn
         \/ \E u \in Users, m \in Messages : SendTest(u, m)
         \/ \E u \in Users : ShutdownTest(u) \/ ShutdownSetState(u)
                               \/ QueueInLoop(u)
  PROVE  TypeOK'
  <1>1. ASSUME NEW m \in Messages, CallbackSend(m) PROVE TypeOK'
    <2>1. Bytes(m) \in Seq(AllBytes) /\ queue \in Seq(Functors)
      BY BytesTyped DEF TypeOK
    <2>2. QED
      BY <1>1, <2>1, SendInLoopTypes
         DEF CallbackSend, TypeOK, serverVars, peerVars
  <1>2. CASE CallbackShutdown
    BY <1>2
       DEF CallbackShutdown, ShutdownInLoop, ShutdownWrite, TypeOK, States,
           interest, loopVars, otherVars, serverVars, userVars, peerVars,
           socketVars, historyVars, stream
  <1>3. CASE CallbackReturn
    BY <1>3
       DEF CallbackReturn, TypeOK, connVars, interest, otherVars, serverVars,
           userVars, kernelVars, peerVars, socketVars, historyVars, stream
  <1> USE DEF TypeOK, connVars, interest, loopVars, serverVars, kernelVars,
              peerVars, socketVars, historyVars, stream
  <1>4. ASSUME NEW u \in Users, NEW m \in Messages, SendTest(u, m)
        PROVE  TypeOK'
    <2>1. <<"sendInLoop", m>> \in Functors
      BY DEF Functors
    <2>2. QED
      BY <1>4, <2>1 DEF SendTest
  <1>5. ASSUME NEW u \in Users, ShutdownTest(u) PROVE TypeOK'
    BY <1>5 DEF ShutdownTest
  <1>6. ASSUME NEW u \in Users, ShutdownSetState(u) PROVE TypeOK'
    <2>1. <<"shutdownInLoop">> \in Functors
      BY DEF Functors
    <2>2. QED
      BY <1>6, <2>1 DEF ShutdownSetState, States
  <1>7. ASSUME NEW u \in Users, QueueInLoop(u) PROVE TypeOK'
    <2>1. queue' \in Seq(Functors)
      BY <1>7, AppendProperties DEF QueueInLoop
    <2>2. QED
      BY <1>7, <2>1 DEF QueueInLoop
  <1>8. QED
    BY <1>1, <1>2, <1>3, <1>4, <1>5, <1>6, <1>7

\* The server's own steps keep the types.
LEMMA ServerTypeOK ==
  ASSUME TypeOK, RemoveConnectionInLoop \/ ServerDestroyed
  PROVE  TypeOK'
  <1> USE DEF TypeOK, connVars, interest, loopVars, serverVars, userVars,
              kernelVars, peerVars, socketVars, historyVars, stream
  <1>1. CASE RemoveConnectionInLoop
    BY <1>1, DestroysInLoopTypes, HeadTailProperties
       DEF RemoveConnectionInLoop
  <1>2. CASE ServerDestroyed
    <2>1. CASE ConnectDestroyed /\ UNCHANGED queue
      BY <1>2, <2>1, ConnectDestroyedTypes
         DEF ServerDestroyed, ConnectDestroyed
    <2>2. CASE queue' = DestroysInLoop(queue) \/ UNCHANGED queue
      BY <1>2, <2>2, ConnectDestroyedTypes, DestroysInLoopTypes
         DEF ServerDestroyed, ConnectDestroyed
    <2>3. QED
      BY <1>2, <2>1, <2>2 DEF ServerDestroyed
  <1>3. QED
    BY <1>1, <1>2

\* The peer's steps keep the types.
LEMMA PeerTypeOK ==
  ASSUME TypeOK, PeerSends \/ PeerReads \/ PeerCloses \/ PeerResets
  PROVE  TypeOK'
  <1> USE TcpConnectionAssumption
      DEF TypeOK, connVars, interest, loopVars, otherVars, serverVars,
          userVars, peerVars, socketVars, historyVars, stream
  <1>1. CASE PeerSends
    BY <1>1 DEF PeerSends
  <1>2. CASE PeerReads
    BY <1>2 DEF PeerReads
  <1>3. CASE PeerCloses
    BY <1>3 DEF PeerCloses
  <1>4. CASE PeerResets
    BY <1>4 DEF PeerResets
  <1>5. QED
    BY <1>1, <1>2, <1>3, <1>4

\* Every step keeps the types.
LEMMA NextTypeOK == TypeOK /\ [Next]_vars => TypeOK'
  <1>1. TypeOK /\ UNCHANGED vars => TypeOK'
    BY DEF TypeOK, vars, connVars, interest, loopVars, otherVars, serverVars,
           userVars, kernelVars, peerVars, socketVars, historyVars, stream
  <1>2. QED
    BY <1>1, RunFunctorTypeOK, PollTypeOK, DispatchTypeOK, UserTypeOK,
       ServerTypeOK, PeerTypeOK DEF Next

\* The variables of a connection keep their types: in particular nothing but
\* bytes of messages, or what replaced them in a late send(), is ever buffered
\* or written (net/tcpconnection.cc, sendInLoop and handleWrite).
THEOREM TypeCorrect == Spec => []TypeOK
  BY InitTypeOK, NextTypeOK, PTL DEF Spec

-----------------------------------------------------------------------------
(* The stream.                                                             *)

\* Steps that leave the stream, the buffer and the interest alone.
LEMMA StreamQuiet ==
  ASSUME StreamKept, WritingFits,
         UNCHANGED <<outputBuffer, interest, accepted, wire>>,
         reset => reset', shutWr => shutWr', Down => Down'
  PROVE  StreamKept' /\ WritingFits'
  BY DEF StreamKept, WritingFits, isWriting, interest

\* Every byte of data that is not written is buffered.
LEMMA SendInLoopKeeps ==
  ASSUME TypeOK, StreamKept, WritingFits,
         NEW data \in Seq(AllBytes), NEW rest \in Seq(Functors),
         SendInLoop(data, rest), UNCHANGED <<reset, shutWr>>
  PROVE  StreamKept'
  <1> DEFINE len == Len(data)
  <1>1. PICK result \in Tried(len) : Sends(data, rest, result)
    BY SendInLoopSends
  <1>2. /\ accepted \in Seq(AllBytes) /\ wire \in Seq(AllBytes)
        /\ outputBuffer \in Seq(AllBytes) /\ len \in Nat /\ sndSpace \in Nat
    BY TcpConnectionAssumption DEF TypeOK
  <1>3. /\ wire' = wire \o SubSeq(data, 1, Taken(result))
        /\ accepted' = accepted \o data
    BY <1>1 DEF Sends, Written
  <1>4. CASE WritesDirectly /\ result = Broken
    <2>1. (reset \/ shutWr) /\ Taken(result) = 0
      BY <1>1, <1>2, <1>4, WriteTakes DEF Tried
    <2>2. wire' = wire
      BY <1>2, <1>3, <2>1, NothingOf, ConcatEmptySeq
    <2>3. outputBuffer' = << >>
      BY <1>1, <1>4 DEF Sends, IsBuffered, WritesDirectly
    <2>4. IsPrefix(wire, accepted)
      <3>1. CASE wire \o outputBuffer = accepted
        BY <1>2, <1>4, <3>1, ConcatEmptySeq, PrefixOfItself
           DEF WritesDirectly
      <3>2. QED
        BY <3>1 DEF StreamKept
    <2>5. IsPrefix(wire', accepted')
      BY <1>2, <1>3, <2>2, <2>4, PrefixGrows
    <2>6. QED
      BY <2>1, <2>3, <2>5 DEF StreamKept
  <1>5. CASE WritesDirectly /\ result # Broken
    <2>1. /\ ~ (reset \/ shutWr)
          /\ Taken(result) \in 0 .. len
      BY <1>1, <1>2, <1>5, WriteTakes DEF Tried
    <2>2. wire = accepted /\ outputBuffer = << >>
      BY <1>2, <1>5, <2>1, ConcatEmptySeq DEF StreamKept, WritesDirectly
    <2> DEFINE head == SubSeq(data, 1, Taken(result))
               tail == SubSeq(data, Taken(result) + 1, len)
    <2>3. /\ head \in Seq(AllBytes) /\ tail \in Seq(AllBytes)
          /\ head \o tail = data
      BY <2>1, SplitAt
    <2>3a. wire \in Seq(AllBytes) /\ head \in Seq(AllBytes)
            /\ tail \in Seq(AllBytes)
      BY <1>2, <2>3
    <2>4. outputBuffer' = tail
      <3>1. CASE IsBuffered(data, result)
        BY <1>1, <2>2, <2>3, <3>1, ConcatEmptySeq DEF Sends
      <3>2. CASE ~ IsBuffered(data, result)
        <4>1. len < Taken(result) + 1
          BY <1>2, <1>5, <2>1, <3>2 DEF IsBuffered
        <4>2. tail = << >>
          BY <1>2, <2>1, <4>1, SubSeqEmpty
        <4>3. QED
          BY <1>1, <2>2, <3>2, <4>2 DEF Sends
      <3>3. QED
        BY <3>1, <3>2
    <2>5. wire' \o outputBuffer' = wire \o (head \o tail)
      <3>1. wire' \o outputBuffer' = (wire \o head) \o tail
        BY <1>3, <2>4, Zenon
      <3> HIDE DEF head, tail
      <3>2. (wire \o head) \o tail = wire \o (head \o tail)
        BY <2>3a
      <3>3. QED
        BY <3>1, <3>2, Zenon
    <2>6. QED
      BY <1>3, <2>2, <2>3, <2>5 DEF StreamKept
  <1>6. CASE ~ WritesDirectly
    <2>1. outputBuffer # << >> /\ wire \o outputBuffer = accepted
      BY <1>6 DEF WritesDirectly, WritingFits, StreamKept
    <2>2. result = 0 /\ result # Broken /\ Taken(result) = 0
      BY <1>6 DEF Tried, Taken, Again, Broken
    <2>3. wire' = wire
      BY <1>2, <1>3, <2>2, NothingOf, ConcatEmptySeq
    <2>4. outputBuffer' = outputBuffer \o data
      <3>1. CASE len > 0
        <4>1. SubSeq(data, Taken(result) + 1, len) = data
          BY <2>2, SubSeqFull
        <4>2. IsBuffered(data, result)
          BY <1>2, <2>2, <3>1 DEF IsBuffered
        <4>3. outputBuffer'
                = outputBuffer \o SubSeq(data, Taken(result) + 1, len)
          BY <1>1, <4>2 DEF Sends
        <4>4. QED
          BY <4>1, <4>3
      <3>2. CASE ~ (len > 0)
        <4>1. data = << >>
          BY <1>2, <3>2, EmptySeq
        <4>2. outputBuffer' = outputBuffer
          BY <1>1, <1>2, <2>2, <3>2 DEF Sends, IsBuffered
        <4>3. QED
          BY <1>2, <4>1, <4>2, ConcatEmptySeq
      <3>3. QED
        BY <3>1, <3>2
    <2>5. wire' \o outputBuffer' = accepted'
      <3>1. (wire \o outputBuffer) \o data = wire \o (outputBuffer \o data)
        BY <1>2
      <3>2. QED
        BY <1>3, <2>1, <2>3, <2>4, <3>1, Zenon
    <2>6. QED
      BY <2>5 DEF StreamKept
  <1>7. QED
    BY <1>4, <1>5, <1>6

\* EPOLLOUT is asked for as soon as something is buffered.
LEMMA SendInLoopWrites ==
  ASSUME TypeOK, WritingFits,
         NEW data \in Seq(AllBytes), NEW rest \in Seq(Functors),
         SendInLoop(data, rest), UNCHANGED calls
  PROVE  /\ WritingFits'
         /\ index' = "kNew" => index = "kNew"
  <1> DEFINE len == Len(data)
  <1>1. PICK result \in Tried(len) : Sends(data, rest, result)
    BY SendInLoopSends
  <1>2. CASE ~ IsBuffered(data, result)
    <2>1. UNCHANGED <<outputBuffer, interest>>
      BY <1>1, <1>2 DEF Sends
    <2>2. QED
      BY <2>1 DEF WritingFits, isWriting, interest, Down
  <1>3. CASE IsBuffered(data, result)
    <2>0. len \in Nat /\ sndSpace \in Nat
      BY TcpConnectionAssumption DEF TypeOK
    <2>1. Taken(result) \in 0 .. len /\ Taken(result) < len
      <3>1. CASE WritesDirectly
        <4>1. Taken(result) \in 0 .. len
          BY <2>0, <3>1, WriteTakes DEF Tried
        <4>2. QED
          BY <1>3, <2>0, <4>1 DEF IsBuffered
      <3>2. CASE ~ WritesDirectly
        <4>1. Taken(result) = 0
          BY <3>2 DEF Tried, Taken, Again, Broken
        <4>2. QED
          BY <1>3, <2>0, <4>1 DEF IsBuffered
      <3>3. QED
        BY <3>1, <3>2
    <2> DEFINE tail == SubSeq(data, Taken(result) + 1, len)
    <2>2. tail \in Seq(AllBytes) /\ tail # << >>
      BY <2>1, SplitAt
    <2>3. outputBuffer' = outputBuffer \o tail
      BY <1>1, <1>3 DEF Sends
    <2>4. outputBuffer' # << >>
      <3>1. outputBuffer \in Seq(AllBytes)
        BY DEF TypeOK
      <3>2. QED
        BY <2>2, <2>3, <3>1, ConcatEqualIffEmpty
    <2>5. CASE isWriting
      BY <1>1, <1>3, <2>4, <2>5 DEF Sends, WritingFits, isWriting, interest
    <2>6. CASE ~ isWriting
      <3>1. events \cup {"out"} \in SUBSET {"in", "out"}
        BY DEF TypeOK
      <3>2. SetEvents(events \cup {"out"})
        BY <1>1, <1>3, <2>6 DEF Sends
      <3>3. QED
        BY <2>4, <3>1, <3>2, SetEventsFits DEF WritingFits, isWriting
    <2>7. QED
      BY <2>5, <2>6
  <1>4. QED
    BY <1>2, <1>3

\* handleWrite moves bytes from the buffer to the wire.
LEMMA HandleWriteKeeps ==
  ASSUME TypeOK, StreamKept, WritingFits, HandleWrite
  PROVE  /\ StreamKept'
         /\ WritingFits'
         /\ index' = "kNew" => index = "kNew"
         /\ isWriting => wire' \o outputBuffer' = accepted'
  <1>1. CASE ~ isWriting
    BY <1>1, StreamQuiet
       DEF HandleWrite, connVars, interest, kernelVars, peerVars,
           historyVars, stream, Down
  <1>2. CASE isWriting
    <2> DEFINE len == Len(outputBuffer)
    <2>1. PICK result \in WriteResults(len) :
            /\ Written(outputBuffer, result)
            /\ outputBuffer' = SubSeq(outputBuffer, Taken(result) + 1, len)
            /\ IF Taken(result) > 0 /\ outputBuffer' = << >>
               THEN Drained ELSE UNCHANGED interest
      BY <1>2 DEF HandleWrite, interest
    <2>2. outputBuffer # << >> /\ wire \o outputBuffer = accepted
      BY <1>2 DEF WritingFits, StreamKept
    <2>3. /\ Taken(result) \in 0 .. len
          /\ outputBuffer \in Seq(AllBytes) /\ wire \in Seq(AllBytes)
      BY <2>1, WrittenTypes DEF TypeOK
    <2> DEFINE head == SubSeq(outputBuffer, 1, Taken(result))
               tail == SubSeq(outputBuffer, Taken(result) + 1, len)
    <2>4. /\ head \in Seq(AllBytes) /\ tail \in Seq(AllBytes)
          /\ head \o tail = outputBuffer
      BY <2>3, SplitAt
    <2>5. StreamKept' /\ wire' \o outputBuffer' = accepted'
      <3>1. wire' \o outputBuffer' = (wire \o head) \o tail
        BY <2>1, Zenon DEF Written
      <3>2. /\ wire \in Seq(AllBytes)
            /\ head \in Seq(AllBytes) /\ tail \in Seq(AllBytes)
        BY <2>3, <2>4
      <3>3. accepted' = accepted
        BY <1>2 DEF HandleWrite
      <3> HIDE DEF head, tail
      <3>4. (wire \o head) \o tail = wire \o (head \o tail)
        BY <3>2
      <3>5. wire' \o outputBuffer' = accepted'
        BY <2>2, <2>4, <3>1, <3>3, <3>4, Zenon
      <3>6. QED
        BY <3>5 DEF StreamKept
    <2>6. CASE Taken(result) > 0 /\ outputBuffer' = << >>
      <3>1. events \ {"out"} \in SUBSET {"in", "out"}
        BY DEF TypeOK
      <3>2. QED
        BY <2>1, <2>5, <2>6, <3>1, SetEventsFits
           DEF Drained, WritingFits, isWriting
    <2>7. CASE ~ (Taken(result) > 0 /\ outputBuffer' = << >>)
      <3>1. outputBuffer' # << >>
        <4>1. CASE Taken(result) = 0
          <5>1. tail = outputBuffer
            BY <2>3, <4>1, SubSeqFull
          <5>2. QED
            BY <2>1, <2>2, <5>1
        <4>2. CASE Taken(result) > 0
          BY <2>7, <4>2
        <4>3. QED
          BY <2>3, <4>1, <4>2
      <3>2. QED
        BY <1>2, <2>1, <2>5, <2>7, <3>1 DEF WritingFits, isWriting, interest
    <2>8. QED
      BY <2>6, <2>7
  <1>3. QED
    BY <1>1, <1>2

-----------------------------------------------------------------------------
(* The life of the connection.                                             *)

\* The part of the invariant about the connection's life, in the order
\* of its callbacks and functors.
Life == EstablishedFirst /\ StateFits /\ DestroyedIsTold

\* Steps that concern none of it.
LEMMA LifeQuiet ==
  ASSUME Life,
         UNCHANGED <<state, index, outputBuffer, queue, todo, inCallback, user,
                     calls>>
  PROVE  Life'
  BY DEF Life, EstablishedFirst, StateFits, DestroyedIsTold, Down,
         NotEstablishing

\* Steps after connectEstablished that leave _state and _index alone.
LEMMA LifeGoesOn ==
  ASSUME Life, calls # << >>, calls' # << >>, Down => Down',
         UNCHANGED state, index' = "kNew" => index = "kNew",
         NotEstablishing(queue'),
         \A u \in Users : user'[u] # <<"connectEstablished">>
  PROVE  Life'
  BY DEF Life, EstablishedFirst, StateFits, DestroyedIsTold

\* What is queued behind others is still there when they have run.
LEMMA NotEstablishingTail ==
  ASSUME NEW q \in Seq(Functors), q # << >>, NotEstablishing(q)
  PROVE  NotEstablishing(Tail(q))
  <1>1. /\ DOMAIN q = 1 .. Len(q)
        /\ DOMAIN Tail(q) = 1 .. Len(q) - 1
        /\ Len(q) \in Nat
        /\ \A i \in 1 .. Len(q) - 1 : Tail(q)[i] = q[i + 1]
    BY HeadTailProperties, LenProperties
  <1>2. ASSUME NEW i \in 1 .. Len(q) - 1
        PROVE  Tail(q)[i] # <<"connectEstablished">>
    BY <1>1 DEF NotEstablishing
  <1>3. QED
    BY <1>1, <1>2 DEF NotEstablishing

\* A queue that has no connectEstablished does not begin with it.
LEMMA NotEstablishingHead ==
  ASSUME NEW q \in Seq(Functors), q # << >>, NotEstablishing(q)
  PROVE  Head(q) # <<"connectEstablished">>
  <1>1. 1 \in DOMAIN q /\ Head(q) = q[1]
    BY EmptySeq, LenProperties
  <1>2. QED
    BY <1>1 DEF NotEstablishing

\* connectDestroyed, of a connection that has been up.
LEMMA ConnectDestroyedLife ==
  ASSUME TypeOK, Life, ConnectDestroyed, calls # << >>,
         NotEstablishing(queue'), UNCHANGED user
  PROVE  Life'
  <1>1. CASE StillUp
    <2>1. calls' # << >> /\ Down' /\ state' = "kDisconnected"
      BY <1>1, CalledAdds DEF ConnectDestroyed, TypeOK, CallbackNames
    <2>2. QED
      BY <2>1
         DEF Life, EstablishedFirst, StateFits, DestroyedIsTold,
             ConnectDestroyed, userVars
  <1>2. CASE ~ StillUp
    <2>1. UNCHANGED <<state, calls>>
      BY <1>2 DEF ConnectDestroyed
    <2>2. Down \/ state = "kDisconnecting"
      BY <1>2 DEF Life, StateFits, StillUp, TypeOK, States
    <2>3. QED
      BY <2>1, <2>2
         DEF Life, EstablishedFirst, StateFits, DestroyedIsTold, Down
  <1>3. QED
    BY <1>1, <1>2

\* Every functor keeps the order of the connection's life.
LEMMA RunFunctorLife == TypeOK /\ WritingFits /\ Life /\ RunFunctor => Life'
  <1> SUFFICES ASSUME TypeOK, WritingFits, Life, RunFunctor PROVE Life'
    OBVIOUS
  <1>1. queue \in Seq(Functors) /\ queue # << >>
    BY DEF TypeOK, RunFunctor
  <1>2. CASE ConnectEstablished /\ Head(queue) = <<"connectEstablished">>
    <2>1. calls = << >>
      BY <1>1, <1>2, NotEstablishingHead DEF Life, EstablishedFirst
    <2>2. NotEstablishing(Tail(queue)) /\ queue' = Tail(queue)
      BY <1>2, <2>1 DEF Life, EstablishedFirst, ConnectEstablished
    <2>3. calls' # << >>
      BY <1>2, CalledAdds DEF ConnectEstablished, TypeOK, CallbackNames
    <2>4. index' # "kNew"
      <3>1. events \cup {"in"} \in SUBSET {"in", "out"}
        BY DEF TypeOK
      <3>2. QED
        BY <1>2, <3>1, SetEventsFits DEF ConnectEstablished
    <2>5. QED
      BY <1>2, <2>2, <2>3, <2>4
         DEF Life, EstablishedFirst, StateFits, DestroyedIsTold,
             ConnectEstablished, otherVars, userVars
  <1>3. ASSUME Head(queue) # <<"connectEstablished">>
        PROVE  calls # << >> /\ NotEstablishing(Tail(queue))
    BY <1>1, <1>3, NotEstablishingTail DEF Life, EstablishedFirst
  <1>4. CASE /\ Head(queue) = <<"connectDestroyed">>
             /\ ConnectDestroyed
             /\ queue' = Tail(queue)
    <2>1. calls # << >> /\ NotEstablishing(Tail(queue))
      BY <1>3, <1>4
    <2>2. QED
      BY <1>4, <2>1, ConnectDestroyedLife DEF ConnectDestroyed, userVars
  <1>5. CASE /\ Head(queue) \in {<<"writeComplete">>, <<"highWaterMark">>,
                                 <<"shutdownInLoop">>}
             /\ queue' = Tail(queue)
             /\ UNCHANGED <<connVars, otherVars, historyVars>>
    <2>1. calls # << >> /\ NotEstablishing(Tail(queue))
      BY <1>3, <1>5
    <2>2. QED
      BY <1>5, <2>1, LifeGoesOn
         DEF connVars, interest, otherVars, userVars, historyVars, Down, Life,
             EstablishedFirst
  <1>6. ASSUME NEW m \in Messages, NEW data \in Seq(AllBytes),
               Head(queue) = <<"sendInLoop", m>>,
               SendInLoop(data, Tail(queue)),
               UNCHANGED <<state, otherVars, calls>>
        PROVE  Life'
    <2>1. <<"sendInLoop", m>> # <<"connectEstablished">>
      OBVIOUS
    <2>2. calls # << >> /\ NotEstablishing(Tail(queue))
      BY <1>3, <1>6, <2>1
    <2>3. Tail(queue) \in Seq(Functors)
      BY <1>1, HeadTailProperties
    <2>4. NotEstablishing(queue') /\ (index' = "kNew" => index = "kNew")
      BY <1>6, <2>2, <2>3, SendInLoopTypes, SendInLoopWrites
    <2>5. QED
      BY <1>6, <2>2, <2>4, LifeGoesOn
         DEF otherVars, userVars, Down, Life, EstablishedFirst
  <1>7. CASE \E m \in Messages :
               /\ Head(queue) = <<"sendInLoop", m>>
               /\ \E data \in {Bytes(m), Recycled(m)} :
                    SendInLoop(data, Tail(queue))
               /\ UNCHANGED <<state, todo, inCallback, otherVars, peerVars,
                              shutWr, calls>>
    BY <1>6, <1>7, BytesTyped
  <1>8. QED
    BY <1>2, <1>4, <1>5, <1>7 DEF RunFunctor, UserFunctor

\* handleClose: the callback is made and the state set, in one handler.
LEMMA HandleCloseLife ==
  ASSUME TypeOK, Life, HandleClose, calls # << >>
  PROVE  Life'
  <1>1. NotEstablishing(queue')
    BY DestroysInLoopTypes
       DEF HandleClose, Life, EstablishedFirst, TypeOK
  <1>2. calls' # << >> /\ Down'
    BY CalledAdds DEF HandleClose, TypeOK, CallbackNames
  <1>3. QED
    BY <1>1, <1>2
       DEF Life, EstablishedFirst, StateFits, DestroyedIsTold, HandleClose,
           userVars

\* handleError does not touch the life of the connection.
LEMMA HandleErrorLife ==
  ASSUME Life, HandleError, calls # << >>
  PROVE  Life'
  BY LifeGoesOn
     DEF HandleError, connVars, interest, otherVars, userVars, historyVars,
         Down, Life, EstablishedFirst

\* handleRead calls the user, or closes.
LEMMA HandleReadLife ==
  ASSUME TypeOK, Life, HandleRead, calls # << >>
  PROVE  Life'
  <1>1. CASE /\ Called("message")
             /\ UNCHANGED <<connVars, queue, otherVars>>
    <2>1. calls' # << >> /\ (Down => Down')
      BY <1>1, CalledAdds DEF TypeOK, CallbackNames
    <2>2. QED
      BY <1>1, <2>1, LifeGoesOn
         DEF connVars, interest, otherVars, userVars, Life, EstablishedFirst
  <1>2. QED
    BY <1>1, HandleCloseLife, HandleErrorLife DEF HandleRead

\* handleWrite only queues a write-complete callback.
LEMMA HandleWriteLife ==
  ASSUME TypeOK, StreamKept, WritingFits, Life, HandleWrite, calls # << >>
  PROVE  Life'
  <1>1. NotEstablishing(queue)
    BY DEF Life, EstablishedFirst
  <1>2. NotEstablishing(queue')
    <2>1. <<"writeComplete">> \in Functors
      BY DEF Functors
    <2>2. NotEstablishing(Append(queue, <<"writeComplete">>))
      BY <1>1, <2>1, QueuedLater DEF TypeOK
    <2>3. queue' = queue \/ queue' = Append(queue, <<"writeComplete">>)
      BY DEF HandleWrite
    <2>4. QED
      BY <1>1, <2>2, <2>3
  <1>3. UNCHANGED <<state, user, calls>>
    BY DEF HandleWrite, connVars, otherVars, userVars, historyVars
  <1>4. QED
    BY <1>2, <1>3, HandleWriteKeeps, LifeGoesOn
       DEF Down, Life, EstablishedFirst

\* An event is dispatched only after connectEstablished.
LEMMA DispatchLife ==
  TypeOK /\ StreamKept /\ WritingFits /\ Life /\ Dispatch => Life'
  <1> SUFFICES ASSUME TypeOK, StreamKept, WritingFits, Life, Dispatch
               PROVE  Life'
    OBVIOUS
  <1>1. calls # << >>
    BY DEF Dispatch, Life, EstablishedFirst
  <1>2. QED
    BY <1>1, HandleCloseLife, HandleErrorLife, HandleReadLife,
       HandleWriteLife DEF Dispatch

\* So is one polled: the channel is in epoll only then.
LEMMA PollLife == Life /\ Poll => Life'
  <1> SUFFICES ASSUME Life, Poll PROVE Life'
    OBVIOUS
  <1>1. calls # << >>
    BY DEF Poll, Life, EstablishedFirst
  <1>2. QED
    BY <1>1, LifeGoesOn
       DEF Poll, connVars, interest, otherVars, userVars, historyVars, Down,
           Life, EstablishedFirst

\* A thread inside send() or shutdown() got the connection from a callback.
LEMMA InsideHasConnection ==
  ASSUME Life, NEW u \in Users, user[u] \in Functors \cup {<<"setState">>}
  PROVE  calls # << >>
  <1>1. Idle \notin Functors \cup {<<"setState">>}
    <2>1. \A m : Idle # <<"sendInLoop", m>>
      BY DEF Idle
    <2>2. QED
      BY <2>1 DEF Idle, Functors
  <1>2. Absent \notin Functors \cup {<<"setState">>}
    <2>1. \A m : Absent # <<"sendInLoop", m>>
      BY DEF Absent
    <2>2. QED
      BY <2>1 DEF Absent, Functors
  <1>3. QED
    BY <1>1, <1>2 DEF Life, EstablishedFirst

\* User code calls a connection only after its callback.
LEMMA UserLife ==
  ASSUME TypeOK, WritingFits, Life,
         \/ \E m \in Messages : CallbackSend(m)
         \/ CallbackShutdown
         \/ CallbackReturn
         \/ \E u \in Users, m \in Messages : SendTest(u, m)
         \/ \E u \in Users : ShutdownTest(u) \/ ShutdownSetState(u)
                               \/ QueueInLoop(u)
  PROVE  Life'
  <1>0. inCallback => calls # << >>
    BY DEF Life, EstablishedFirst
  <1>1. ASSUME NEW m \in Messages, CallbackSend(m) PROVE Life'
    <2>1. calls # << >> /\ NotEstablishing(queue)
      BY <1>0, <1>1 DEF CallbackSend, Life, EstablishedFirst
    <2>2. Bytes(m) \in Seq(AllBytes) /\ queue \in Seq(Functors)
      BY BytesTyped DEF TypeOK
    <2>3. NotEstablishing(queue') /\ (index' = "kNew" => index = "kNew")
      BY <1>1, <2>1, <2>2, SendInLoopTypes, SendInLoopWrites
         DEF CallbackSend
    <2>4. QED
      BY <1>1, <2>1, <2>3, LifeGoesOn
         DEF CallbackSend, Down, Life, EstablishedFirst
  <1>2. CASE CallbackShutdown
    BY <1>0, <1>2
       DEF CallbackShutdown, interest, loopVars, otherVars, userVars,
           historyVars, Life, EstablishedFirst, StateFits, DestroyedIsTold,
           Down
  <1>3. CASE CallbackReturn
    BY <1>0, <1>3, LifeGoesOn
       DEF CallbackReturn, connVars, interest, otherVars, userVars,
           historyVars, Down, Life, EstablishedFirst
  <1>4. ASSUME NEW u \in Users, NEW v,
               HasConnection(u),
               user' = [user EXCEPT ![u] = v],
               v # <<"connectEstablished">>,
               UNCHANGED <<connVars, loopVars, historyVars>>
        PROVE  Life'
    <2>1. \A w \in Users : user'[w] # <<"connectEstablished">>
      BY <1>4 DEF TypeOK, Life, EstablishedFirst
    <2>2. QED
      BY <1>4, <2>1, LifeGoesOn
         DEF HasConnection, connVars, interest, loopVars, historyVars, Down,
             Life, EstablishedFirst
  <1>5. ASSUME NEW u \in Users, NEW m \in Messages, SendTest(u, m)
        PROVE  Life'
    BY <1>4, <1>5 DEF SendTest
  <1>6. ASSUME NEW u \in Users, ShutdownTest(u) PROVE Life'
    BY <1>4, <1>6 DEF ShutdownTest
  <1>7. ASSUME NEW u \in Users, ShutdownSetState(u) PROVE Life'
    <2>1. calls # << >>
      BY <1>7, InsideHasConnection DEF ShutdownSetState
    <2>2. \A w \in Users : user'[w] # <<"connectEstablished">>
      BY <1>7 DEF ShutdownSetState, TypeOK, Life, EstablishedFirst
    <2>3. QED
      BY <1>7, <2>1, <2>2
         DEF ShutdownSetState, interest, loopVars, historyVars, stream, Life,
             EstablishedFirst, StateFits, DestroyedIsTold, Down
  <1>8. ASSUME NEW u \in Users, QueueInLoop(u) PROVE Life'
    <2>1. calls # << >>
      BY <1>8, InsideHasConnection DEF QueueInLoop
    <2>2. \A w \in Users : user'[w] # <<"connectEstablished">>
      BY <1>8 DEF QueueInLoop, TypeOK, Life, EstablishedFirst, Idle
    <2>3. NotEstablishing(queue')
      BY <1>8, <2>1, QueuedLater
         DEF QueueInLoop, TypeOK, Life, EstablishedFirst
    <2>4. QED
      BY <1>8, <2>1, <2>2, <2>3, LifeGoesOn
         DEF QueueInLoop, connVars, interest, historyVars, Down
  <1>9. QED
    BY <1>1, <1>2, <1>3, <1>5, <1>6, <1>7, <1>8

\* The server may queue connectDestroyed before connectEstablished has run:
\* it comes behind it.
LEMMA DestroyedBehind ==
  ASSUME TypeOK, Life, queue' = DestroysInLoop(queue),
         UNCHANGED <<state, index, outputBuffer, todo, inCallback, user, calls>>
  PROVE  Life'
  <1>1. queue \in Seq(Functors)
    BY DEF TypeOK
  <1>2. CASE calls # << >>
    BY <1>1, <1>2, DestroysInLoopTypes, LifeGoesOn
       DEF Life, EstablishedFirst, Down
  <1>3. CASE calls = << >>
    <2>1. /\ queue # << >>
          /\ Head(queue) = <<"connectEstablished">>
          /\ NotEstablishing(Tail(queue))
          /\ Tail(queue) \in Seq(Functors)
      BY <1>1, <1>3, HeadTailProperties DEF Life, EstablishedFirst
    <2>2. /\ queue' # << >>
          /\ Head(queue') = <<"connectEstablished">>
          /\ Tail(queue') = DestroysInLoop(Tail(queue))
      BY <1>1, <2>1, DestroysInLoopTypes DEF DestroysInLoop
    <2>3. NotEstablishing(Tail(queue'))
      BY <2>1, <2>2, DestroysInLoopTypes
    <2>4. QED
      BY <1>3, <2>2, <2>3
         DEF Life, EstablishedFirst, StateFits, DestroyedIsTold
  <1>4. QED
    BY <1>2, <1>3

\* The server takes connections apart in the right order.
LEMMA ServerLife ==
  ASSUME TypeOK, Life, RemoveConnectionInLoop \/ ServerDestroyed
  PROVE  Life'
  <1>1. CASE RemoveConnectionInLoop
    BY <1>1, DestroyedBehind
       DEF RemoveConnectionInLoop, connVars, interest, userVars, historyVars
  <1>2. CASE ServerDestroyed
    <2>1. CASE ConnectDestroyed /\ UNCHANGED queue
      <3>1. CASE calls # << >>
        <4>1. NotEstablishing(queue')
          BY <2>1, <3>1 DEF Life, EstablishedFirst
        <4>2. QED
          BY <2>1, <3>1, <4>1, ConnectDestroyedLife
             DEF ConnectDestroyed, userVars
      <3>2. CASE calls = << >>
        <4>1. UNCHANGED <<state, calls>> /\ index' = "kNew"
          BY <2>1, <3>2
             DEF ConnectDestroyed, StillUp, Life, EstablishedFirst
        <4>2. QED
          BY <2>1, <3>2, <4>1, LifeQuiet
             DEF ConnectDestroyed, userVars, Life, EstablishedFirst
      <3>3. QED
        BY <3>1, <3>2
    <2>2. CASE /\ queue' = DestroysInLoop(queue)
               /\ UNCHANGED <<connVars, todo, inCallback, userVars,
                              historyVars>>
      BY <2>2, DestroyedBehind DEF connVars, interest, userVars, historyVars
    <2>3. CASE UNCHANGED <<connVars, loopVars, userVars, historyVars>>
      BY <2>3, LifeQuiet
         DEF connVars, interest, loopVars, userVars, historyVars
    <2>4. QED
      BY <1>2, <2>1, <2>2, <2>3 DEF ServerDestroyed
  <1>3. QED
    BY <1>1, <1>2

\* The peer cannot disturb it.
LEMMA PeerLife ==
  ASSUME Life, PeerSends \/ PeerReads \/ PeerCloses \/ PeerResets
  PROVE  Life'
  <1>1. UNCHANGED <<connVars, loopVars, otherVars, historyVars>>
    BY DEF PeerSends, PeerReads, PeerCloses, PeerResets
  <1>2. QED
    BY <1>1, LifeQuiet
       DEF connVars, interest, loopVars, otherVars, userVars, historyVars

-----------------------------------------------------------------------------
(* The stream, step by step.                                               *)

\* The part of the invariant about the stream.
Stream == StreamKept /\ WritingFits

\* disableAll empties the interest, and the user is told.
LEMMA ConnectDestroyedStream ==
  ASSUME TypeOK, Stream, ConnectDestroyed
  PROVE  Stream'
  <1>1. StreamKept'
    BY DEF ConnectDestroyed, Stream, StreamKept, kernelVars, peerVars, stream
  <1>2. CASE StillUp
    <2>1. Down' /\ events' = {} /\ index' = "kNew"
      BY <1>2, CalledAdds DEF ConnectDestroyed, TypeOK, CallbackNames
    <2>2. QED
      BY <1>1, <2>1 DEF Stream, WritingFits, isWriting
  <1>3. CASE ~ StillUp
    BY <1>1, <1>3
       DEF ConnectDestroyed, Stream, WritingFits, isWriting, Down
  <1>4. QED
    BY <1>2, <1>3

\* handleClose gives up what is buffered, and the interest with it.
LEMMA HandleCloseStream ==
  ASSUME TypeOK, Stream, HandleClose
  PROVE  Stream'
  <1>1. StreamKept'
    BY DEF HandleClose, Stream, StreamKept, kernelVars, peerVars, stream
  <1>2. Down' /\ events' = {}
    BY CalledAdds, SetEventsFits
       DEF HandleClose, TypeOK, CallbackNames
  <1>3. QED
    BY <1>1, <1>2 DEF Stream, WritingFits, isWriting

\* sendInLoop keeps both halves of the stream's invariant.
LEMMA SendInLoopStream ==
  ASSUME TypeOK, Stream, NEW data \in Seq(AllBytes),
         NEW rest \in Seq(Functors), SendInLoop(data, rest),
         UNCHANGED <<peerVars, shutWr, calls>>
  PROVE  Stream'
  BY SendInLoopKeeps, SendInLoopWrites DEF Stream, peerVars

\* shutdownWrite never opens our side again.
LEMMA ShutdownInLoopGrows == ShutdownInLoop => (shutWr => shutWr')
  BY DEF ShutdownInLoop, ShutdownWrite

\* Every functor keeps the stream.
LEMMA RunFunctorStream == TypeOK /\ Life /\ Stream /\ RunFunctor => Stream'
  <1> SUFFICES ASSUME TypeOK, Life, Stream, RunFunctor PROVE Stream'
    OBVIOUS
  <1>1. queue \in Seq(Functors) /\ queue # << >>
    BY DEF TypeOK, RunFunctor
  <1>2. CASE ConnectEstablished /\ Head(queue) = <<"connectEstablished">>
    <2>1. outputBuffer = << >>
      BY <1>1, <1>2, NotEstablishingHead DEF Life, EstablishedFirst
    <2>2. events \cup {"in"} \in SUBSET {"in", "out"}
      BY DEF TypeOK
    <2>3. /\ events' = events \cup {"in"}
          /\ index' = "kDeleted" => events' = {}
      BY <1>2, <2>2, SetEventsFits DEF ConnectEstablished
    <2>4. StreamKept' /\ outputBuffer' = << >>
      BY <1>2, <2>1
         DEF ConnectEstablished, Stream, StreamKept, kernelVars, peerVars,
             stream
    <2>5. QED
      BY <2>1, <2>3, <2>4 DEF Stream, WritingFits, isWriting
  <1>3. CASE UserFunctor
    BY <1>3, StreamQuiet
       DEF UserFunctor, connVars, kernelVars, peerVars, historyVars, stream,
           Stream, Down
  <1>4. CASE ShutdownInLoop /\ UNCHANGED <<connVars, peerVars, historyVars>>
    BY <1>4, StreamQuiet, ShutdownInLoopGrows
       DEF connVars, peerVars, historyVars, stream, Stream, Down
  <1>5. CASE \E m \in Messages :
               /\ \E data \in {Bytes(m), Recycled(m)} :
                    SendInLoop(data, Tail(queue))
               /\ UNCHANGED <<peerVars, shutWr, calls>>
    BY <1>1, <1>5, BytesTyped, HeadTailProperties, SendInLoopStream
  <1>6. QED
    BY <1>2, <1>3, <1>4, <1>5, ConnectDestroyedStream DEF RunFunctor

\* Every handler keeps the stream.
LEMMA DispatchStream == TypeOK /\ Stream /\ Dispatch => Stream'
  <1> SUFFICES ASSUME TypeOK, Stream, Dispatch PROVE Stream'
    OBVIOUS
  <1>1. CASE HandleError
    BY <1>1, StreamQuiet
       DEF HandleError, connVars, peerVars, historyVars, stream, Stream, Down
  <1>2. CASE HandleRead
    <2>1. CASE /\ Called("message")
               /\ UNCHANGED <<connVars, peerFin, reset, shutWr, stream>>
      <3>1. Down => Down'
        BY <2>1, CalledAdds DEF TypeOK, CallbackNames
      <3>2. QED
        BY <2>1, <3>1, StreamQuiet DEF connVars, stream, Stream
    <2>2. QED
      BY <1>1, <1>2, <2>1, HandleCloseStream DEF HandleRead
  <1>3. CASE HandleWrite
    BY <1>3, HandleWriteKeeps DEF Stream
  <1>4. QED
    BY <1>1, <1>2, <1>3, HandleCloseStream DEF Dispatch

\* User code keeps the stream.
LEMMA UserStream ==
  ASSUME TypeOK, Stream,
         \/ \E m \in Messages : CallbackSend(m)
         \/ CallbackShutdown
         \/ CallbackReturn
         \/ \E u \in Users, m \in Messages : SendTest(u, m)
         \/ \E u \in Users : ShutdownTest(u) \/ ShutdownSetState(u)
                               \/ QueueInLoop(u)
  PROVE  Stream'
  <1>1. ASSUME NEW m \in Messages, CallbackSend(m) PROVE Stream'
    <2>1. Bytes(m) \in Seq(AllBytes) /\ queue \in Seq(Functors)
      BY BytesTyped DEF TypeOK
    <2>2. QED
      BY <1>1, <2>1, SendInLoopStream DEF CallbackSend
  <1>2. CASE CallbackShutdown
    BY <1>2, StreamQuiet, ShutdownInLoopGrows
       DEF CallbackShutdown, peerVars, historyVars, stream, Stream, Down
  <1>3. CASE /\ UNCHANGED <<interest, outputBuffer, kernelVars, historyVars>>
    BY <1>3, StreamQuiet
       DEF kernelVars, peerVars, historyVars, stream, Stream, Down
  <1>4. QED
    BY <1>1, <1>2, <1>3
       DEF CallbackReturn, SendTest, ShutdownTest, ShutdownSetState,
           QueueInLoop, connVars

\* What is left does not touch it.
LEMMA OtherStream ==
  ASSUME TypeOK, Stream,
         \/ Poll \/ RemoveConnectionInLoop \/ ServerDestroyed
         \/ PeerSends \/ PeerReads \/ PeerCloses \/ PeerResets
         \/ UNCHANGED vars
  PROVE  Stream'
  <1>1. CASE UNCHANGED <<connVars, shutWr, historyVars>> /\ (reset => reset')
    BY <1>1, StreamQuiet
       DEF connVars, historyVars, stream, Stream, Down
  <1>2. CASE Poll \/ RemoveConnectionInLoop \/ UNCHANGED vars
    BY <1>1, <1>2
       DEF Poll, RemoveConnectionInLoop, vars, kernelVars, peerVars
  <1>3. CASE ServerDestroyed
    BY <1>1, <1>3, ConnectDestroyedStream
       DEF ServerDestroyed, kernelVars, peerVars
  <1>4. CASE PeerSends \/ PeerReads \/ PeerCloses \/ PeerResets
    BY <1>1, <1>4
       DEF PeerSends, PeerReads, PeerCloses, PeerResets, peerVars
  <1>5. QED
    BY <1>2, <1>3, <1>4

-----------------------------------------------------------------------------
(* The inductive invariant.                                                *)

\* The invariant holds when newConnection has built the connection.
LEMMA InitIInv == Init => IInv
  <1> SUFFICES ASSUME Init PROVE IInv
    OBVIOUS
  <1>1. TypeOK
    BY InitTypeOK
  <1>2. StreamKept
    BY ConcatEmptySeq, EmptySeq DEF Init, StreamKept
  <1>3. WritingFits
    BY DEF Init, WritingFits, isWriting
  <1>4. EstablishedFirst
    <2>1. Head(queue) = <<"connectEstablished">> /\ queue # << >>
      BY DEF Init
    <2>2. Tail(queue) = << >>
      BY DEF Init
    <2>3. NotEstablishing(Tail(queue))
      BY <2>2 DEF NotEstablishing
    <2>4. \A u \in Users : user[u] \in {Idle, Absent}
      BY DEF Init
    <2>5. \A u \in Users : user[u] # <<"connectEstablished">>
      BY <2>4 DEF Idle, Absent
    <2>6. QED
      BY <2>1, <2>3, <2>4, <2>5 DEF Init, EstablishedFirst
  <1>5. StateFits /\ DestroyedIsTold
    BY DEF Init, StateFits, DestroyedIsTold
  <1>6. QED
    BY <1>1, <1>2, <1>3, <1>4, <1>5 DEF IInv

\* Every step keeps the invariant.
LEMMA NextIInv == IInv /\ [Next]_vars => IInv'
  <1> SUFFICES ASSUME IInv, [Next]_vars PROVE IInv'
    OBVIOUS
  <1>1. TypeOK /\ Life /\ Stream
    BY DEF IInv, Life, Stream
  <1>2. TypeOK'
    BY <1>1, NextTypeOK
  <1>3. Stream'
    BY <1>1, RunFunctorStream, DispatchStream, UserStream, OtherStream
       DEF Next
  <1>4. Life'
    <2>1. UNCHANGED vars => Life'
      BY <1>1, LifeQuiet
         DEF vars, connVars, interest, loopVars, otherVars, userVars,
             historyVars
    <2>2. QED
      BY <1>1, <2>1, RunFunctorLife, DispatchLife, PollLife, UserLife,
         ServerLife, PeerLife DEF Next, Stream
  <1>5. QED
    BY <1>2, <1>3, <1>4 DEF IInv, Life, Stream

\* A connection keeps its stream, its interest and the order of its life
\* together, whatever messages, threads and room in the kernel there are.
THEOREM IInvHolds == Spec => []IInv
  BY InitIInv, NextIInv, PTL DEF Spec

\* Bytes go to the kernel and to the buffer in the order in which they were
\* handed to sendInLoop, without a gap, through direct, partial, refused and
\* buffered writes (net/tcpconnection.cc, sendInLoop and handleWrite).
THEOREM StreamInOrderHolds == Spec => []StreamInOrder
  <1>1. IInv => StreamInOrder
    <2> SUFFICES ASSUME IInv PROVE StreamInOrder
      OBVIOUS
    <2>1. /\ wire \in Seq(AllBytes) /\ outputBuffer \in Seq(AllBytes)
          /\ wire \o outputBuffer \in Seq(AllBytes)
      BY ConcatProperties DEF IInv, TypeOK
    <2>2. CASE wire \o outputBuffer = accepted
      BY <2>1, <2>2, PrefixOfItself DEF StreamInOrder
    <2>3. CASE outputBuffer = << >> /\ IsPrefix(wire, accepted)
      BY <2>1, <2>3, ConcatEmptySeq DEF StreamInOrder
    <2>4. QED
      BY <2>2, <2>3 DEF IInv, StreamKept
  <1>2. QED
    BY <1>1, IInvHolds, PTL

\* EPOLLOUT is wanted exactly while bytes wait and the connection is up
\* (net/tcpconnection.cc, sendInLoop and handleWrite).
THEOREM WritingIffBufferedHolds == Spec => []WritingIffBuffered
  <1>1. IInv => WritingIffBuffered
    BY DEF IInv, WritingFits, WritingIffBuffered, isWriting, TypeOK, Indices
  <1>2. QED
    BY <1>1, IInvHolds, PTL

\* A connection that is out of epoll has told its user, unless shutdown() was
\* under way (net/tcpconnection.cc, connectDestroyed and handleClose).
THEOREM DestroyedIsToldHolds == Spec => []DestroyedIsTold
  <1>1. IInv => DestroyedIsTold
    BY DEF IInv
  <1>2. QED
    BY <1>1, IInvHolds, PTL

\* A step that shuts our side down while the connection is up leaves nothing
\* behind.
LEMMA ShutsDownFlushed ==
  ASSUME IInv, Next, ~ shutWr, shutWr', ~ Down
  PROVE  outputBuffer' = << >> /\ wire' = accepted'
  <1>1. TypeOK /\ StreamKept /\ WritingFits
    BY DEF IInv
  <1>2. CASE /\ ShutdownInLoop
             /\ UNCHANGED <<outputBuffer, reset, accepted, wire>>
    <2>1. ~ isWriting /\ ~ reset
      BY <1>2 DEF ShutdownInLoop, ShutdownWrite
    <2>2. outputBuffer = << >>
      BY <1>1, <2>1 DEF WritingFits
    <2>3. wire \o outputBuffer = accepted
      BY <1>1, <2>1 DEF StreamKept
    <2>4. wire = accepted
      BY <1>1, <2>2, <2>3, ConcatEmptySeq DEF TypeOK
    <2>5. QED
      BY <1>2, <2>2, <2>4
  <1>3. CASE HandleWrite
    <2>1. isWriting /\ outputBuffer' = << >>
      BY <1>3 DEF HandleWrite, kernelVars
    <2>2. wire' \o outputBuffer' = accepted'
      BY <1>1, <1>3, <2>1, HandleWriteKeeps
    <2>3. TypeOK'
      BY <1>1, NextTypeOK
    <2>4. QED
      BY <2>1, <2>2, <2>3, ConcatEmptySeq DEF TypeOK
  <1>4. CASE UNCHANGED shutWr
    BY <1>4
  <1>5. CASE RunFunctor
    BY <1>2, <1>4, <1>5
       DEF RunFunctor, ConnectEstablished, ConnectDestroyed, UserFunctor,
           kernelVars, connVars, peerVars, historyVars, stream
  <1>6. CASE Dispatch
    BY <1>3, <1>4, <1>6
       DEF Dispatch, HandleClose, HandleError, HandleRead, kernelVars
  <1>7. CASE CallbackShutdown
    BY <1>2, <1>7
       DEF CallbackShutdown, peerVars, historyVars, stream
  <1>8. CASE ServerDestroyed
    BY <1>4, <1>8 DEF ServerDestroyed, ConnectDestroyed, kernelVars
  <1>9. QED
    BY <1>4, <1>5, <1>6, <1>7, <1>8
       DEF Next, Poll, CallbackSend, CallbackReturn, SendTest, ShutdownTest,
           ShutdownSetState, QueueInLoop, RemoveConnectionInLoop, PeerSends,
           PeerReads, PeerCloses, PeerResets, kernelVars

\* While the connection is up FIN is sent after every byte, by shutdown() or
\* by the handleWrite that empties the buffer (net/tcpconnection.cc,
\* shutdownInLoop and handleWrite).
THEOREM FlushedBeforeFinHolds == Spec => FlushedBeforeFin
  <1>1. IInv /\ [Next]_vars =>
          [~ shutWr /\ shutWr' /\ ~ Down =>
             outputBuffer' = << >> /\ wire' = accepted']_vars
    BY ShutsDownFlushed
  <1>2. QED
    BY <1>1, IInvHolds, PTL DEF Spec, FlushedBeforeFin

-----------------------------------------------------------------------------
(* The callbacks, when only the I/O loop's own thread uses the connection. *)

\* No other thread has the connection.
Alone == \A u \in Users : user[u] = Absent

\* What the user may have seen by now.
BeforeDown == {<<"up">>, <<"up", "message">>}
AfterDown  == {<<"up", "down">>, <<"up", "message", "down">>}

\* What the event being handled has left to call once the connection is
\* closed; before that, only errors come before closing and reading, of which
\* there is one.
AfterEnd == Seq({"error", "write"})

EndsOnce(t) ==
    \A i, j \in DOMAIN t :
      i < j /\ t[i] # "error" => t[j] \in {"error", "write"}

\* The functors that the I/O loop and the server queue.
OwnFunctors ==
    {<<"connectEstablished">>, <<"connectDestroyed">>, <<"shutdownInLoop">>,
     <<"writeComplete">>, <<"highWaterMark">>}

\* A closed connection is out of epoll, and its state lets no send() and no
\* shutdown() through: what is left of the event that closed it finds
\* neither input to report nor a second end.
Ended ==
    /\ state = "kDisconnected"
    /\ events = {}
    /\ index # "kAdded"
    /\ todo \in AfterEnd

CallbacksFit ==
    /\ calls \in {<< >>} \cup BeforeDown \cup AfterDown
    /\ queue \in Seq(OwnFunctors)
    /\ EndsOnce(todo)
    /\ todo \notin AfterEnd => index = "kAdded"
    /\ calls \in AfterDown => Ended

\* A short sequence with one element more.
LEMMA OneMore ==
  ASSUME NEW S, NEW s \in Seq(S), NEW e \in S
  PROVE  /\ Append(s, e) \in Seq(S)
         /\ s = << >> => Append(s, e) = <<e>>
         /\ Len(s) = 1 => Append(s, e) = <<s[1], e>>
         /\ Len(s) = 2 => Append(s, e) = <<s[1], s[2], e>>
  <1> DEFINE t == Append(s, e)
  <1>1. /\ t \in Seq(S)
        /\ Len(t) = Len(s) + 1
        /\ \A i \in 1 .. Len(s) : t[i] = s[i]
        /\ t[Len(s) + 1] = e
    BY AppendProperties
  <1>2. s = << >> => t = <<e>>
    OBVIOUS
  <1> HIDE DEF t
  <1>3. ASSUME Len(s) = 1 PROVE t = <<s[1], e>>
    <2>1. t \in Seq(S) /\ Len(t) = 2 /\ t[1] = s[1] /\ t[2] = e
      BY <1>1, <1>3
    <2>2. QED
      BY <2>1
  <1>4. ASSUME Len(s) = 2 PROVE t = <<s[1], s[2], e>>
    <2>1. /\ t \in Seq(S)
          /\ Len(t) = 3 /\ t[1] = s[1] /\ t[2] = s[2] /\ t[3] = e
      BY <1>1, <1>4
    <2>2. QED
      BY <2>1
  <1>5. QED
    BY <1>1, <1>2, <1>3, <1>4, Zenon DEF t

\* The callbacks of handleEventWithGuard.
EventCallbacks == {"close", "error", "read", "write"}

\* Handling one callback of an event.
LEMMA EndsOnceTail ==
  ASSUME NEW t \in Seq(EventCallbacks), t # << >>, EndsOnce(t)
  PROVE  /\ EndsOnce(Tail(t))
         /\ Head(t) # "error" => Tail(t) \in AfterEnd
         /\ t \in AfterEnd =>
              Tail(t) \in AfterEnd /\ Head(t) \in {"error", "write"}
  <1>1. /\ Len(t) \in Nat \ {0}
        /\ DOMAIN t = 1 .. Len(t)
        /\ DOMAIN Tail(t) = 1 .. Len(t) - 1
        /\ Len(Tail(t)) = Len(t) - 1
        /\ Head(t) = t[1]
        /\ \A i \in 1 .. Len(t) - 1 : Tail(t)[i] = t[i + 1]
    BY HeadTailProperties, LenProperties, EmptySeq
  <1>2. EndsOnce(Tail(t))
    <2>1. ASSUME NEW i \in 1 .. Len(t) - 1, NEW j \in 1 .. Len(t) - 1,
                 i < j, Tail(t)[i] # "error"
          PROVE  Tail(t)[j] \in {"error", "write"}
      <3>1. /\ i + 1 \in 1 .. Len(t) /\ j + 1 \in 1 .. Len(t)
            /\ i + 1 < j + 1
            /\ t[i + 1] # "error" /\ Tail(t)[j] = t[j + 1]
        BY <1>1, <2>1
      <3>2. QED
        BY <1>1, <3>1 DEF EndsOnce
    <2>2. QED
      BY <1>1, <2>1 DEF EndsOnce
  <1>3. ASSUME Head(t) # "error" PROVE Tail(t) \in AfterEnd
    <2>1. \A i \in 1 .. Len(t) - 1 : Tail(t)[i] \in {"error", "write"}
      <3>1. ASSUME NEW i \in 1 .. Len(t) - 1
            PROVE  Tail(t)[i] \in {"error", "write"}
        <4>1. /\ i + 1 \in 1 .. Len(t) /\ 1 \in 1 .. Len(t)
              /\ 1 < i + 1
          BY <1>1
        <4>2. QED
          BY <1>1, <1>3, <4>1 DEF EndsOnce
      <3>2. QED
        BY <3>1
    <2>2. Tail(t) \in Seq(EventCallbacks)
      BY HeadTailProperties
    <2> DEFINE r == Tail(t)
               n == Len(t) - 1
               T == {"error", "write"}
    <2>3. /\ r \in Seq(EventCallbacks) /\ Len(r) = n
          /\ \A i \in 1 .. n : r[i] \in T
          /\ n \in Nat
      BY <1>1, <2>1, <2>2
    <2> HIDE DEF r, n, T
    <2>4. r \in [1 .. n -> T]
      BY <2>3
    <2>5. r \in Seq(T)
      BY <2>3, <2>4, SeqDef
    <2>6. QED
      BY <2>5 DEF AfterEnd, r, T
  <1>4. t \in AfterEnd => Tail(t) \in AfterEnd /\ Head(t) \in {"error", "write"}
    BY HeadTailProperties DEF AfterEnd
  <1>5. QED
    BY <1>2, <1>3, <1>4

\* Appending what may come at any time, or the first that may come once.
LEMMA EndsOnceAppend ==
  ASSUME NEW t \in Seq(EventCallbacks), NEW e \in EventCallbacks,
         \/ EndsOnce(t) /\ e \in {"error", "write"}
         \/ \A i \in DOMAIN t : t[i] = "error"
  PROVE  EndsOnce(Append(t, e)) /\ Append(t, e) \in Seq(EventCallbacks)
  <1>1. /\ Append(t, e) \in Seq(EventCallbacks)
        /\ Len(t) \in Nat
        /\ DOMAIN t = 1 .. Len(t)
        /\ DOMAIN Append(t, e) = 1 .. Len(t) + 1
        /\ \A i \in 1 .. Len(t) : Append(t, e)[i] = t[i]
        /\ Append(t, e)[Len(t) + 1] = e
    BY AppendProperties, LenProperties
  <1>2. ASSUME NEW i \in 1 .. Len(t) + 1, NEW j \in 1 .. Len(t) + 1,
               i < j, Append(t, e)[i] # "error"
        PROVE  Append(t, e)[j] \in {"error", "write"}
    <2>1. i \in 1 .. Len(t) /\ t[i] # "error"
      BY <1>1, <1>2
    <2>2. EndsOnce(t) /\ e \in {"error", "write"}
      BY <1>1, <2>1
    <2>3. CASE j \in 1 .. Len(t)
      BY <1>1, <1>2, <2>1, <2>2, <2>3 DEF EndsOnce
    <2>4. CASE j = Len(t) + 1
      BY <1>1, <2>2, <2>4
    <2>5. QED
      BY <1>1, <2>3, <2>4
  <1>3. QED
    BY <1>1, <1>2 DEF EndsOnce

\* A callback that is made or not.
LEMMA MaybeAppend ==
  ASSUME NEW t \in Seq(EventCallbacks), NEW e \in EventCallbacks, NEW cond
  PROVE  t \o (IF cond THEN <<e>> ELSE << >>)
           = IF cond THEN Append(t, e) ELSE t
  BY AppendIsConcat, ConcatEmptySeq

\* The callbacks that epoll asks for.
LEMMA CallbacksEndOnce ==
  ASSUME NEW revents
  PROVE  /\ EndsOnce(Callbacks(revents))
         /\ Callbacks(revents) \in Seq(EventCallbacks)
  <1> DEFINE s1 == IF "hup" \in revents /\ "in" \notin revents
                   THEN <<"close">> ELSE << >>
             s2 == IF "err" \in revents THEN Append(s1, "error") ELSE s1
             s3 == IF "in" \in revents THEN Append(s2, "read") ELSE s2
             s4 == IF "out" \in revents THEN Append(s3, "write") ELSE s3
  <1>1. /\ s1 \in Seq(EventCallbacks)
        /\ EndsOnce(s1)
        /\ "in" \in revents => s1 = << >>
    <2>1. /\ << >> \in Seq(EventCallbacks) /\ EndsOnce(<< >>)
          /\ <<"close">> \in Seq(EventCallbacks) /\ EndsOnce(<<"close">>)
      BY DEF EventCallbacks, EndsOnce
    <2>2. QED
      BY <2>1
  <1>2. /\ s2 \in Seq(EventCallbacks)
        /\ EndsOnce(s2)
        /\ "in" \in revents => \A i \in DOMAIN s2 : s2[i] = "error"
    <2>1. "in" \in revents => s2 \in {<< >>, <<"error">>}
      BY <1>1
    <2> HIDE DEF s1
    <2>2. s2 \in Seq(EventCallbacks) /\ EndsOnce(s2)
      BY <1>1, EndsOnceAppend DEF EventCallbacks
    <2> HIDE DEF s2
    <2>3. QED
      BY <2>1, <2>2
  <1>3. s3 \in Seq(EventCallbacks) /\ EndsOnce(s3)
    <2> HIDE DEF s2
    <2>1. QED
      BY <1>2, EndsOnceAppend DEF EventCallbacks
  <1>4. s4 \in Seq(EventCallbacks) /\ EndsOnce(s4)
    <2> HIDE DEF s3
    <2>1. QED
      BY <1>3, EndsOnceAppend DEF EventCallbacks
  <1>5. Callbacks(revents) = s4
    <2> DEFINE e == IF "err" \in revents THEN <<"error">> ELSE << >>
               r == IF "in" \in revents THEN <<"read">> ELSE << >>
               w == IF "out" \in revents THEN <<"write">> ELSE << >>
    <2>1. Callbacks(revents) = s1 \o e \o r \o w
      BY DEF Callbacks
    <2>2. s1 \o e = s2
      <3> HIDE DEF s1
      <3>1. QED
        BY <1>1, MaybeAppend DEF EventCallbacks
    <2>3. s2 \o r = s3
      <3> HIDE DEF s2
      <3>1. QED
        BY <1>2, MaybeAppend DEF EventCallbacks
    <2>4. s3 \o w = s4
      <3> HIDE DEF s3
      <3>1. QED
        BY <1>3, MaybeAppend DEF EventCallbacks
    <2> HIDE DEF s1, s2, s3, s4, e, r, w
    <2>5. QED
      BY <2>1, <2>2, <2>3, <2>4
  <1> HIDE DEF s4
  <1>6. QED
    BY <1>4, <1>5

\* The connection and message callbacks come in order.
LEMMA CalledInOrder ==
  /\ Called("up") /\ calls = << >> => calls' = <<"up">>
  /\ Called("message") /\ calls \in BeforeDown => calls' \in BeforeDown
  /\ Called("down") /\ calls \in BeforeDown => calls' \in AfterDown
  <1>1. CASE calls = << >>
    <2>1. calls \notin BeforeDown
      BY <1>1 DEF BeforeDown
    <2>2. QED
      BY <1>1, <2>1 DEF Called
  <1>2. CASE calls = <<"up">>
    <2>1. /\ calls \in Seq(CallbackNames)
          /\ Len(calls) = 1 /\ calls[1] = "up"
          /\ Last(calls) = "up" /\ calls # << >>
      BY <1>2 DEF CallbackNames, Last
    <2>2. /\ Append(calls, "message") = <<"up", "message">>
          /\ Append(calls, "down") = <<"up", "down">>
      BY <2>1, OneMore DEF CallbackNames
    <2>3. QED
      BY <2>1, <2>2 DEF Called, BeforeDown, AfterDown
  <1>3. CASE calls = <<"up", "message">>
    <2>1. /\ calls \in Seq(CallbackNames)
          /\ Len(calls) = 2 /\ calls[1] = "up" /\ calls[2] = "message"
          /\ Last(calls) = "message" /\ calls # << >>
      BY <1>3 DEF CallbackNames, Last
    <2>2. Append(calls, "down") = <<"up", "message", "down">>
      BY <2>1, OneMore DEF CallbackNames
    <2>3. QED
      BY <1>3, <2>1, <2>2 DEF Called, BeforeDown, AfterDown
  <1>4. QED
    BY <1>1, <1>2, <1>3 DEF BeforeDown

\* The user has been told exactly when the history ends with "down".
LEMMA DownMeansAfterDown ==
  ASSUME calls \in {<< >>} \cup BeforeDown \cup AfterDown
  PROVE  Down <=> calls \in AfterDown
  <1>0. /\ << >> \in Seq(CallbackNames)
        /\ <<"up">> \in Seq(CallbackNames)
        /\ <<"up", "message">> \in Seq(CallbackNames)
        /\ <<"up", "down">> \in Seq(CallbackNames)
        /\ <<"up", "message", "down">> \in Seq(CallbackNames)
    BY DEF CallbackNames
  <1>1. calls \in Seq(CallbackNames)
    BY <1>0 DEF BeforeDown, AfterDown
  <1>2. Range(calls) = {calls[i] : i \in 1 .. Len(calls)}
    BY <1>1, RangeEquality
  <1>3. Down <=> \E i \in 1 .. Len(calls) : calls[i] = "down"
    BY <1>2 DEF Down
  <1>4. CASE calls = << >>
    BY <1>3, <1>4 DEF AfterDown
  <1>5. CASE calls = <<"up">>
    <2>1. Len(calls) = 1 /\ calls[1] = "up"
      BY <1>5
    <2>2. ~ Down
      BY <1>3, <2>1
    <2>3. calls \notin AfterDown
      BY <1>5 DEF AfterDown
    <2>4. QED
      BY <2>2, <2>3
  <1>6. CASE calls = <<"up", "message">>
    <2>1. Len(calls) = 2 /\ calls[1] = "up" /\ calls[2] = "message"
      BY <1>6
    <2>2. ~ Down
      BY <1>3, <2>1
    <2>3. calls \notin AfterDown
      BY <1>6 DEF AfterDown
    <2>4. QED
      BY <2>2, <2>3
  <1>7. CASE calls \in AfterDown
    <2>1. CASE calls = <<"up", "down">>
      <3>1. Len(calls) = 2 /\ calls[2] = "down"
        BY <2>1
      <3>2. QED
        BY <1>3, <1>7, <3>1
    <2>2. CASE calls = <<"up", "message", "down">>
      <3>1. Len(calls) = 3 /\ calls[3] = "down"
        BY <2>2
      <3>2. QED
        BY <1>3, <1>7, <3>1
    <2>3. QED
      BY <1>7, <2>1, <2>2 DEF AfterDown
  <1>8. QED
    BY <1>4, <1>5, <1>6, <1>7 DEF BeforeDown

\* A connection whose callbacks fit has been told of its end exactly if it
\* is closed.
LEMMA DownMeansEnded == CallbacksFit => (Down => Ended)
  BY DownMeansAfterDown DEF CallbacksFit

\* Steps that make no callback of the connection.
LEMMA CallbacksQuiet ==
  ASSUME CallbacksFit, UNCHANGED <<calls, todo, state, events, index>>,
         queue' \in Seq(OwnFunctors)
  PROVE  CallbacksFit'
  BY DEF CallbacksFit, Ended

\* What is queued by the connection itself and by the server.
LEMMA OwnQueued ==
  ASSUME NEW q \in Seq(OwnFunctors), NEW f \in OwnFunctors
  PROVE  /\ Append(q, f) \in Seq(OwnFunctors)
         /\ DestroysInLoop(q) \in Seq(OwnFunctors)
         /\ q # << >> => Tail(q) \in Seq(OwnFunctors) /\ Head(q) \in OwnFunctors
  <1>1. <<"connectDestroyed">> \in OwnFunctors
    BY DEF OwnFunctors
  <1>2. QED
    BY <1>1, AppendProperties, HeadTailProperties DEF DestroysInLoop

\* connectDestroyed tells the user of the end of a connection that was up.
LEMMA ConnectDestroyedCallbacks ==
  ASSUME TypeOK, Life, CallbacksFit, ConnectDestroyed, todo = << >>,
         calls # << >> \/ ~ StillUp,
         queue' \in Seq(OwnFunctors)
  PROVE  CallbacksFit'
  <1>1. todo' = << >> /\ << >> \in AfterEnd /\ EndsOnce(<< >>)
    BY DEF ConnectDestroyed, AfterEnd, EndsOnce
  <1>2. CASE StillUp
    <2>1. calls \in BeforeDown
      BY <1>2 DEF CallbacksFit, Ended, StillUp
    <2>2. calls' \in AfterDown
      BY <1>2, <2>1, CalledInOrder DEF ConnectDestroyed
    <2>3. Ended'
      BY <1>1, <1>2 DEF ConnectDestroyed, Ended
    <2>4. QED
      BY <1>1, <2>2, <2>3 DEF CallbacksFit
  <1>3. CASE ~ StillUp
    <2>1. UNCHANGED <<state, events, calls>> /\ index' = "kNew"
      BY <1>3 DEF ConnectDestroyed
    <2>2. QED
      BY <1>1, <2>1 DEF CallbacksFit, Ended
  <1>4. QED
    BY <1>2, <1>3

\* Every functor keeps the order of the callbacks.
LEMMA RunFunctorCallbacks ==
  ASSUME TypeOK, Life, CallbacksFit, RunFunctor
  PROVE  CallbacksFit'
  <1>1. /\ queue \in Seq(Functors) /\ queue # << >>
        /\ queue \in Seq(OwnFunctors)
        /\ Tail(queue) \in Seq(OwnFunctors) /\ Head(queue) \in OwnFunctors
        /\ todo = << >>
    BY OwnQueued DEF TypeOK, RunFunctor, LoopFree, CallbacksFit
  <1>2. << >> \in AfterEnd /\ EndsOnce(<< >>)
    BY DEF AfterEnd, EndsOnce
  <1>3. CASE ConnectEstablished /\ Head(queue) = <<"connectEstablished">>
    <2>1. calls = << >>
      BY <1>1, <1>3, NotEstablishingHead DEF Life, EstablishedFirst
    <2>2. calls' = <<"up">> /\ todo' = << >> /\ queue' = Tail(queue)
      BY <1>1, <1>3, <2>1, CalledInOrder DEF ConnectEstablished
    <2>3. <<"up">> \in BeforeDown /\ <<"up">> \notin AfterDown
      BY DEF BeforeDown, AfterDown
    <2>4. QED
      BY <1>1, <1>2, <2>2, <2>3 DEF CallbacksFit
  <1>4. CASE ConnectDestroyed /\ queue' = Tail(queue)
    <2>1. calls # << >> \/ ~ StillUp
      BY DEF Life, EstablishedFirst, StillUp
    <2>2. QED
      BY <1>1, <1>4, <2>1, ConnectDestroyedCallbacks
  <1>5. CASE queue' = Tail(queue) /\ UNCHANGED <<connVars, todo, historyVars>>
    BY <1>1, <1>5, CallbacksQuiet DEF connVars, interest, historyVars
  <1>6. ASSUME NEW m \in Messages PROVE Head(queue) # <<"sendInLoop", m>>
    BY <1>1 DEF OwnFunctors
  <1>7. QED
    BY <1>3, <1>4, <1>5, <1>6 DEF RunFunctor, UserFunctor

\* handleClose, from EPOLLHUP or from the end of the input.
LEMMA HandleCloseCallbacks ==
  ASSUME TypeOK, CallbacksFit, HandleClose, calls # << >>,
         todo \notin AfterEnd, todo' \in AfterEnd, EndsOnce(todo')
  PROVE  CallbacksFit'
  <1>1. index = "kAdded" /\ calls \in BeforeDown
    BY DEF CallbacksFit, Ended
  <1>2. calls' \in AfterDown
    BY <1>1, CalledInOrder DEF HandleClose
  <1>3. Ended'
    BY <1>1 DEF HandleClose, SetEvents, Ended
  <1>4. queue' \in Seq(OwnFunctors)
    <2>1. <<"connectDestroyed">> \in OwnFunctors
      BY DEF OwnFunctors
    <2>2. QED
      BY <2>1, OwnQueued DEF HandleClose, CallbacksFit
  <1>5. QED
    BY <1>2, <1>3, <1>4 DEF CallbacksFit

\* handleRead calls the user with the input while the connection is up.
LEMMA HandleReadCallbacks ==
  ASSUME TypeOK, CallbacksFit, HandleRead, calls # << >>,
         todo \notin AfterEnd, todo' \in AfterEnd, EndsOnce(todo')
  PROVE  CallbacksFit'
  <1>1. calls \in BeforeDown /\ calls \notin AfterDown
    BY DEF CallbacksFit, Ended
  <1>2. CASE Called("message") /\ UNCHANGED <<connVars, queue>>
    <2>1. calls' \in BeforeDown
      BY <1>1, <1>2, CalledInOrder
    <2>2. calls' \notin AfterDown
      BY <2>1 DEF BeforeDown, AfterDown
    <2>3. QED
      BY <1>2, <2>1, <2>2 DEF CallbacksFit
  <1>3. CASE HandleError
    BY <1>1, <1>3
       DEF HandleError, connVars, interest, historyVars, CallbacksFit
  <1>4. QED
    BY <1>2, <1>3, HandleCloseCallbacks DEF HandleRead

\* handleWrite makes no callback at once.
LEMMA HandleWriteCallbacks ==
  ASSUME TypeOK, CallbacksFit, HandleWrite,
         todo' \in AfterEnd, EndsOnce(todo')
  PROVE  CallbacksFit'
  <1>1. queue' \in Seq(OwnFunctors)
    <2>1. <<"writeComplete">> \in OwnFunctors
      BY DEF OwnFunctors
    <2>2. queue' = queue \/ queue' = Append(queue, <<"writeComplete">>)
      BY DEF HandleWrite
    <2>3. QED
      BY <2>1, <2>2, OwnQueued DEF CallbacksFit
  <1>2. UNCHANGED calls
    BY DEF HandleWrite, historyVars
  <1>3. CASE isWriting
    <2>1. calls \notin AfterDown
      BY <1>3 DEF CallbacksFit, Ended, isWriting
    <2>2. QED
      BY <1>1, <1>2, <2>1 DEF CallbacksFit
  <1>4. CASE ~ isWriting
    BY <1>1, <1>2, <1>4
       DEF HandleWrite, connVars, interest, CallbacksFit, Ended
  <1>5. QED
    BY <1>3, <1>4

\* An event's callbacks keep the order.
LEMMA DispatchCallbacks ==
  ASSUME TypeOK, Life, CallbacksFit, Dispatch
  PROVE  CallbacksFit'
  <1>1. /\ todo \in Seq(EventCallbacks) /\ todo # << >> /\ EndsOnce(todo)
        /\ todo' = Tail(todo) /\ calls # << >>
    BY DEF TypeOK, Dispatch, CallbacksFit, EventCallbacks, Life,
           EstablishedFirst
  <1>2. /\ EndsOnce(todo')
        /\ Head(todo) # "error" => todo' \in AfterEnd
        /\ todo \in AfterEnd =>
             todo' \in AfterEnd /\ Head(todo) \in {"error", "write"}
    BY <1>1, EndsOnceTail
  <1>3. CASE Head(todo) = "close" /\ HandleClose
    BY <1>1, <1>2, <1>3, HandleCloseCallbacks
  <1>4. CASE Head(todo) = "error" /\ HandleError
    BY <1>2, <1>4
       DEF HandleError, connVars, interest, historyVars, CallbacksFit, Ended
  <1>5. CASE Head(todo) = "read" /\ HandleRead
    BY <1>1, <1>2, <1>5, HandleReadCallbacks
  <1>6. CASE Head(todo) = "write" /\ HandleWrite
    BY <1>1, <1>2, <1>6, HandleWriteCallbacks
  <1>7. QED
    BY <1>3, <1>4, <1>5, <1>6 DEF Dispatch

\* A closed connection is not in epoll any more.
LEMMA PollCallbacks ==
  ASSUME CallbacksFit, Poll
  PROVE  CallbacksFit'
  <1>1. calls \notin AfterDown
    BY DEF Poll, CallbacksFit, Ended
  <1>2. EndsOnce(todo')
    BY CallbacksEndOnce DEF Poll
  <1>3. QED
    BY <1>1, <1>2 DEF Poll, connVars, interest, historyVars, CallbacksFit

\* User code in a callback cannot send on, or shut down, a closed connection.
LEMMA CallbackCallbacks ==
  ASSUME TypeOK, CallbacksFit,
         \/ \E m \in Messages : CallbackSend(m)
         \/ CallbackShutdown
         \/ CallbackReturn
  PROVE  CallbacksFit'
  <1>1. ASSUME NEW m \in Messages, CallbackSend(m) PROVE CallbacksFit'
    <2>1. calls \notin AfterDown
      BY <1>1 DEF CallbackSend, CallbacksFit, Ended
    <2>2. PICK result \in Tried(Len(Bytes(m))) : Sends(Bytes(m), queue, result)
      BY <1>1, SendInLoopSends DEF CallbackSend
    <2>3. queue' \in Seq(OwnFunctors)
      <3> DEFINE c == Maybe(IsComplete(Bytes(m), result), "writeComplete")
                 h == Maybe(IsCrossing(Bytes(m), result), "highWaterMark")
      <3>1. queue' = queue \o c \o h
        BY <2>2 DEF Sends
      <3>2. c \in Seq(OwnFunctors) /\ h \in Seq(OwnFunctors)
        <4>1. /\ << >> \in Seq(OwnFunctors)
              /\ <<<<"writeComplete">>>> \in Seq(OwnFunctors)
              /\ <<<<"highWaterMark">>>> \in Seq(OwnFunctors)
          BY DEF OwnFunctors
        <4>2. QED
          BY <4>1 DEF Maybe
      <3> HIDE DEF c, h
      <3>3. queue \in Seq(OwnFunctors)
        BY DEF CallbacksFit
      <3>4. QED
        BY <3>1, <3>2, <3>3, ConcatProperties
    <2>4. index = "kAdded" => index' = "kAdded"
      <3>1. CASE SetEvents(events \cup {"out"})
        BY <3>1 DEF SetEvents
      <3>2. QED
        BY <2>2, <3>1 DEF Sends, interest
    <2>5. QED
      BY <1>1, <2>1, <2>3, <2>4 DEF CallbackSend, CallbacksFit
  <1>2. CASE CallbackShutdown
    BY <1>2
       DEF CallbackShutdown, interest, loopVars, historyVars, CallbacksFit,
           Ended
  <1>3. CASE CallbackReturn
    BY <1>3, CallbacksQuiet
       DEF CallbackReturn, connVars, interest, historyVars, CallbacksFit
  <1>4. QED
    BY <1>1, <1>2, <1>3

\* The server destroys the connection in its loop's turn.
LEMMA ServerCallbacks ==
  ASSUME TypeOK, Life, CallbacksFit, RemoveConnectionInLoop \/ ServerDestroyed
  PROVE  CallbacksFit'
  <1>1. <<"connectDestroyed">> \in OwnFunctors
    BY DEF OwnFunctors
  <1>2. queue \in Seq(OwnFunctors) /\ DestroysInLoop(queue) \in Seq(OwnFunctors)
    BY <1>1, OwnQueued DEF CallbacksFit
  <1>3. CASE RemoveConnectionInLoop
    BY <1>2, <1>3, CallbacksQuiet
       DEF RemoveConnectionInLoop, connVars, interest, historyVars
  <1>4. CASE ServerDestroyed
    <2>1. CASE LoopFree /\ ConnectDestroyed /\ UNCHANGED queue
      <3>1. calls # << >> \/ ~ StillUp
        BY DEF Life, EstablishedFirst, StillUp
      <3>2. QED
        BY <1>2, <2>1, <3>1, ConnectDestroyedCallbacks DEF LoopFree
    <2>2. CASE /\ queue' = DestroysInLoop(queue) \/ UNCHANGED queue
               /\ UNCHANGED <<connVars, todo, historyVars>>
      BY <1>2, <2>2, CallbacksQuiet DEF connVars, interest, historyVars
    <2>3. QED
      BY <1>4, <2>1, <2>2 DEF ServerDestroyed, loopVars
  <1>5. QED
    BY <1>3, <1>4

\* Every step that leaves the other threads without the connection.
LEMMA NextCallbacks ==
  ASSUME IInv, Alone => CallbacksFit, [Next]_vars, Alone'
  PROVE  CallbacksFit'
  <1>1. TypeOK /\ Life
    BY DEF IInv, Life
  <1>2. ASSUME NEW u \in Users, NEW v, user' = [user EXCEPT ![u] = v],
               v # Absent
        PROVE  FALSE
    <2>1. user'[u] = v
      BY <1>1, <1>2 DEF TypeOK
    <2>2. QED
      BY <1>2, <2>1 DEF Alone
  <1>3. ASSUME NEW m \in Messages PROVE <<"sendInLoop", m>> # Absent
    BY DEF Absent
  <1>4. /\ \A u \in Users, m \in Messages : ~ SendTest(u, m)
        /\ \A u \in Users : ~ ShutdownTest(u)
        /\ \A u \in Users : ~ ShutdownSetState(u)
        /\ \A u \in Users : ~ QueueInLoop(u)
    BY <1>2, <1>3
       DEF SendTest, ShutdownTest, ShutdownSetState, QueueInLoop, Absent, Idle
  <1>5. UNCHANGED user
    BY <1>4
       DEF Next, RunFunctor, ConnectEstablished, ConnectDestroyed,
           UserFunctor, Poll, Dispatch, HandleClose, HandleError, HandleRead,
           HandleWrite, CallbackSend, CallbackShutdown, CallbackReturn,
           RemoveConnectionInLoop, ServerDestroyed, PeerSends, PeerReads,
           PeerCloses, PeerResets, vars, otherVars, userVars
  <1>6. CallbacksFit
    BY <1>5 DEF Alone
  <1>7. CASE PeerSends \/ PeerReads \/ PeerCloses \/ PeerResets \/ UNCHANGED vars
    <2>1. UNCHANGED <<connVars, loopVars, historyVars>>
      BY <1>7 DEF PeerSends, PeerReads, PeerCloses, PeerResets, vars
    <2>2. QED
      BY <1>6, <2>1, CallbacksQuiet
         DEF connVars, interest, loopVars, historyVars, CallbacksFit
  <1>8. QED
    BY <1>1, <1>4, <1>6, <1>7, RunFunctorCallbacks, DispatchCallbacks,
       PollCallbacks, CallbackCallbacks, ServerCallbacks DEF Next

\* The user of a connection that only its own loop's thread uses sees it come
\* up, talk and go down once, whatever the peer, the server and the user's
\* own callbacks do (net/channel.cc, handleEventWithGuard;
\* net/tcpconnection.cc, handleClose and connectDestroyed).
THEOREM CallbackProtocolHolds == Spec => []CallbackProtocol
  <1> DEFINE Fits == Alone => CallbacksFit
  <1>1. Init => Fits
    <2> SUFFICES ASSUME Init PROVE CallbacksFit
      OBVIOUS
    <2>1. /\ <<<<"connectEstablished">>>> \in Seq(OwnFunctors)
          /\ << >> \in AfterEnd
          /\ << >> \notin AfterDown
      BY DEF OwnFunctors, AfterEnd, AfterDown
    <2>2. QED
      BY <2>1 DEF Init, CallbacksFit, EndsOnce
  <1>2. IInv /\ Fits /\ [Next]_vars => Fits'
    BY NextCallbacks
  <1>3. Fits => CallbackProtocol
    BY DEF Alone, CallbacksFit, BeforeDown, AfterDown, CallbackProtocol
  <1> HIDE DEF Fits
  <1>4. QED
    BY <1>1, <1>2, <1>3, IInvHolds, PTL DEF Spec

-----------------------------------------------------------------------------
(* What the user is told of the output.                                    *)

\* The functors of the user's callbacks are counted in the loop's queue.
LEMMA QueuedOccurrences ==
  ASSUME NEW q \in Seq(Functors), NEW kind
  PROVE  /\ Queued(kind, q) = Cardinality(Occurrences(q, <<kind>>))
         /\ Queued(kind, q) \in Nat
  BY OccurrencesFinite DEF Queued, Occurrences

\* A functor that is queued or taken counts for its own kind.
LEMMA QueuedAppend ==
  ASSUME NEW q \in Seq(Functors), NEW f \in Functors, NEW kind
  PROVE  Queued(kind, Append(q, f))
           = Queued(kind, q) + (IF f = <<kind>> THEN 1 ELSE 0)
  <1>1. Append(q, f) \in Seq(Functors)
    BY AppendProperties
  <1>2. /\ Queued(kind, q) = Cardinality(Occurrences(q, <<kind>>))
        /\ Queued(kind, Append(q, f))
             = Cardinality(Occurrences(Append(q, f), <<kind>>))
    BY <1>1, QueuedOccurrences
  <1>3. Cardinality(Occurrences(Append(q, f), <<kind>>))
          = Cardinality(Occurrences(q, <<kind>>))
              + (IF f = <<kind>> THEN 1 ELSE 0)
    BY OccurrencesAppend
  <1>4. QED
    BY <1>2, <1>3, Zenon

LEMMA QueuedTail ==
  ASSUME NEW q \in Seq(Functors), q # << >>, NEW kind
  PROVE  /\ Queued(kind, Tail(q)) <= Queued(kind, q)
         /\ Head(q) # <<kind>> => Queued(kind, Tail(q)) = Queued(kind, q)
  <1>1. Tail(q) \in Seq(Functors)
    BY HeadTailProperties
  <1>2. /\ Queued(kind, q) = Cardinality(Occurrences(q, <<kind>>))
        /\ Queued(kind, Tail(q)) = Cardinality(Occurrences(Tail(q), <<kind>>))
        /\ Queued(kind, Tail(q)) \in Nat
    BY <1>1, QueuedOccurrences
  <1>3. Queued(kind, q)
          = Queued(kind, Tail(q)) + (IF Head(q) = <<kind>> THEN 1 ELSE 0)
    BY <1>2, OccurrencesTail
  <1>4. QED
    BY <1>2, <1>3

LEMMA QueuedMaybe ==
  ASSUME NEW q \in Seq(Functors), NEW cond \in BOOLEAN, NEW other \in Told,
         NEW kind
  PROVE  /\ q \o Maybe(cond, other) \in Seq(Functors)
         /\ Queued(kind, q \o Maybe(cond, other))
              = Queued(kind, q) + (IF cond /\ kind = other THEN 1 ELSE 0)
  <1>1. <<other>> \in Functors /\ (<<other>> = <<kind>> <=> kind = other)
    BY DEF Functors, Told
  <1>2. Queued(kind, q) \in Nat
    BY QueuedOccurrences
  <1>3. CASE cond
    <2>1. q \o Maybe(cond, other) = Append(q, <<other>>)
      BY <1>1, <1>3, AppendIsConcat DEF Maybe
    <2>2. /\ Append(q, <<other>>) \in Seq(Functors)
          /\ Queued(kind, Append(q, <<other>>))
               = Queued(kind, q) + (IF <<other>> = <<kind>> THEN 1 ELSE 0)
      BY <1>1, QueuedAppend, AppendProperties
    <2>3. QED
      BY <1>1, <1>2, <1>3, <2>1, <2>2
  <1>4. CASE ~ cond
    <2>1. q \o Maybe(cond, other) = q
      BY <1>4, ConcatEmptySeq DEF Maybe
    <2>2. QED
      BY <1>2, <1>4, <2>1
  <1>5. QED
    BY <1>3, <1>4

\* What sendInLoop tells is what it did.
LEMMA SendInLoopTells ==
  ASSUME NEW data, NEW rest \in Seq(Functors), NEW result,
         Sends(data, rest, result)
  PROVE  /\ Queued("writeComplete", queue') > Queued("writeComplete", rest)
              <=> IsComplete(data, result)
         /\ Queued("highWaterMark", queue') > Queued("highWaterMark", rest)
              <=> IsCrossing(data, result)
  <1> DEFINE complete == IsComplete(data, result)
             crossing == IsCrossing(data, result)
             first == rest \o Maybe(complete, "writeComplete")
  <1>1. queue' = first \o Maybe(crossing, "highWaterMark")
    BY DEF Sends
  <1>2. "writeComplete" \in Told /\ "highWaterMark" \in Told
    BY DEF Told
  <1>3. complete \in BOOLEAN /\ crossing \in BOOLEAN
    BY DEF IsComplete, IsCrossing
  <1> HIDE DEF complete, crossing
  <1>4. first \in Seq(Functors)
    BY <1>2, <1>3, QueuedMaybe
  <1>5. ASSUME NEW kind \in Told
        PROVE  /\ Queued(kind, rest) \in Nat
               /\ Queued(kind, first)
                    = Queued(kind, rest)
                        + (IF complete /\ kind = "writeComplete"
                           THEN 1 ELSE 0)
    <2>1. Queued(kind, rest) \in Nat
      BY QueuedOccurrences
    <2>2. QED
      BY <1>2, <1>3, <2>1, QueuedMaybe
  <1> HIDE DEF first
  <1>6. ASSUME NEW kind \in Told
        PROVE  Queued(kind, queue')
                 = Queued(kind, first)
                     + (IF crossing /\ kind = "highWaterMark" THEN 1 ELSE 0)
    BY <1>1, <1>2, <1>3, <1>4, QueuedMaybe
  <1>7. QED
    BY <1>2, <1>3, <1>5, <1>6 DEF complete, crossing

\* Another thread queues what send() and shutdown() ask for, and no callback.
Asked ==
    {Idle, Absent, <<"setState">>, <<"shutdownInLoop">>}
      \cup {<<"sendInLoop", m>> : m \in Messages}

UsersAsk == user \in [Users -> Asked]

LEMMA NextUsersAsk == UsersAsk /\ [Next]_vars => UsersAsk'
  <1> SUFFICES ASSUME UsersAsk, [Next]_vars PROVE UsersAsk'
    OBVIOUS
  <1>1. CASE UNCHANGED user
    BY <1>1 DEF UsersAsk
  <1>2. ASSUME NEW u \in Users, NEW v \in Asked,
               user' = [user EXCEPT ![u] = v]
        PROVE  UsersAsk'
    BY <1>2 DEF UsersAsk
  <1>3. ASSUME NEW u \in Users, NEW m \in Messages, SendTest(u, m)
        PROVE  UsersAsk'
    BY <1>2, <1>3 DEF SendTest, Asked
  <1>4. ASSUME NEW u \in Users,
               ShutdownTest(u) \/ ShutdownSetState(u) \/ QueueInLoop(u)
        PROVE  UsersAsk'
    BY <1>2, <1>4 DEF ShutdownTest, ShutdownSetState, QueueInLoop, Asked
  <1>5. QED
    BY <1>1, <1>3, <1>4
       DEF Next, RunFunctor, ConnectEstablished, ConnectDestroyed,
           UserFunctor, Poll, Dispatch, HandleClose, HandleError, HandleRead,
           HandleWrite, CallbackSend, CallbackShutdown, CallbackReturn,
           RemoveConnectionInLoop, ServerDestroyed, PeerSends, PeerReads,
           PeerCloses, PeerResets, vars, otherVars, userVars

\* So these threads are at one of these places.
LEMMA UsersAskHolds == Spec => []UsersAsk
  <1>1. Init => UsersAsk
    BY DEF Init, UsersAsk, Asked
  <1>2. QED
    BY <1>1, NextUsersAsk, PTL DEF Spec

\* Steps that tell the user nothing of the output.
Silent ==
    /\ UNCHANGED outputBuffer
    /\ \A kind \in Told : Queued(kind, queue') <= Queued(kind, queue)

\* The queue only loses its head, or gets a functor that is no callback.
LEMMA SilentQueue ==
  ASSUME TypeOK, UNCHANGED outputBuffer,
         \/ UNCHANGED queue
         \/ queue # << >> /\ queue' = Tail(queue)
         \/ queue' = DestroysInLoop(queue)
         \/ \E f \in Functors : /\ \A kind \in Told : f # <<kind>>
                                /\ queue' = Append(queue, f)
  PROVE  Silent
  <1>1. queue \in Seq(Functors)
    BY DEF TypeOK
  <1>2. \A kind \in Told : Queued(kind, queue) \in Nat
    BY <1>1, QueuedOccurrences
  <1>3. ASSUME NEW f \in Functors, \A kind \in Told : f # <<kind>>,
               queue' = Append(queue, f)
        PROVE  Silent
    BY <1>1, <1>2, <1>3, QueuedAppend DEF Silent
  <1>4. CASE queue' = DestroysInLoop(queue)
    <2>1. <<"connectDestroyed">> \in Functors
      BY DEF Functors
    <2>2. \A kind \in Told : <<"connectDestroyed">> # <<kind>>
      BY DEF Told
    <2>3. QED
      BY <1>3, <1>4, <2>1, <2>2 DEF DestroysInLoop
  <1>5. CASE queue # << >> /\ queue' = Tail(queue)
    BY <1>1, <1>5, QueuedTail DEF Silent
  <1>6. CASE UNCHANGED queue
    BY <1>2, <1>6 DEF Silent
  <1>7. QED
    BY <1>3, <1>4, <1>5, <1>6

\* Only sendInLoop, run by whomever, and handleWrite touch the output.
SendsOutput ==
    \E data \in Seq(AllBytes), rest \in Seq(Functors) :
      /\ SendInLoop(data, rest)
      /\ \A kind \in Told : Queued(kind, rest) = Queued(kind, queue)
      /\ UNCHANGED <<reset, shutWr>>

LEMMA NextOutput ==
  ASSUME TypeOK, UsersAsk, Next
  PROVE  Silent \/ SendsOutput \/ HandleWrite
  <1>1. queue \in Seq(Functors)
    BY DEF TypeOK
  <1>2. CASE RunFunctor
    <2>1. CASE /\ queue' = Tail(queue) /\ UNCHANGED outputBuffer
      BY <1>2, <2>1, SilentQueue DEF RunFunctor
    <2>2. ASSUME NEW m \in Messages, NEW data \in {Bytes(m), Recycled(m)},
                 Head(queue) = <<"sendInLoop", m>>,
                 SendInLoop(data, Tail(queue)),
                 UNCHANGED <<peerVars, shutWr>>
          PROVE  SendsOutput
      <3>1. \A kind : Head(queue) # <<kind>>
        BY <2>2
      <3>2. \A kind \in Told : Queued(kind, Tail(queue)) = Queued(kind, queue)
        BY <1>1, <1>2, <3>1, QueuedTail DEF RunFunctor
      <3>3. Tail(queue) \in Seq(Functors) /\ data \in Seq(AllBytes)
        BY <1>1, <1>2, HeadTailProperties, BytesTyped DEF RunFunctor
      <3>4. QED
        BY <2>2, <3>2, <3>3 DEF SendsOutput, peerVars
    <2>3. QED
      BY <1>2, <2>1, <2>2
         DEF RunFunctor, ConnectEstablished, ConnectDestroyed, UserFunctor,
             connVars
  <1>3. CASE Dispatch
    <2>1. CASE HandleClose
      BY <2>1, SilentQueue DEF HandleClose
    <2>2. CASE UNCHANGED <<queue, outputBuffer>>
      BY <2>2, SilentQueue
    <2>3. QED
      BY <1>3, <2>1, <2>2
         DEF Dispatch, HandleError, HandleRead, connVars
  <1>4. ASSUME NEW m \in Messages, CallbackSend(m) PROVE SendsOutput
    BY <1>1, <1>4, BytesTyped DEF CallbackSend, SendsOutput, peerVars
  <1>5. ASSUME NEW u \in Users, QueueInLoop(u) PROVE Silent
    <2>1. user[u] \in Asked
      BY DEF UsersAsk
    <2>2. \A kind \in Told : user[u] # <<kind>>
      BY <2>1 DEF Asked, Told, Idle, Absent
    <2>3. UNCHANGED outputBuffer
      BY <1>5 DEF QueueInLoop, connVars
    <2>4. QED
      BY <1>5, <2>2, <2>3, SilentQueue DEF QueueInLoop
  <1>6. CASE RemoveConnectionInLoop \/ ServerDestroyed
    <2>1. /\ UNCHANGED outputBuffer
          /\ UNCHANGED queue \/ queue' = DestroysInLoop(queue)
      BY <1>6
         DEF RemoveConnectionInLoop, ServerDestroyed, ConnectDestroyed,
             connVars, loopVars
    <2>2. QED
      BY <2>1, SilentQueue
  <1>7. CASE UNCHANGED <<outputBuffer, queue>>
    BY <1>7, SilentQueue
  <1>8. QED
    BY <1>2, <1>3, <1>4, <1>5, <1>6, <1>7
       DEF Next, Poll, CallbackShutdown, CallbackReturn, SendTest,
           ShutdownTest, ShutdownSetState, PeerSends, PeerReads, PeerCloses,
           PeerResets, connVars, loopVars

\* handleWrite tells of the end of the output only, and shortens the buffer.
LEMMA HandleWriteTells ==
  ASSUME TypeOK, HandleWrite
  PROVE  /\ Len(outputBuffer') <= Len(outputBuffer)
         /\ \A kind \in Told :
              Queued(kind, queue') > Queued(kind, queue) =>
                kind = "writeComplete" /\ isWriting /\ outputBuffer' = << >>
  <1>1. queue \in Seq(Functors) /\ <<"writeComplete">> \in Functors
    BY DEF TypeOK, Functors
  <1>2. \A kind \in Told : Queued(kind, queue) \in Nat
    BY <1>1, QueuedOccurrences
  <1>3. \/ UNCHANGED queue
        \/ /\ queue' = Append(queue, <<"writeComplete">>)
           /\ isWriting /\ outputBuffer' = << >>
    BY DEF HandleWrite
  <1>4. \A kind \in Told :
          Queued(kind, queue') > Queued(kind, queue) =>
            kind = "writeComplete" /\ isWriting /\ outputBuffer' = << >>
    <2>1. CASE UNCHANGED queue
      BY <1>2, <2>1
    <2>2. CASE /\ queue' = Append(queue, <<"writeComplete">>)
               /\ isWriting /\ outputBuffer' = << >>
      BY <1>1, <1>2, <2>2, QueuedAppend
    <2>3. QED
      BY <1>3, <2>1, <2>2
  <1>5. Len(outputBuffer') <= Len(outputBuffer)
    <2>1. Len(outputBuffer) \in Nat
      BY DEF TypeOK
    <2>2. CASE isWriting
      <3>1. PICK result \in WriteResults(Len(outputBuffer)) :
              /\ Written(outputBuffer, result)
              /\ outputBuffer' = SubSeq(outputBuffer, Taken(result) + 1,
                                        Len(outputBuffer))
        BY <2>2 DEF HandleWrite
      <3>2. Taken(result) \in 0 .. Len(outputBuffer)
        BY <3>1, WrittenTypes
      <3>3. Len(outputBuffer') = Len(outputBuffer) - Taken(result)
        BY <2>1, <3>1, <3>2 DEF TypeOK
      <3>4. QED
        BY <2>1, <3>2, <3>3
    <2>3. CASE ~ isWriting
      BY <2>1, <2>3 DEF HandleWrite, connVars
    <2>4. QED
      BY <2>2, <2>3
  <1>6. QED
    BY <1>4, <1>5

\* What sendInLoop leaves in the buffer, and on the wire.
LEMMA SendInLoopLeaves ==
  ASSUME TypeOK, StreamKept, WritingFits,
         NEW data \in Seq(AllBytes), NEW rest \in Seq(Functors),
         NEW result \in Tried(Len(data)), SendInLoop(data, rest),
         Sends(data, rest, result), UNCHANGED <<reset, shutWr>>
  PROVE  /\ Len(outputBuffer')
              = Len(outputBuffer) + (IF IsBuffered(data, result)
                                     THEN Len(data) - Taken(result) ELSE 0)
         /\ IsComplete(data, result) =>
              outputBuffer' = << >> /\ wire' = accepted'
  <1>1. Len(data) \in Nat /\ Len(outputBuffer) \in Nat /\ sndSpace \in Nat
    BY TcpConnectionAssumption DEF TypeOK
  <1>2. Taken(result) \in 0 .. Len(data)
    BY <1>1, WriteTakes DEF Tried, Taken, Again, Broken
  <1>3. Len(outputBuffer')
          = Len(outputBuffer) + (IF IsBuffered(data, result)
                                 THEN Len(data) - Taken(result) ELSE 0)
    <2> DEFINE tail == SubSeq(data, Taken(result) + 1, Len(data))
    <2>1. tail \in Seq(AllBytes)
      BY <1>2, SplitAt
    <2>2. Len(tail) = Len(data) - Taken(result)
      BY <1>1, <1>2
    <2>3. outputBuffer \in Seq(AllBytes)
      BY DEF TypeOK
    <2>4. outputBuffer' = IF IsBuffered(data, result)
                          THEN outputBuffer \o tail ELSE outputBuffer
      BY DEF Sends
    <2> HIDE DEF tail
    <2>5. Len(outputBuffer \o tail) = Len(outputBuffer) + Len(tail)
      BY <2>1, <2>3, ConcatProperties
    <2>6. QED
      BY <1>1, <2>2, <2>4, <2>5
  <1>4. ASSUME IsComplete(data, result)
        PROVE  outputBuffer' = << >> /\ wire' = accepted'
    <2>1. /\ WritesDirectly /\ result # Broken
          /\ ~ IsBuffered(data, result)
      BY <1>1, <1>4 DEF IsComplete, Completes, IsBuffered
    <2>2. ~ (reset \/ shutWr)
      BY <1>1, <2>1, WriteTakes DEF Tried
    <2>3. outputBuffer' = << >>
      BY <2>1 DEF Sends, WritesDirectly
    <2>4. StreamKept'
      BY SendInLoopKeeps
    <2>5. wire' \o outputBuffer' = accepted'
      BY <2>2, <2>4 DEF StreamKept
    <2>6. wire' \in Seq(AllBytes)
      BY SendInLoopTypes
    <2>7. QED
      BY <2>3, <2>5, <2>6, ConcatEmptySeq
  <1>5. QED
    BY <1>3, <1>4

\* The write-complete callback is queued only when every byte that was handed
\* to sendInLoop is with the kernel, by the send that wrote all at once or by
\* the handleWrite that emptied the buffer (net/tcpconnection.cc, sendInLoop
\* and handleWrite).
THEOREM WriteCompleteIsTrueHolds == Spec => WriteCompleteIsTrue
  <1> DEFINE Tells ==
        Queued("writeComplete", queue') > Queued("writeComplete", queue)
  <1>1. ASSUME IInv, UsersAsk, Next, Tells
        PROVE  outputBuffer' = << >> /\ wire' = accepted'
    <2>1. TypeOK /\ StreamKept /\ WritingFits
      BY <1>1 DEF IInv
    <2>2. "writeComplete" \in Told /\ queue \in Seq(Functors)
      BY <2>1 DEF Told, TypeOK
    <2>3. ~ Silent
      <3>1. /\ Queued("writeComplete", queue) \in Nat
            /\ Queued("writeComplete", queue') \in Nat
        <4>1. TypeOK'
          BY <1>1, <2>1, NextTypeOK
        <4>2. queue' \in Seq(Functors)
          BY <4>1 DEF TypeOK
        <4>3. QED
          BY <2>2, <4>2, QueuedOccurrences
      <3>2. QED
        BY <1>1, <2>2, <3>1 DEF Silent
    <2>4. CASE SendsOutput
      <3>1. PICK data \in Seq(AllBytes), rest \in Seq(Functors) :
              /\ SendInLoop(data, rest)
              /\ Queued("writeComplete", rest)
                   = Queued("writeComplete", queue)
              /\ UNCHANGED <<reset, shutWr>>
        BY <2>2, <2>4 DEF SendsOutput
      <3>2. PICK result \in Tried(Len(data)) : Sends(data, rest, result)
        BY <3>1, SendInLoopSends
      <3>3. IsComplete(data, result)
        BY <1>1, <3>1, <3>2, SendInLoopTells
      <3>4. QED
        BY <2>1, <3>1, <3>2, <3>3, SendInLoopLeaves
    <2>5. CASE HandleWrite
      <3>1. isWriting /\ outputBuffer' = << >>
        BY <1>1, <2>1, <2>2, <2>5, HandleWriteTells
      <3>2. wire' \o outputBuffer' = accepted'
        BY <2>1, <2>5, <3>1, HandleWriteKeeps
      <3>3. TypeOK'
        BY <1>1, <2>1, NextTypeOK
      <3>4. QED
        BY <3>1, <3>2, <3>3, ConcatEmptySeq DEF TypeOK
    <2>6. QED
      BY <1>1, <2>1, <2>3, <2>4, <2>5, NextOutput
  <1>2. IInv /\ UsersAsk /\ [Next]_vars =>
          [Tells => outputBuffer' = << >> /\ wire' = accepted']_vars
    BY <1>1
  <1>3. QED
    BY <1>2, IInvHolds, UsersAskHolds, PTL DEF Spec, WriteCompleteIsTrue

\* The high-water-mark callback is queued by exactly the sends that lift the
\* buffer from below the mark to it or above: not again while it stays above,
\* and not by handleWrite (net/tcpconnection.cc, sendInLoop).
THEOREM HighWaterOnCrossingHolds == Spec => HighWaterOnCrossing
  <1> DEFINE Lifts == /\ Len(outputBuffer) < HighWaterMark
                      /\ Len(outputBuffer') >= HighWaterMark
             Tells ==
               Queued("highWaterMark", queue') > Queued("highWaterMark", queue)
  <1>1. ASSUME IInv, UsersAsk, Next
        PROVE  Lifts <=> Tells
    <2>1. TypeOK /\ StreamKept /\ WritingFits /\ TypeOK'
      BY <1>1, NextTypeOK DEF IInv
    <2>2. /\ "highWaterMark" \in Told
          /\ queue \in Seq(Functors) /\ queue' \in Seq(Functors)
          /\ Len(outputBuffer) \in Nat /\ Len(outputBuffer') \in Nat
          /\ HighWaterMark \in Nat
      BY <2>1, TcpConnectionAssumption DEF Told, TypeOK
    <2>3. /\ Queued("highWaterMark", queue) \in Nat
          /\ Queued("highWaterMark", queue') \in Nat
      BY <2>2, QueuedOccurrences
    <2>4. CASE Silent
      BY <2>2, <2>3, <2>4 DEF Silent
    <2>5. CASE SendsOutput
      <3>1. PICK data \in Seq(AllBytes), rest \in Seq(Functors) :
              /\ SendInLoop(data, rest)
              /\ Queued("highWaterMark", rest)
                   = Queued("highWaterMark", queue)
              /\ UNCHANGED <<reset, shutWr>>
        BY <2>2, <2>5 DEF SendsOutput
      <3>2. PICK result \in Tried(Len(data)) : Sends(data, rest, result)
        BY <3>1, SendInLoopSends
      <3>3. Tells <=> IsCrossing(data, result)
        BY <3>1, <3>2, SendInLoopTells
      <3>4. Len(outputBuffer')
              = Len(outputBuffer) + (IF IsBuffered(data, result)
                                     THEN Len(data) - Taken(result) ELSE 0)
        BY <2>1, <3>1, <3>2, SendInLoopLeaves
      <3>5. Lifts <=> IsCrossing(data, result)
        BY <2>2, <3>4 DEF IsCrossing, Crosses
      <3>6. QED
        BY <3>3, <3>5
    <2>6. CASE HandleWrite
      <3>1. Len(outputBuffer') <= Len(outputBuffer) /\ ~ Tells
        BY <2>1, <2>2, <2>6, HandleWriteTells
      <3>2. QED
        BY <2>2, <3>1
    <2>7. QED
      BY <1>1, <2>1, <2>4, <2>5, <2>6, NextOutput
  <1>2. IInv /\ UsersAsk /\ [Next]_vars => [Lifts <=> Tells]_vars
    BY <1>1
  <1>3. QED
    BY <1>2, IInvHolds, UsersAskHolds, PTL DEF Spec, HighWaterOnCrossing
=============================================================================
