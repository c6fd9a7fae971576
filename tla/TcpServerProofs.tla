-------------------------- MODULE TcpServerProofs --------------------------
(***************************************************************************)
(* Theorems about a server and all its connections, for any pools, users,  *)
(* limits of descriptors, number of names and of peers.                    *)
(***************************************************************************)
EXTENDS TcpServer, SequenceLemmas, TLAPS

-----------------------------------------------------------------------------
(* The inductive invariant.                                                *)

\* The callbacks of a connection that was closed, and of one that a late
\* send() had closed again.
TwiceTold(tcp) ==
    Len(tcp.callbacks) > 2 /\ "down" \in Range(tcp.callbacks)

Told(tcp) == tcp.callbacks = <<"up", "down">> \/ TwiceTold(tcp)

\* Shut down, and not closed.
Untold(tcp) == tcp.state = "kDisconnecting" /\ tcp.callbacks = <<"up">>

Ending(tcp) == tcp.state \in {"kDisconnecting", "kDisconnected"}

\* The stages of a connection.
Building(tcp) ==
    /\ tcp.state = "kConnecting"
    /\ tcp.index = "kNew"
    /\ tcp.callbacks = << >>
    /\ ~ tcp.revived

Up(tcp) ==
    /\ tcp.state \in {"kConnected", "kDisconnecting"}
    /\ tcp.index = "kAdded"
    /\ tcp.callbacks = <<"up">>
    /\ ~ tcp.revived

Closing(tcp) ==
    /\ Ending(tcp)
    /\ tcp.index = "kDeleted"
    /\ tcp.callbacks = <<"up", "down">>
    /\ ~ tcp.revived

Finished(tcp) ==
    /\ Ending(tcp)
    /\ tcp.index = "kNew"
    /\ tcp.callbacks = <<"up", "down">> \/ Untold(tcp)
    /\ ~ tcp.revived

\* A late send() has registered it again, and it need not be so any more.
Revived(tcp) ==
    /\ Ending(tcp)
    /\ Told(tcp) \/ Untold(tcp)
    /\ tcp.revived

\* Only ~TcpServer finishes a connection without telling its user.
StageFits(c) ==
    /\ \/ Building(conn[c]) \/ Up(conn[c]) \/ Closing(conn[c])
       \/ Finished(conn[c]) \/ Revived(conn[c])
    /\ Building(conn[c]) => conn[c].loop # BaseLoop
    /\ Finished(conn[c]) \/ Revived(conn[c]) =>
         Told(conn[c]) \/ place[BaseLoop] = "ended"

\* Names are given out in turn; the map has a connection under its own.
NamesFit ==
    /\ nextConnId = (Len(conn) + 1) % NameWidth
    /\ \A c \in Conns : conn[c].name = c % NameWidth
    /\ \A n \in Names : connections[n] # NoConn => conn[connections[n]].name = n

\* Those that wait are few enough to have a name each.
BacklogFits ==
    /\ Len(conn) + backlog <= MaxAccepts
    /\ backlog <= NameWidth

\* Of two connections with one name, accepted or waiting, the older is dead.
OlderAreDead ==
    \A d \in 1 .. Len(conn) + backlog : \A c \in Conns :
      c < d /\ c % NameWidth = d % NameWidth => c \notin Alive

\* Loops run between the server's start and its end.
ServerFits ==
    /\ server = "built" => \A l \in Loops : place[l] = "none"
    /\ server = "gone" => \A l \in Loops : ~ IsRunning(l)
    /\ server = "gone" => place[BaseLoop] = "ended"
    /\ \A l \in Loops : place[l] # "none" => l \in {BaseLoop} \cup Range(pool)

\* A loop has channels and functors in hand only where it handles them, and
\* the channels are registered, whatever was done since epoll_wait.
LoopsFit ==
    \A l \in Loops :
      /\ active[l] # {} => place[l] = "events"
      /\ batch[l] # << >> => place[l] = "functors"
      /\ Acceptor \in active[l] => l = BaseLoop /\ backlog > 0
      /\ \A c \in active[l] \ {Acceptor} :
           conn[c].loop = l /\ conn[c].index = "kAdded"

\* All functors a loop has still to run.
Work(l) == Range(queue[l]) \cup Range(batch[l])

IsEstablish(functor) == functor[1] = "connectEstablished"

\* A functor is in the right loop, about a connection in the right stage; the
\* thread that queued a raw pointer keeps another.
FunctorFits(l, f) ==
    /\ f[2] \in Conns
    /\ IsEstablish(f) => conn[f[2]].loop = l /\ Building(conn[f[2]])
    /\ f[1] = "connectDestroyed" =>
         /\ conn[f[2]].loop = l
         /\ Told(conn[f[2]]) \/ place[BaseLoop] = "ended"
    /\ f[1] = "removeConnectionInLoop" => Told(conn[f[2]])
    /\ IsRaw(f) => conn[f[2]].loop = l /\ KeptByUser(f[2])

FunctorsFit == \A l \in Loops : \A f \in Work(l) : FunctorFits(l, f)

\* A thread is given no connection before it is established.
UsersFit ==
    \A u \in Users :
      user[u][2] # NoConn =>
        user[u][2] \in Conns /\ ~ Building(conn[user[u][2]])

\* In q nothing about a connection comes before its connectEstablished.
NoneBefore(q) ==
    \A i, j \in DOMAIN q : i < j /\ IsEstablish(q[j]) => q[i][2] # q[j][2]

\* The connections that the functors of q are about, whatever they hold.
About(q) == {f[2] : f \in Range(q)}

EstablishedFirst ==
    \A l \in Loops :
      /\ NoneBefore(batch[l])
      /\ NoneBefore(queue[l])
      /\ \A f \in Range(queue[l]) : IsEstablish(f) => f[2] \notin About(batch[l])

\* Unless its loop has ended, a connection that is built will be established.
EstablishQueued(c) ==
    Building(conn[c]) /\ place[conn[c].loop] # "ended" =>
      <<"connectEstablished", c>> \in Work(conn[c].loop)

InMap(c) == connections[conn[c].name] = c

OnItsWay(c) == <<"connectDestroyed", c>> \in Work(conn[c].loop)

\* Unless its loop has ended, a connection is kept until it is unregistered:
\* by the map or by the functor that will do it.
KeptUntilFinished(c) ==
    /\ Building(conn[c]) \/ Up(conn[c]) \/ Closing(conn[c])
    /\ place[conn[c].loop] # "ended"
    => InMap(c) \/ OnItsWay(c)

\* The server knows what is not down, and to its end what is in its loop.
KnownUntilDown(c) ==
    /\ Building(conn[c]) \/ Up(conn[c])
    /\ place[BaseLoop] # "ended" \/ conn[c].loop = BaseLoop
    => InMap(c)

ConnFits(c) ==
    /\ StageFits(c)
    /\ EstablishQueued(c)
    /\ KeptUntilFinished(c)
    /\ KnownUntilDown(c)

ConnsFit == \A c \in Conns : ConnFits(c)

IInv ==
    /\ TypeOK
    /\ ConnsFit
    /\ NamesFit
    /\ BacklogFits
    /\ OlderAreDead
    /\ ServerFits
    /\ LoopsFit
    /\ FunctorsFit
    /\ UsersFit
    /\ EstablishedFirst

-----------------------------------------------------------------------------
(* Names: remainders modulo NameWidth.                                     *)

\* Division with remainder.
LEMMA DivMod ==
  ASSUME NEW k \in Nat, NEW w \in Nat \ {0}
  PROVE  /\ k \div w \in Int
         /\ k % w \in 0 .. w - 1
         /\ k = (w * (k \div w)) + (k % w)
  OBVIOUS

\* The remainder is unique, and a larger quotient is larger by w at least.
LEMMA Remainder ==
  ASSUME NEW w \in Nat \ {0}, NEW a \in Int, NEW b \in Int,
         NEW r \in 0 .. w - 1, NEW s \in 0 .. w - 1
  PROVE  /\ (w * a) + r = (w * b) + s => r = s
         /\ (w * a) + r < (w * b) + r => (w * a) + r <= ((w * b) + r) - w
  <1>1. CASE a < b
    <2>1. w * (b - a) >= w
      BY <1>1
    <2>2. QED
      BY <2>1
  <1>2. CASE a > b
    <2>1. w * (a - b) >= w
      BY <1>2
    <2>2. QED
      BY <2>1
  <1>3. CASE a = b
    BY <1>3
  <1>4. QED
    BY <1>1, <1>2, <1>3

\* The id that follows that of k.
LEMMA NextName ==
  ASSUME NEW k \in Nat
  PROVE  ((k % NameWidth) + 1) % NameWidth = (k + 1) % NameWidth
  <1> DEFINE w == NameWidth
             r == k % w
             a == k \div w
             b == (r + 1) \div w
             e == (k + 1) \div w
  <1>1. w \in Nat \ {0}
    BY TcpServerAssumption
  <1>2. /\ a \in Int
        /\ r \in 0 .. w - 1
        /\ k = (w * a) + r
    BY <1>1, DivMod
  <1>3. /\ b \in Int
        /\ (r + 1) % w \in 0 .. w - 1
        /\ r + 1 = (w * b) + ((r + 1) % w)
    BY <1>1, <1>2, DivMod
  <1>4. /\ e \in Int
        /\ (k + 1) % w \in 0 .. w - 1
        /\ k + 1 = (w * e) + ((k + 1) % w)
    BY <1>1, DivMod
  <1>5. (w * (a + b)) + ((r + 1) % w) = (w * e) + ((k + 1) % w)
    <2>1. w * (a + b) = (w * a) + (w * b)
      BY <1>1, <1>2, <1>3
    <2> HIDE DEF a, b, e, r, w
    <2>2. QED
      BY <1>1, <1>2, <1>3, <1>4, <2>1
  <1>6. a + b \in Int
    BY <1>2, <1>3
  <1> HIDE DEF a, b, e, r, w
  <1>7. (r + 1) % w = (k + 1) % w
    BY <1>1, <1>3, <1>4, <1>5, <1>6, Remainder
  <1>8. QED
    BY <1>7 DEF r, w

\* Connections of one name are NameWidth apart at least.
LEMMA NamesApart ==
  ASSUME NEW c \in Nat, NEW d \in Nat,
         c < d, c % NameWidth = d % NameWidth
  PROVE  c <= d - NameWidth
  <1> DEFINE w == NameWidth
             a == c \div w
             b == d \div w
  <1>1. w \in Nat \ {0}
    BY TcpServerAssumption
  <1>2. /\ a \in Int
        /\ c % w \in 0 .. w - 1
        /\ c = (w * a) + (c % w)
    BY <1>1, DivMod
  <1>3. b \in Int /\ d = (w * b) + (d % w)
    BY <1>1, DivMod
  <1> HIDE DEF a, b, w
  <1>4. d = (w * b) + (c % w)
    BY <1>3 DEF w
  <1>5. c <= d - w
    BY <1>1, <1>2, <1>3, <1>4, Remainder
  <1>6. QED
    BY <1>5 DEF w

\* The name of the connection that came NameWidth earlier.
LEMMA NameBefore ==
  ASSUME NEW d \in Nat, NameWidth <= d
  PROVE  (d - NameWidth) % NameWidth = d % NameWidth
  <1> DEFINE w == NameWidth
             a == d \div w
             b == (d - w) \div w
  <1>1. w \in Nat \ {0} /\ d - w \in Nat
    BY TcpServerAssumption
  <1>2. /\ a \in Int
        /\ d % w \in 0 .. w - 1
        /\ d = (w * a) + (d % w)
    BY <1>1, DivMod
  <1>3. /\ b \in Int
        /\ (d - w) % w \in 0 .. w - 1
        /\ d - w = (w * b) + ((d - w) % w)
    BY <1>1, DivMod
  <1>4. (w * (b + 1)) + ((d - w) % w) = (w * a) + (d % w)
    <2>1. w * (b + 1) = (w * b) + w
      BY <1>1, <1>3
    <2> HIDE DEF a, b, w
    <2>2. QED
      BY <1>1, <1>2, <1>3, <2>1
  <1>5. b + 1 \in Int
    BY <1>3
  <1> HIDE DEF a, b, w
  <1>6. (d - w) % w = d % w
    BY <1>1, <1>2, <1>3, <1>4, <1>5, Remainder
  <1>7. QED
    BY <1>6 DEF w

-----------------------------------------------------------------------------
(* What handlers do to connections and queues.                             *)

Kinds ==
    {"connectEstablished", "connectDestroyed", "removeConnectionInLoop",
     "sendInLoop", "shutdownInLoop"}

\* The numbers of the connections are those of their construction.
LEMMA ConnsAre ==
  ASSUME TypeOK
  PROVE  /\ Len(conn) \in 0 .. MaxAccepts
         /\ Conns = 1 .. Len(conn)
         /\ \A c \in Conns : conn[c] \in Connections
         /\ NoConn \notin Conns
  <1>1. Len(conn) \in Nat /\ DOMAIN conn = 1 .. Len(conn)
    BY LenProperties DEF TypeOK
  <1>2. \A c \in 1 .. Len(conn) : conn[c] \in Connections
    BY ElementOfSeq DEF TypeOK
  <1>3. QED
    BY <1>1, <1>2, TcpServerAssumption DEF TypeOK, Conns, NoConn

\* A functor is its kind and its connection.
LEMMA FunctorIs ==
  ASSUME NEW f \in Functors
  PROVE  f[1] \in Kinds /\ f[2] \in 1 .. MaxAccepts /\ f = <<f[1], f[2]>>
  BY DEF Functors, Kinds

\* Functors are built of the connections there are.
LEMMA FunctorTyped ==
  ASSUME TypeOK, NEW kind \in Kinds, NEW c \in 1 .. MaxAccepts
  PROVE  <<kind, c>> \in Functors
  BY DEF Functors, Kinds

\* A step on one connection leaves the others alone.
LEMMA ConnChanges ==
  ASSUME TypeOK, NEW c \in Conns, NEW tcp \in Connections,
         conn' = [conn EXCEPT ![c] = tcp]
  PROVE  /\ conn' \in Seq(Connections)
         /\ Len(conn') = Len(conn)
         /\ Conns' = Conns
         /\ conn'[c] = tcp
         /\ \A d \in Conns \ {c} : conn'[d] = conn[d]
  <1>1. c \in 1 .. Len(conn) /\ Conns = 1 .. Len(conn)
    BY ConnsAre
  <1>2. /\ conn' \in Seq(Connections)
        /\ Len(conn') = Len(conn)
        /\ \A d \in 1 .. Len(conn) :
             conn'[d] = IF d = c THEN tcp ELSE conn[d]
    <2>1. conn \in Seq(Connections)
      BY DEF TypeOK
    <2>2. QED
      BY <1>1, <2>1, ExceptSeq
  <1>3. DOMAIN conn' = 1 .. Len(conn')
    BY <1>2, LenProperties
  <1>4. QED
    BY <1>1, <1>2, <1>3 DEF Conns

\* newConnection adds one.
LEMMA ConnAdded ==
  ASSUME TypeOK, NEW tcp \in Connections, conn' = Append(conn, tcp)
  PROVE  /\ conn' \in Seq(Connections)
         /\ Len(conn') = Len(conn) + 1
         /\ Conns' = Conns \cup {Len(conn) + 1}
         /\ Len(conn) + 1 \notin Conns
         /\ conn'[Len(conn) + 1] = tcp
         /\ \A d \in Conns : conn'[d] = conn[d]
  <1>1. Len(conn) \in Nat /\ Conns = 1 .. Len(conn)
    BY ConnsAre, TcpServerAssumption
  <1>2. /\ conn' \in Seq(Connections)
        /\ Len(conn') = Len(conn) + 1
        /\ \A d \in 1 .. Len(conn) : conn'[d] = conn[d]
        /\ conn'[Len(conn) + 1] = tcp
    <2>1. conn \in Seq(Connections)
      BY DEF TypeOK
    <2>2. QED
      BY <2>1, AppendProperties
  <1>3. DOMAIN conn' = 1 .. Len(conn')
    BY <1>2, LenProperties
  <1>4. QED
    BY <1>1, <1>2, <1>3 DEF Conns

Staged(tcp) ==
    Building(tcp) \/ Up(tcp) \/ Closing(tcp) \/ Finished(tcp) \/ Revived(tcp)

\* What the user of a connection sees of a step.
Lives(tcp, new) ==
    \/ new.callbacks = tcp.callbacks
    \/ Building(tcp) /\ Up(new)
    \/ tcp.callbacks = <<"up">> /\ new.callbacks = <<"up", "down">>
    \/ Told(tcp) /\ TwiceTold(new) /\ new.revived

\* What every handler keeps of a connection.
Keeps(tcp, new) ==
    /\ new \in Connections
    /\ new.name = tcp.name
    /\ new.loop = tcp.loop
    /\ tcp.revived => new.revived
    /\ Told(tcp) => Told(new)
    /\ Lives(tcp, new)

\* What calls of other threads, and handleWrite, keep besides.
KeepsStage(tcp, new) ==
    /\ Keeps(tcp, new)
    /\ Staged(new)
    /\ ~ Building(new)
    /\ Up(new) <=> Up(tcp)
    /\ Closing(new) => Closing(tcp)
    /\ new.callbacks = tcp.callbacks

\* The callbacks that are made, one after the other.
LEMMA Callbacks ==
  /\ Append(<< >>, "up") = <<"up">>
  /\ Append(<<"up">>, "down") = <<"up", "down">>
  /\ << >> \in Seq({"up", "down"})
  /\ <<"up">> \in Seq({"up", "down"})
  /\ <<"up", "down">> \in Seq({"up", "down"})
  /\ Len(<< >>) = 0 /\ Len(<<"up">>) = 1 /\ Len(<<"up", "down">>) = 2
  /\ << >> # <<"up">> /\ << >> # <<"up", "down">>
  /\ <<"up">> # <<"up", "down">>
  /\ "down" \in Range(<<"up", "down">>)
  <1> DEFINE S == {"up", "down"}
             none == << >>
             one == <<"up">>
             two == <<"up", "down">>
  <1>1. Append(none, "up") = one
    OBVIOUS
  <1>2. /\ none \in Seq(S) /\ Len(none) = 0
        /\ one \in Seq(S) /\ Len(one) = 1 /\ one[1] = "up"
        /\ two \in Seq(S) /\ Len(two) = 2
        /\ two[1] = "up" /\ two[2] = "down"
    OBVIOUS
  <1>3. Append(one, "down") = two
    <2> HIDE DEF none, one, two
    <2>1. "down" \in S
      OBVIOUS
    <2>2. /\ Append(one, "down") \in Seq(S)
          /\ Len(Append(one, "down")) = 2
          /\ Append(one, "down")[1] = "up"
          /\ Append(one, "down")[2] = "down"
      <3>1. /\ Append(one, "down") \in Seq(S)
            /\ Len(Append(one, "down")) = Len(one) + 1
            /\ \A i \in 1 .. Len(one) : Append(one, "down")[i] = one[i]
            /\ Append(one, "down")[Len(one) + 1] = "down"
        <4>1. one \in Seq(S)
          BY <1>2
        <4> HIDE DEF S
        <4>2. QED
          BY <2>1, <4>1, AppendProperties
      <3>2. QED
        BY <1>2, <3>1
    <2>3. \A i \in 1 .. 2 : Append(one, "down")[i] = two[i]
      BY <1>2, <2>2
    <2> HIDE DEF S
    <2>4. QED
      BY <1>2, <2>2, <2>3, SeqEqual
  <1>4. none # one /\ none # two /\ one # two
    <2> HIDE DEF none, one, two
    <2>1. QED
      BY <1>2
  <1>5. "down" \in Range(two)
    <2>1. 2 \in DOMAIN two
      OBVIOUS
    <2> HIDE DEF two
    <2>2. QED
      BY <1>2, <2>1 DEF Range
  <1>6. QED
    BY <1>1, <1>2, <1>3, <1>4, <1>5

\* Told once more that it is down.
LEMMA ToldAgain ==
  ASSUME NEW tcp \in Connections, Told(tcp)
  PROVE  /\ Append(tcp.callbacks, "down") \in Seq({"up", "down"})
         /\ Len(Append(tcp.callbacks, "down")) > 2
         /\ "down" \in Range(Append(tcp.callbacks, "down"))
  <1> DEFINE s == tcp.callbacks
             S == {"up", "down"}
  <1>1. s \in Seq(S) /\ "down" \in S
    BY DEF Connections
  <1>2. s = <<"up", "down">> \/ Len(s) > 2
    BY DEF Told, TwiceTold
  <1>3. Len(<<"up", "down">>) = 2
    BY Callbacks
  <1> HIDE DEF s, S
  <1>4. /\ Append(s, "down") \in Seq(S)
        /\ Len(Append(s, "down")) = Len(s) + 1
        /\ Range(Append(s, "down")) = Range(s) \cup {"down"}
    BY <1>1, AppendProperties, RangeOfAppend
  <1>5. Len(s) \in Nat
    BY <1>1, LenProperties
  <1>6. Len(s) >= 2
    BY <1>2, <1>3, <1>5
  <1>7. Len(Append(s, "down")) > 2 /\ "down" \in Range(Append(s, "down"))
    BY <1>4, <1>5, <1>6
  <1>8. QED
    BY <1>4, <1>7 DEF s, S

\* The stages exclude each other.
LEMMA StagesDiffer ==
  ASSUME NEW tcp
  PROVE  /\ Building(tcp) => /\ ~ Up(tcp) /\ ~ Closing(tcp)
                             /\ ~ Finished(tcp) /\ ~ Revived(tcp)
                             /\ ~ Told(tcp) /\ ~ Untold(tcp)
         /\ Up(tcp) => /\ ~ Closing(tcp) /\ ~ Finished(tcp) /\ ~ Revived(tcp)
                       /\ ~ Told(tcp)
         /\ Closing(tcp) => ~ Finished(tcp) /\ ~ Revived(tcp) /\ Told(tcp)
         /\ Finished(tcp) => ~ Revived(tcp)
         /\ Finished(tcp) \/ Revived(tcp) => Told(tcp) \/ Untold(tcp)
         /\ Building(tcp) \/ Finished(tcp) => tcp.index = "kNew"
         /\ Up(tcp) => tcp.index = "kAdded"
         /\ Closing(tcp) => tcp.index = "kDeleted"
  BY Callbacks DEF Building, Up, Closing, Finished, Revived, Ending, Told,
                   TwiceTold, Untold

\* connectEstablished, on a connection that was built.
LEMMA EstablishedIs ==
  ASSUME NEW tcp \in Connections, Building(tcp)
  PROVE  /\ Keeps(tcp, Established(tcp))
         /\ Up(Established(tcp))
  <1> DEFINE new == Established(tcp)
  <1>1. /\ new.state = "kConnected"
        /\ new.index = "kAdded"
        /\ new.callbacks = <<"up">>
        /\ new.revived = tcp.revived
        /\ new.name = tcp.name
        /\ new.loop = tcp.loop
        /\ new \in Connections
    BY Callbacks DEF Established, Building, Connections
  <1> HIDE DEF new
  <1>2. Up(new)
    BY <1>1 DEF Up, Building
  <1>3. QED
    BY <1>1, <1>2, StagesDiffer DEF Keeps, Lives, new

\* handleClose, on a connection that is registered.
LEMMA ClosedIs ==
  ASSUME NEW tcp \in Connections, Up(tcp) \/ Revived(tcp)
  PROVE  /\ Keeps(tcp, Closed(tcp))
         /\ Told(Closed(tcp))
         /\ Up(tcp) => Closing(Closed(tcp))
         /\ Revived(tcp) => Revived(Closed(tcp))
  <1> DEFINE new == Closed(tcp)
  <1>1. /\ new.state = "kDisconnected"
        /\ new.index = "kDeleted"
        /\ new.callbacks = Append(tcp.callbacks, "down")
        /\ new.revived = tcp.revived
        /\ new.name = tcp.name
        /\ new.loop = tcp.loop
        /\ new.callbacks \in Seq({"up", "down"}) => new \in Connections
    BY DEF Closed, Connections
  <1> HIDE DEF new
  <1>2. CASE Told(tcp)
    <2>1. new \in Connections /\ TwiceTold(new)
      BY <1>1, <1>2, ToldAgain DEF TwiceTold
    <2>2. ~ Up(tcp)
      BY <1>2, StagesDiffer
    <2>3. Told(new) /\ Revived(new) /\ new.revived
      BY <1>1, <2>1, <2>2 DEF Told, Revived, Ending
    <2>4. QED
      BY <1>1, <1>2, <2>1, <2>2, <2>3 DEF Keeps, Lives, new
  <1>3. CASE ~ Told(tcp)
    <2>1. tcp.callbacks = <<"up">>
      BY <1>3 DEF Up, Revived, Untold
    <2>2. new.callbacks = <<"up", "down">> /\ new \in Connections
      BY <1>1, <2>1, Callbacks
    <2>3. Told(new)
      BY <2>2 DEF Told
    <2>4. Up(tcp) => Closing(new)
      BY <1>1, <2>2 DEF Up, Closing, Ending
    <2>5. Revived(tcp) => Revived(new)
      BY <1>1, <2>3 DEF Revived, Ending
    <2>6. QED
      BY <1>1, <1>3, <2>1, <2>2, <2>3, <2>4, <2>5 DEF Keeps, Lives, new
  <1>4. QED
    BY <1>2, <1>3

\* connectDestroyed, on a connection that was established.
LEMMA DestroyedIs ==
  ASSUME NEW tcp \in Connections, Staged(tcp), ~ Building(tcp)
  PROVE  /\ Keeps(tcp, Destroyed(tcp))
         /\ Finished(Destroyed(tcp)) \/ Revived(Destroyed(tcp))
  <1> DEFINE new == Destroyed(tcp)
  <1>1. CASE tcp.state = "kConnected"
    <2>1. tcp.callbacks = <<"up">> /\ ~ tcp.revived
      BY <1>1 DEF Staged, Building, Up, Closing, Finished, Revived, Ending
    <2>2. /\ new.state = "kDisconnected"
          /\ new.index = "kNew"
          /\ new.callbacks = <<"up", "down">>
          /\ new.revived = tcp.revived
          /\ new.name = tcp.name
          /\ new.loop = tcp.loop
          /\ new \in Connections
      BY <1>1, <2>1, Callbacks DEF Destroyed, Connections
    <2> HIDE DEF new
    <2>3. Finished(new) /\ Told(new)
      BY <2>1, <2>2 DEF Finished, Ending, Told
    <2>4. QED
      BY <2>1, <2>2, <2>3 DEF Keeps, Lives, new
  <1>2. CASE tcp.state # "kConnected"
    <2>1. /\ new.state = tcp.state
          /\ new.index = "kNew"
          /\ new.callbacks = tcp.callbacks
          /\ new.revived = tcp.revived
          /\ new.name = tcp.name
          /\ new.loop = tcp.loop
          /\ new \in Connections
      BY <1>2 DEF Destroyed, Connections
    <2> HIDE DEF new
    <2>2. Finished(new) \/ Revived(new)
      BY <1>2, <2>1
         DEF Staged, Building, Up, Closing, Finished, Revived, Ending, Told,
             TwiceTold, Untold
    <2>3. Told(tcp) => Told(new)
      BY <2>1 DEF Told, TwiceTold
    <2>4. QED
      BY <2>1, <2>2, <2>3 DEF Keeps, Lives, new
  <1>3. QED
    BY <1>1, <1>2

\* send() and shutdown() of other threads, on a connection that was
\* established.
LEMMA CalledIs ==
  ASSUME NEW tcp \in Connections, Staged(tcp), ~ Building(tcp),
         NEW new, \/ new = Buffered(tcp)
                  \/ new = ShutDown(tcp)
                  \/ new = Drained(tcp) /\ Revived(tcp)
                  \/ new = tcp
  PROVE  KeepsStage(tcp, new)
  <1>1. /\ new.name = tcp.name
        /\ new.loop = tcp.loop
        /\ new.callbacks = tcp.callbacks
        /\ new \in Connections
    BY DEF Buffered, ShutDown, Drained, Connections
  <1>2. Told(tcp) => Told(new)
    BY <1>1 DEF Told, TwiceTold
  <1>3. /\ tcp.revived => new.revived
        /\ Staged(new)
        /\ ~ Building(new)
        /\ Up(new) <=> Up(tcp)
        /\ Closing(new) => Closing(tcp)
    <2>1. tcp.callbacks # << >>
      BY Callbacks DEF Staged, Building, Up, Closing, Finished, Revived,
                       Told, TwiceTold, Untold
    <2>2. ~ Building(new)
      BY <1>1, <2>1 DEF Building
    <2>3. CASE new = ShutDown(tcp)
      <3>1. /\ new.state = "kDisconnecting"
            /\ new.index = tcp.index
            /\ new.revived = tcp.revived
        BY <2>3 DEF ShutDown, Connections
      <3>2. Untold(tcp) => Untold(new)
        BY <1>1, <3>1 DEF Untold
      <3>3. /\ Up(tcp) <=> Up(new)
            /\ Closing(tcp) <=> Closing(new)
            /\ Finished(tcp) => Finished(new)
            /\ Revived(tcp) => Revived(new)
        <4>1. Up(new) => Up(tcp)
          BY <1>1, <3>1, Callbacks
             DEF Staged, Building, Up, Closing, Finished, Revived, Ending
        <4>2. Closing(new) => Closing(tcp)
          BY <1>1, <3>1, Callbacks
             DEF Staged, Building, Up, Closing, Finished, Revived, Ending
        <4>3. Up(tcp) => Up(new)
          BY <1>1, <3>1 DEF Up
        <4>4. /\ Closing(tcp) => Closing(new)
              /\ Finished(tcp) => Finished(new)
              /\ Revived(tcp) => Revived(new)
          BY <1>1, <1>2, <3>1, <3>2 DEF Closing, Finished, Revived, Ending
        <4>5. QED
          BY <4>1, <4>2, <4>3, <4>4
      <3>4. QED
        BY <2>2, <3>1, <3>3 DEF Staged
    <2>4. CASE new = Buffered(tcp)
      <3>1. /\ new.state = tcp.state
            /\ new.index = "kAdded"
            /\ new.revived = (tcp.revived \/ tcp.index # "kAdded")
        BY <2>4 DEF Buffered, Connections
      <3>2. Untold(tcp) => Untold(new)
        BY <1>1, <3>1 DEF Untold
      <3>3. Up(tcp) => Up(new)
        BY <1>1, <3>1 DEF Up
      <3>4. ~ Up(tcp) => Revived(new)
        <4>1. ~ Up(tcp) => new.revived /\ Ending(new)
          BY <3>1 DEF Staged, Closing, Finished, Revived, Ending
        <4>2. ~ Up(tcp) => Told(tcp) \/ Untold(tcp)
          BY StagesDiffer DEF Staged
        <4>3. QED
          BY <1>2, <3>2, <4>1, <4>2 DEF Revived
      <3>5. ~ Closing(new)
        BY <3>1 DEF Closing
      <3>6. Up(new) => Up(tcp)
        BY <3>4, StagesDiffer
      <3>7. QED
        BY <2>2, <3>1, <3>3, <3>4, <3>5, <3>6 DEF Staged
    <2>5. CASE new = Drained(tcp) /\ Revived(tcp)
      <3>1. /\ new.state = tcp.state
            /\ new.revived = tcp.revived
        BY <2>5 DEF Drained, Connections
      <3>2. Untold(tcp) => Untold(new)
        BY <1>1, <3>1 DEF Untold
      <3>3. Revived(new)
        BY <1>2, <2>5, <3>1, <3>2 DEF Revived, Ending
      <3>4. QED
        BY <2>2, <2>5, <3>1, <3>3, StagesDiffer DEF Staged
    <2>6. CASE new = tcp
      BY <2>6
    <2>7. QED
      BY <2>3, <2>4, <2>5, <2>6
  <1>4. QED
    BY <1>1, <1>2, <1>3 DEF KeepsStage, Keeps, Lives

\* queueInLoop adds one functor, behind the others.
LEMMA Enqueued ==
  ASSUME TypeOK, NEW l \in Loops, NEW f \in Functors, Queue(l, f)
  PROVE  /\ queue' \in [Loops -> Seq(Functors)]
         /\ \A k \in Loops \ {l} : queue'[k] = queue[k]
         /\ Range(queue'[l]) = Range(queue[l]) \cup {f}
         /\ NoneBefore(queue[l])
              /\ (IsEstablish(f) => f[2] \notin About(queue[l]))
            => NoneBefore(queue'[l])
  <1> DEFINE q == queue[l]
  <1>1. /\ q \in Seq(Functors)
        /\ queue' = [queue EXCEPT ![l] = Append(q, f)]
        /\ queue'[l] = Append(q, f)
    BY DEF TypeOK, Queue
  <1>2. /\ Append(q, f) \in Seq(Functors)
        /\ Len(Append(q, f)) = Len(q) + 1
        /\ \A i \in 1 .. Len(q) : Append(q, f)[i] = q[i]
        /\ Append(q, f)[Len(q) + 1] = f
    BY <1>1, AppendProperties
  <1>3. Range(Append(q, f)) = Range(q) \cup {f}
    BY <1>1, RangeOfAppend
  <1>4. /\ queue' \in [Loops -> Seq(Functors)]
        /\ \A k \in Loops \ {l} : queue'[k] = queue[k]
    BY <1>1, <1>2 DEF TypeOK
  <1>5. ASSUME NoneBefore(q),
               IsEstablish(f) => f[2] \notin About(q)
        PROVE  NoneBefore(Append(q, f))
    <2>1. /\ DOMAIN q = 1 .. Len(q)
          /\ Len(q) \in Nat
          /\ DOMAIN Append(q, f) = 1 .. Len(q) + 1
      BY <1>1, <1>2, LenProperties
    <2>2. ASSUME NEW i \in 1 .. Len(q) + 1, NEW j \in 1 .. Len(q) + 1,
                 i < j, IsEstablish(Append(q, f)[j])
          PROVE  Append(q, f)[i][2] # Append(q, f)[j][2]
      <3>1. i \in 1 .. Len(q) /\ Append(q, f)[i] = q[i]
        BY <1>2, <2>1, <2>2
      <3>2. CASE j = Len(q) + 1
        <4>1. q[i][2] \in About(q)
          BY <2>1, <3>1 DEF About, Range
        <4>2. QED
          BY <1>2, <1>5, <2>2, <3>1, <3>2, <4>1
      <3>3. CASE j # Len(q) + 1
        <4>1. j \in 1 .. Len(q) /\ Append(q, f)[j] = q[j]
          BY <1>2, <2>1, <3>3
        <4>2. QED
          BY <1>5, <2>1, <2>2, <3>1, <4>1 DEF NoneBefore
      <3>4. QED
        BY <3>2, <3>3
    <2>3. QED
      BY <2>1, <2>2 DEF NoneBefore
  <1>6. QED
    BY <1>1, <1>3, <1>4, <1>5

\* The functor that doPendingFunctors runs was the first, and leaves the rest.
LEMMA Dequeued ==
  ASSUME NEW q \in Seq(Functors), q # << >>
  PROVE  /\ Head(q) \in Functors
         /\ Tail(q) \in Seq(Functors)
         /\ Range(q) = {Head(q)} \cup Range(Tail(q))
         /\ NoneBefore(q) =>
              /\ NoneBefore(Tail(q))
              /\ \A f \in Range(Tail(q)) :
                   IsEstablish(f) => f[2] # Head(q)[2]
  <1>1. /\ Head(q) \in Functors
        /\ Tail(q) \in Seq(Functors)
        /\ Len(Tail(q)) = Len(q) - 1
        /\ \A i \in 1 .. Len(Tail(q)) : Tail(q)[i] = q[i + 1]
    BY HeadTailProperties
  <1>2. /\ DOMAIN Tail(q) = 1 .. Len(Tail(q))
        /\ DOMAIN q = 1 .. Len(q)
        /\ Len(q) \in Nat \ {0}
        /\ Head(q) = q[1]
    BY <1>1, LenProperties, EmptySeq
  <1>3. \A i \in DOMAIN Tail(q) :
          i \in Int /\ i + 1 \in DOMAIN q /\ 1 < i + 1 /\ 1 \in DOMAIN q
    BY <1>1, <1>2
  <1>4. ASSUME NoneBefore(q)
        PROVE  NoneBefore(Tail(q))
    <2>1. ASSUME NEW i \in DOMAIN Tail(q), NEW j \in DOMAIN Tail(q),
                 i < j, IsEstablish(Tail(q)[j])
          PROVE  Tail(q)[i][2] # Tail(q)[j][2]
      <3>1. /\ Tail(q)[i] = q[i + 1]
            /\ Tail(q)[j] = q[j + 1]
            /\ i + 1 < j + 1
        BY <1>1, <1>2, <1>3, <2>1
      <3>2. QED
        BY <1>3, <1>4, <2>1, <3>1 DEF NoneBefore
    <2>2. QED
      BY <2>1 DEF NoneBefore
  <1>5. ASSUME NoneBefore(q), NEW f \in Range(Tail(q)), IsEstablish(f)
        PROVE  f[2] # Head(q)[2]
    <2>1. PICK j \in DOMAIN Tail(q) : f = Tail(q)[j]
      BY DEF Range
    <2>2. f = q[j + 1]
      BY <1>1, <1>2, <2>1
    <2>3. QED
      BY <1>2, <1>3, <1>5, <2>1, <2>2 DEF NoneBefore
  <1>6. QED
    BY <1>1, <1>4, <1>5, RangeOfHeadTail

\* The loop of a new connection, and the one after.
LEMMA NextLoopIs ==
  ASSUME TypeOK, Advance
  PROVE  /\ NextLoop \in Loops
         /\ next' \in 1 .. IF pool = << >> THEN 1 ELSE Len(pool)
  <1>1. CASE pool = << >>
    BY <1>1 DEF NextLoop, Loops, Advance, TypeOK
  <1>2. CASE pool # << >>
    <2>1. pool \in Seq(Range(pool)) /\ pool \in Pools
      BY TcpServerAssumption DEF TypeOK
    <2>2. Len(pool) \in Nat /\ DOMAIN pool = 1 .. Len(pool)
      BY <2>1, LenProperties
    <2>3. next \in 1 .. Len(pool)
      BY <1>2 DEF TypeOK
    <2>4. pool[next] \in Range(pool)
      BY <2>2, <2>3 DEF Range
    <2>5. Range(pool) \subseteq IoLoops
      BY <2>1 DEF IoLoops
    <2>6. next' \in 1 .. Len(pool)
      <3>1. next' = IF next = Len(pool) THEN 1 ELSE next + 1
        BY <1>2 DEF Advance
      <3> DEFINE n == Len(pool)
      <3>2. n \in Nat /\ next \in 1 .. n
        BY <2>2, <2>3
      <3> HIDE DEF n
      <3>3. next' = IF next = n THEN 1 ELSE next + 1
        BY <3>1 DEF n
      <3>4. next' \in 1 .. n
        BY <3>2, <3>3
      <3>5. QED
        BY <3>4 DEF n
    <2>7. NextLoop = pool[next]
      BY <1>2 DEF NextLoop
    <2>8. NextLoop \in Loops
      BY <2>4, <2>5, <2>7 DEF Loops
    <2>9. QED
      BY <1>2, <2>6, <2>8
  <1>3. QED
    BY <1>1, <1>2

-----------------------------------------------------------------------------
(* Types.                                                                  *)

\* The server is built with the right types.
LEMMA InitTypeOK == Init => TypeOK
  <1> SUFFICES ASSUME Init PROVE TypeOK
    OBVIOUS
  <1>1. /\ << >> \in Seq(Functors)
        /\ conn = << >> /\ conn \in Seq(Connections) /\ Len(conn) = 0
    BY EmptySeq DEF Init
  <1>2. next \in 1 .. IF pool = << >> THEN 1 ELSE Len(pool)
    <2>1. CASE pool = << >>
      BY <2>1 DEF Init
    <2>2. CASE pool # << >>
      <3>1. pool \in Seq(Range(pool))
        BY TcpServerAssumption DEF Init
      <3>2. Len(pool) \in Nat \ {0}
        BY <2>2, <3>1, EmptySeq
      <3>3. QED
        BY <2>2, <3>2 DEF Init
    <2>3. QED
      BY <2>1, <2>2
  <1>3. nextConnId \in Names
    BY TcpServerAssumption, DivMod DEF Init, Names
  <1>4. connections \in [Names -> {NoConn} \cup Conns]
    BY DEF Init
  <1>5. /\ queue \in [Loops -> Seq(Functors)]
        /\ batch \in [Loops -> Seq(Functors)]
    BY <1>1 DEF Init
  <1>6. /\ active \in [Loops -> SUBSET ({Acceptor} \cup Conns)]
        /\ held \in [Loops -> SUBSET Conns]
    BY DEF Init
  <1>7. backlog \in 0 .. MaxAccepts /\ Len(conn) <= MaxAccepts
    BY <1>1, TcpServerAssumption DEF Init
  <1>8. told \in 0 .. Len(pool)
    <2>1. pool \in Seq(Range(pool))
      BY TcpServerAssumption DEF Init
    <2>2. Len(pool) \in Nat
      BY <2>1, LenProperties
    <2>3. QED
      BY <2>2 DEF Init
  <1>9. QED
    BY <1>1, <1>2, <1>3, <1>4, <1>5, <1>6, <1>7, <1>8 DEF Init, TypeOK

\* What a loop does besides its handlers and functors.
QuietStep(l) ==
    EnterLoop(l) \/ Poll(l) \/ SwapFunctors(l) \/ EndFunctors(l)

\* What others do that move no connection, and what a user's thread does.
OtherStep ==
    \/ Start \/ UserQuits
    \/ QuitLoop \/ ServerGone \/ BaseLoopGone
    \/ PeerConnects \/ LogCloses \/ LogOpens

KeepingStep(u) ==
    \/ Take(u) \/ Drop(u)
    \/ \E step \in {"sendInLoop", "setState"} : CallTest(u, step)

\* An iteration's own steps keep the types.
LEMMA QuietTypes ==
  ASSUME TypeOK, NEW l \in Loops, QuietStep(l)
  PROVE  TypeOK'
  <1>0. << >> \in Seq(Functors)
    BY EmptySeq
  <1>1. CASE Poll(l)
    <2>1. /\ Ready(l) \subseteq {Acceptor} \cup Conns
          /\ Writable(l) \subseteq Conns
      BY DEF Ready, Writable, Registered
    <2>2. active' \in [Loops -> SUBSET ({Acceptor} \cup Conns)]
      <3>1. PICK written \in SUBSET Writable(l) :
              active' = [active EXCEPT ![l] = Ready(l) \cup written]
        BY <1>1 DEF Poll
      <3>2. Ready(l) \cup written \subseteq {Acceptor} \cup Conns
        BY <2>1
      <3>3. QED
        BY <3>1, <3>2 DEF TypeOK
    <2>3. QED
      BY <1>1, <2>2 DEF Poll, TypeOK, Conns, serverVars, poolVars, mapVars,
                        acceptVars, tcpVars
  <1>2. CASE SwapFunctors(l)
    <2>1. /\ queue' \in [Loops -> Seq(Functors)]
          /\ batch' \in [Loops -> Seq(Functors)]
      BY <1>0, <1>2 DEF SwapFunctors, TypeOK
    <2>2. QED
      BY <1>2, <2>1 DEF SwapFunctors, TypeOK, Conns, serverVars, poolVars,
                        mapVars, acceptVars, tcpVars
  <1>3. CASE EndFunctors(l)
    <2>1. queue' \in [Loops -> Seq(Functors)]
      BY <1>0, <1>3 DEF EndFunctors, TypeOK
    <2>2. held' \in [Loops -> SUBSET Conns]
      BY <1>3 DEF EndFunctors, Release, TypeOK
    <2>3. place' \in [Loops -> {"none", "starting", "poll", "events", "functors",
                                "ended"}]
      BY <1>3 DEF EndFunctors, TypeOK
    <2>4. QED
      BY <1>3, <2>1, <2>2, <2>3
         DEF EndFunctors, TypeOK, Conns, serverVars, poolVars, mapVars,
             acceptVars, tcpVars
  <1>4. CASE EnterLoop(l)
    BY <1>4 DEF EnterLoop, Entered, TypeOK, Conns, serverVars, poolVars,
                mapVars, acceptVars, tcpVars, iterVars
  <1>5. QED
    BY <1>1, <1>2, <1>3, <1>4 DEF QuietStep

\* The steps of the server's thread, the peers and the log that touch no
\* connection keep the types.
LEMMA OtherTypes ==
  ASSUME TypeOK, OtherStep
  PROVE  TypeOK'
  <1> USE DEF TypeOK, Conns, serverVars, poolVars, mapVars, acceptVars,
              tcpVars, loopVars, iterVars
  <1>1. CASE Start
    BY <1>1 DEF Start, Listen
  <1>2. Len(pool) \in Nat /\ \A i \in 1 .. Len(pool) : pool[i] \in Loops
    <2>1. pool \in Seq(Range(pool)) /\ pool \in Pools
      BY TcpServerAssumption
    <2>2. Len(pool) \in Nat /\ DOMAIN pool = 1 .. Len(pool)
      BY <2>1, LenProperties
    <2>3. Range(pool) \subseteq IoLoops
      BY <2>1 DEF IoLoops
    <2>4. QED
      BY <2>2, <2>3 DEF Range, Loops
  <1>3. CASE UserQuits
    BY <1>3 DEF UserQuits
  <1>4. CASE QuitLoop
    <2>1. /\ quit' \in [Loops -> BOOLEAN]
          /\ UNCHANGED <<poolVars, server, mapVars, acceptVars, tcpVars, place,
                         iterVars, logFile>>
      BY <1>4 DEF QuitLoop
    <2>2. told' = told + 1 /\ told < Len(pool)
      BY <1>4 DEF QuitLoop
    <2>3. told' \in 0 .. Len(pool)
      <3> DEFINE n == Len(pool)
      <3>1. n \in Nat /\ told \in 0 .. n /\ told < n
        BY <1>2, <2>2
      <3> HIDE DEF n
      <3>2. told + 1 \in 0 .. n
        BY <3>1
      <3>3. QED
        BY <2>2, <3>2 DEF n
    <2>4. QED
      BY <2>1, <2>3
  <1>5. CASE ServerGone
    BY <1>5 DEF ServerGone
  <1>6. CASE BaseLoopGone
    <2>1. << >> \in Seq(Functors)
      BY EmptySeq
    <2>2. queue' \in [Loops -> Seq(Functors)]
      BY <1>6, <2>1 DEF BaseLoopGone
    <2>3. QED
      BY <1>6, <2>2 DEF BaseLoopGone
  <1>7. CASE PeerConnects
    <2>1. backlog' \in 0 .. MaxAccepts
      <3>1. Len(conn) \in Nat
        BY ConnsAre, TcpServerAssumption
      <3>2. QED
        BY <1>7, <3>1, TcpServerAssumption DEF PeerConnects
    <2>2. QED
      BY <1>7, <2>1 DEF PeerConnects
  <1>8. CASE LogCloses
    BY <1>8 DEF LogCloses
  <1>9. CASE LogOpens
    <2>1. logFile' \in {"open", "closed", "exited"}
      BY <1>9 DEF LogOpens
    <2>2. QED
      BY <1>9, <2>1 DEF LogOpens
  <1>10. QED
    BY <1>1, <1>3, <1>4, <1>5, <1>6, <1>7, <1>8, <1>9 DEF OtherStep

\* So do the threads that take or drop a pointer, or have tested _state.
LEMMA KeepingTypes ==
  ASSUME TypeOK, NEW u \in Users, KeepingStep(u)
  PROVE  TypeOK'
  <1> DEFINE steps == {"keeps", "sendInLoop", "setState", "shutdownInLoop"}
             doings == {Outside} \cup steps \X Conns
  <1>1. user \in [Users -> doings]
    BY DEF TypeOK
  <1>2. ASSUME NEW doing \in doings, user' = [user EXCEPT ![u] = doing]
        PROVE  user' \in [Users -> doings]
    BY <1>1, <1>2
  <1>3. UNCHANGED <<serverVars, mapVars, acceptVars, conn, loopVars, logFile>>
    BY DEF KeepingStep, Take, Drop, CallTest
  <1>4. user' \in [Users -> doings]
    <2>1. CASE Take(u)
      <3>1. PICK c \in Conns : user' = [user EXCEPT ![u] = <<"keeps", c>>]
        BY <2>1 DEF Take, Registered
      <3>2. QED
        BY <1>2, <3>1
    <2>2. CASE Drop(u)
      BY <1>2, <2>2 DEF Drop
    <2>3. ASSUME NEW step \in {"sendInLoop", "setState"}, CallTest(u, step)
          PROVE  user' \in [Users -> doings]
      <3>1. /\ user[u][1] = "keeps"
            /\ user' = [user EXCEPT ![u] = <<step, user[u][2]>>]
        BY <2>3 DEF CallTest
      <3>2. user[u][2] \in Conns
        BY <1>1, <3>1 DEF Outside
      <3>3. QED
        BY <1>2, <2>3, <3>1, <3>2
    <2>4. QED
      BY <2>1, <2>2, <2>3 DEF KeepingStep
  <1>5. QED
    BY <1>3, <1>4 DEF TypeOK, Conns, serverVars, poolVars, mapVars, acceptVars,
                      loopVars, iterVars

-----------------------------------------------------------------------------
(* What the invariant says of the connections at hand.                     *)

\* A connection is alive if the map, a functor or a thread refers to it.
Referenced(c) ==
    \/ \E n \in Names : connections[n] = c
    \/ \E l \in Loops :
         \/ c \in held[l]
         \/ \E f \in Work(l) : f[2] = c /\ ~ IsRaw(f)
    \/ KeptByUser(c)

LEMMA AliveIs ==
  ASSUME TypeOK, NEW c, c # NoConn
  PROVE  c \in Alive <=> Referenced(c)
  <1>0. KeptByUser(c) => c \in Conns
    BY DEF KeptByUser, TypeOK, Outside
  <1>1. DOMAIN connections = Names
    BY DEF TypeOK
  <1>2. c \in Range(connections) <=> \E n \in Names : connections[n] = c
    BY <1>1 DEF Range
  <1>3. ASSUME NEW l \in Loops
        PROVE  c \in InFunctors(queue[l]) \cup InFunctors(batch[l])
                 <=> \E f \in Work(l) : f[2] = c /\ ~ IsRaw(f)
    BY DEF InFunctors, Work
  <1>4. c \in Alive <=>
          \/ c \in Range(connections)
          \/ \E l \in Loops :
               c \in InFunctors(queue[l]) \cup InFunctors(batch[l]) \cup held[l]
          \/ KeptByUser(c)
    BY <1>0 DEF Alive
  <1>5. QED
    BY <1>2, <1>3, <1>4 DEF Referenced

\* The same of the next state.
LEMMA AliveIsNext ==
  ASSUME NEW c, c # NoConn
  PROVE  TypeOK' => ((c \in Alive)' <=> Referenced(c)')
  <1>1. TypeOK => (c \in Alive <=> Referenced(c))
    BY AliveIs
  <1>2. QED
    BY <1>1, PTL

\* Two connections that are alive do not share a name.
LEMMA AliveNames ==
  ASSUME IInv, NEW c \in Conns, NEW d \in Conns,
         Referenced(c), Referenced(d), conn[c].name = conn[d].name
  PROVE  c = d
  <1>1. /\ c \in 1 .. Len(conn) /\ d \in 1 .. Len(conn)
        /\ Len(conn) \in Nat /\ backlog \in Nat
        /\ c # NoConn /\ d # NoConn
    BY ConnsAre, TcpServerAssumption DEF IInv, TypeOK
  <1>2. c \in Alive /\ d \in Alive
    BY <1>1, AliveIs DEF IInv
  <1>3. c % NameWidth = d % NameWidth
    BY DEF IInv, NamesFit
  <1>4. c \in 1 .. Len(conn) + backlog /\ d \in 1 .. Len(conn) + backlog
    BY <1>1
  <1>5. ~ (c < d) /\ ~ (d < c)
    BY <1>2, <1>3, <1>4 DEF IInv, OlderAreDead
  <1>6. QED
    BY <1>1, <1>5

\* A connection whose event is handled is up or was registered again, whatever
\* was done meanwhile.
LEMMA ActiveIs ==
  ASSUME IInv, NEW l \in Loops, NEW c \in active[l] \ {Acceptor}
  PROVE  /\ c \in Conns
         /\ c # NoConn
         /\ conn[c] \in Connections
         /\ conn[c].loop = l
         /\ place[l] = "events"
         /\ Up(conn[c]) \/ Revived(conn[c])
         /\ Up(conn[c]) => Referenced(c)
  <1>1. c \in Conns /\ c # NoConn /\ conn[c] \in Connections
    BY ConnsAre DEF IInv, TypeOK, Acceptor, NoConn
  <1>2. conn[c].loop = l /\ conn[c].index = "kAdded" /\ place[l] = "events"
    BY DEF IInv, LoopsFit
  <1>3. Up(conn[c]) \/ Revived(conn[c])
    BY <1>1, <1>2, StagesDiffer DEF IInv, ConnsFit, ConnFits, StageFits
  <1>4. ASSUME Up(conn[c]) PROVE Referenced(c)
    <2>1. InMap(c) \/ OnItsWay(c)
      BY <1>1, <1>2, <1>4 DEF IInv, ConnsFit, ConnFits, KeptUntilFinished
    <2>2. conn[c].name \in Names /\ conn[c].loop \in Loops
      BY <1>1 DEF Connections
    <2>3. QED
      BY <2>1, <2>2 DEF Referenced, InMap, OnItsWay, IsRaw
  <1>5. QED
    BY <1>1, <1>2, <1>3, <1>4

\* What threads keep is there, and was established.
LEMMA KeptIs ==
  ASSUME IInv, NEW u \in Users, user[u][2] # NoConn
  PROVE  LET c == user[u][2]
         IN  /\ c \in Conns
             /\ conn[c] \in Connections
             /\ Staged(conn[c])
             /\ ~ Building(conn[c])
             /\ Referenced(c)
  <1> DEFINE c == user[u][2]
  <1>1. c \in Conns /\ ~ Building(conn[c])
    BY DEF IInv, UsersFit
  <1>2. Referenced(c)
    BY DEF Referenced, KeptByUser
  <1>3. Staged(conn[c])
    BY <1>1 DEF IInv, ConnsFit, ConnFits, StageFits, Staged
  <1>4. QED
    BY <1>1, <1>2, <1>3, ConnsAre DEF IInv

\* The functor that is run next is one of the loop's, and fits.
LEMMA HeadIs ==
  ASSUME IInv, NEW l \in Loops, batch[l] # << >>
  PROVE  LET f == Head(batch[l])
         IN  /\ f \in Functors
             /\ f \in Work(l)
             /\ FunctorFits(l, f)
             /\ Referenced(f[2])
             /\ Tail(batch[l]) \in Seq(Functors)
             /\ Range(batch[l]) = {f} \cup Range(Tail(batch[l]))
             /\ NoneBefore(Tail(batch[l]))
             /\ \A g \in Range(queue[l]) \cup Range(Tail(batch[l])) :
                  IsEstablish(g) => g[2] # f[2]
  <1> DEFINE f == Head(batch[l])
  <1>1. batch[l] \in Seq(Functors)
    BY DEF IInv, TypeOK
  <1>2. NoneBefore(batch[l])
    BY DEF IInv, EstablishedFirst
  <1>3. /\ f \in Functors
        /\ Tail(batch[l]) \in Seq(Functors)
        /\ Range(batch[l]) = {f} \cup Range(Tail(batch[l]))
        /\ NoneBefore(Tail(batch[l]))
        /\ \A g \in Range(Tail(batch[l])) : IsEstablish(g) => g[2] # f[2]
    BY <1>1, <1>2, Dequeued
  <1> HIDE DEF f
  <1>4. f \in Work(l) /\ f[2] \in About(batch[l])
    BY <1>3 DEF Work, About
  <1>5. \A g \in Range(queue[l]) : IsEstablish(g) => g[2] # f[2]
    BY <1>4 DEF IInv, EstablishedFirst
  <1>6. FunctorFits(l, f)
    BY <1>4 DEF IInv, FunctorsFit
  <1>7. Referenced(f[2])
    BY <1>4, <1>6 DEF Referenced, FunctorFits
  <1>8. QED
    BY <1>3, <1>4, <1>5, <1>6, <1>7 DEF f

-----------------------------------------------------------------------------
(* A step about one connection.                                            *)

\* Only c changes, and keeps its name and its loop.
OnlyConn(c) ==
    /\ conn' \in Seq(Connections)
    /\ Len(conn') = Len(conn)
    /\ Conns' = Conns
    /\ \A d \in Conns \ {c} : conn'[d] = conn[d]
    /\ conn'[c].name = conn[c].name
    /\ conn'[c].loop = conn[c].loop

\* The map forgets c.
Forgotten(c) ==
    connections' = [connections EXCEPT ![conn[c].name] = NoConn]

\* What becomes of the functors of loop k.
FunctorsMove(c, k) ==
    /\ NoneBefore(queue'[k])
    /\ NoneBefore(batch'[k])
    /\ batch'[k] # << >> => batch[k] # << >>
    /\ Range(batch'[k]) \subseteq Range(batch[k])
    /\ \A f \in Range(queue'[k]) :
         f \in Range(queue[k]) \/ (f[2] = c /\ ~ IsEstablish(f))
    /\ \A f \in Work(k) : f[2] # c => f \in Work(k)'

\* Every thread keeps the connection that it kept.
SameKept == \A u \in Users : user'[u][2] = user[u][2]

\* A step after which connections other than c are as before.
AboutOne(c) ==
    /\ OnlyConn(c)
    /\ connections' = connections \/ Forgotten(c)
    /\ UNCHANGED <<nextConnId, backlog, server, pool, place>>
    /\ SameKept
    /\ \A k \in Loops :
         /\ active'[k] \subseteq active[k]
         /\ c \in active'[k] => conn'[c].index = conn[c].index
         /\ held'[k] \subseteq held[k] \cup {c}
         /\ FunctorsMove(c, k)

\* What it must still see to for c itself.
FitsItself(c) ==
    /\ ConnFits(c)
    /\ \A k \in Loops : \A f \in Work(k) : f[2] = c => FunctorFits(k, f)

\* Nothing happens to a connection but that its peer leaves.
SameStage(c) ==
    /\ conn'[c].state = conn[c].state
    /\ conn'[c].index = conn[c].index
    /\ conn'[c].callbacks = conn[c].callbacks
    /\ conn'[c].revived = conn[c].revived

\* Things happen to a connection while somebody refers to it, and nobody does
\* again.
Ages(c) ==
    /\ conn'[c].loop = conn[c].loop
    /\ conn[c].revived => conn'[c].revived
    /\ \/ conn'[c].callbacks = conn[c].callbacks
       \/ Referenced(c) /\ Lives(conn[c], conn'[c])
    /\ Referenced(c)' => Referenced(c)

IsNew(c) == Referenced(c) /\ (Building(conn[c]) \/ Up(conn[c]))

\* What every step does to the lives of the connections.
AllAge ==
    /\ Conns \subseteq Conns'
    /\ \A c \in Conns : Ages(c)
    /\ \A c \in Conns' \ Conns : IsNew(c)'
    /\ \A l \in Loops : place[l] = "ended" => place'[l] = "ended"

\* Nobody comes to life in such a step.
LEMMA AboutOneAlive ==
  ASSUME IInv, NEW c \in Conns, Referenced(c), AboutOne(c),
         NEW d \in Conns, Referenced(d)'
  PROVE  Referenced(d)
  <1>1. CASE \E n \in Names : connections'[n] = d
    <2>1. d # NoConn /\ conn[c].name \in Names
      BY ConnsAre DEF IInv, Connections
    <2>2. \E n \in Names : connections[n] = d
      BY <1>1, <2>1 DEF AboutOne, Forgotten, IInv, TypeOK
    <2>3. QED
      BY <2>2 DEF Referenced
  <1>2. CASE \E l \in Loops : d \in held'[l]
    BY <1>2 DEF AboutOne, Referenced
  <1>3. CASE \E l \in Loops : \E f \in Work(l)' : f[2] = d /\ ~ IsRaw(f)
    <2>1. PICK l \in Loops : \E f \in Work(l)' : f[2] = d /\ ~ IsRaw(f)
      BY <1>3
    <2>2. PICK f \in Work(l)' : f[2] = d /\ ~ IsRaw(f)
      BY <2>1
    <2>3. f \in Work(l) \/ f[2] = c
      BY <2>2 DEF AboutOne, FunctorsMove, Work
    <2>4. QED
      BY <2>2, <2>3 DEF Referenced
  <1>4. KeptByUser(d)' => KeptByUser(d)
    BY DEF AboutOne, SameKept, KeptByUser
  <1>5. QED
    BY <1>1, <1>2, <1>3, <1>4 DEF Referenced

\* The older of two with one name stay dead when none is added and nobody
\* comes to life.
LEMMA StillDead ==
  ASSUME IInv, TypeOK', Conns' = Conns, Len(conn') = Len(conn),
         backlog' <= backlog,
         \A d \in Conns : Referenced(d)' => Referenced(d)
  PROVE  OlderAreDead'
  <1>1. /\ NoConn \notin Conns
        /\ Len(conn) \in Nat /\ backlog \in Nat /\ backlog' \in Nat
    BY ConnsAre, TcpServerAssumption DEF IInv, TypeOK
  <1>2. \A d \in Conns : d \in Alive' => d \in Alive
    BY <1>1, AliveIs, AliveIsNext DEF IInv
  <1>3. 1 .. Len(conn') + backlog' \subseteq 1 .. Len(conn) + backlog
    BY <1>1
  <1>4. QED
    BY <1>2, <1>3 DEF IInv, OlderAreDead

\* The other connections fit as before: no two that are alive share a name.
LEMMA OthersFit ==
  ASSUME IInv, NEW c \in Conns, Referenced(c), AboutOne(c),
         NEW d \in Conns, d # c
  PROVE  ConnFits(d)'
  <1>1. /\ conn'[d] = conn[d]
        /\ place' = place
        /\ conn[d] \in Connections
    BY ConnsAre DEF AboutOne, OnlyConn, IInv
  <1>2. conn[d].loop \in Loops /\ conn[d].name \in Names
    BY <1>1 DEF Connections
  <1>3. \A l \in Loops : \A f \in Work(l) : f[2] = d => f \in Work(l)'
    BY DEF AboutOne, FunctorsMove
  <1>4. InMap(d) => InMap(d)'
    <2>1. CASE connections' = connections
      BY <1>1, <2>1 DEF InMap
    <2>2. CASE Forgotten(c)
      <3>1. ASSUME InMap(d) PROVE conn[c].name # conn[d].name
        <4>1. Referenced(d)
          BY <1>2, <3>1 DEF Referenced, InMap
        <4>2. QED
          BY <4>1, AliveNames
      <3>2. InMap(d) => connections'[conn[d].name] = d
        BY <1>2, <2>2, <3>1 DEF Forgotten, InMap, IInv, TypeOK
      <3>3. QED
        BY <1>1, <3>2 DEF InMap
    <2>3. QED
      BY <2>1, <2>2 DEF AboutOne
  <1>5. OnItsWay(d) => OnItsWay(d)'
    <2>1. <<"connectDestroyed", d>>[2] = d
      OBVIOUS
    <2>2. QED
      BY <1>1, <1>2, <1>3, <2>1 DEF OnItsWay
  <1>6. ConnFits(d)
    BY DEF IInv, ConnsFit
  <1>7. StageFits(d)'
    BY <1>1, <1>6 DEF ConnFits, StageFits
  <1>8. EstablishQueued(d)'
    <2>1. <<"connectEstablished", d>>[2] = d
      OBVIOUS
    <2>2. QED
      BY <1>1, <1>2, <1>3, <1>6, <2>1 DEF ConnFits, EstablishQueued
  <1>9. KeptUntilFinished(d)'
    BY <1>1, <1>4, <1>5, <1>6 DEF ConnFits, KeptUntilFinished
  <1>10. KnownUntilDown(d)'
    BY <1>1, <1>4, <1>6 DEF ConnFits, KnownUntilDown
  <1>11. QED
    BY <1>7, <1>8, <1>9, <1>10 DEF ConnFits

\* The functors about others fit as before.
LEMMA OtherFunctorsFit ==
  ASSUME IInv, NEW c \in Conns, AboutOne(c),
         NEW l \in Loops, NEW f \in Work(l)', f[2] # c
  PROVE  FunctorFits(l, f)'
  <1>1. f \in Work(l)
    BY DEF AboutOne, FunctorsMove, Work
  <1>2. FunctorFits(l, f)
    BY <1>1 DEF IInv, FunctorsFit
  <1>3. f[2] \in Conns /\ conn'[f[2]] = conn[f[2]] /\ Conns' = Conns
    BY <1>2 DEF FunctorFits, AboutOne, OnlyConn
  <1>4. KeptByUser(f[2]) => KeptByUser(f[2])'
    BY DEF AboutOne, SameKept, KeptByUser
  <1>5. place' = place
    BY DEF AboutOne
  <1>6. QED
    BY <1>2, <1>3, <1>4, <1>5 DEF FunctorFits

\* Such a step keeps the invariant, if it sees to c.
LEMMA AboutOneKeeps ==
  ASSUME IInv, TypeOK', NEW c \in Conns, Referenced(c), AboutOne(c),
         FitsItself(c)', Keeps(conn[c], conn'[c]),
         Building(conn'[c]) => Building(conn[c])
  PROVE  IInv' /\ AllAge
  <1>1. /\ Conns' = Conns
        /\ Len(conn') = Len(conn)
        /\ \A d \in Conns \ {c} : conn'[d] = conn[d]
        /\ conn'[c].name = conn[c].name
        /\ conn'[c].loop = conn[c].loop
        /\ nextConnId' = nextConnId
        /\ backlog' = backlog
        /\ server' = server
        /\ pool' = pool
        /\ place' = place
    BY DEF AboutOne, OnlyConn
  <1>2. ConnsFit'
    BY <1>1, OthersFit DEF ConnsFit, FitsItself
  <1>3. FunctorsFit'
    BY OtherFunctorsFit DEF FunctorsFit, FitsItself
  <1>4. EstablishedFirst'
    <2> SUFFICES ASSUME NEW k \in Loops, NEW f \in Range(queue'[k]),
                        IsEstablish(f)
                 PROVE  f[2] \notin About(batch'[k])
      BY DEF EstablishedFirst, AboutOne, FunctorsMove
    <2>1. f \in Range(queue[k]) /\ Range(batch'[k]) \subseteq Range(batch[k])
      BY DEF AboutOne, FunctorsMove
    <2>2. f[2] \notin About(batch[k])
      BY <2>1 DEF IInv, EstablishedFirst
    <2>3. QED
      BY <2>1, <2>2 DEF About
  <1>5. NamesFit'
    <2>1. \A d \in Conns : conn'[d].name = conn[d].name
      BY <1>1
    <2>2. ASSUME NEW n \in Names, connections'[n] # NoConn
          PROVE  connections[n] = connections'[n] /\ connections[n] \in Conns
      <3>1. conn[c].name \in Names
        BY ConnsAre DEF IInv, Connections
      <3>2. QED
        BY <2>2, <3>1 DEF AboutOne, Forgotten, IInv, TypeOK
    <2>3. QED
      BY <1>1, <2>1, <2>2 DEF IInv, NamesFit
  <1>6. BacklogFits' /\ ServerFits'
    BY <1>1 DEF IInv, BacklogFits, ServerFits, IsRunning
  <1>7. LoopsFit'
    <2> SUFFICES ASSUME NEW l \in Loops
                 PROVE  /\ active'[l] # {} => place'[l] = "events"
                        /\ batch'[l] # << >> => place'[l] = "functors"
                        /\ Acceptor \in active'[l] =>
                             l = BaseLoop /\ backlog' > 0
                        /\ \A d \in active'[l] \ {Acceptor} :
                             conn'[d].loop = l /\ conn'[d].index = "kAdded"
      BY DEF LoopsFit
    <2>1. /\ active'[l] \subseteq active[l]
          /\ c \in active'[l] => conn'[c].index = conn[c].index
          /\ batch'[l] # << >> => batch[l] # << >>
      BY DEF AboutOne, FunctorsMove
    <2>2. active[l] \subseteq {Acceptor} \cup Conns
      BY DEF IInv, TypeOK
    <2>3. QED
      BY <1>1, <2>1, <2>2 DEF IInv, LoopsFit
  <1>8. OlderAreDead'
    <2>1. backlog' <= backlog
      BY <1>1 DEF IInv, TypeOK
    <2>2. QED
      BY <1>1, <2>1, AboutOneAlive, StillDead
  <1>9. UsersFit'
    <2>1. \A d \in Conns : Building(conn'[d]) => Building(conn[d])
      BY <1>1
    <2>2. QED
      BY <1>1, <2>1 DEF IInv, UsersFit, AboutOne, SameKept
  <1>10. AllAge
    <2>1. \A d \in Conns \ {c} : Ages(d)
      BY <1>1, AboutOneAlive DEF Ages
    <2>2. Ages(c)
      BY <1>1, AboutOneAlive DEF Ages, Keeps
    <2>3. QED
      BY <1>1, <2>1, <2>2 DEF AllAge
  <1>11. QED
    BY <1>2, <1>3, <1>4, <1>5, <1>6, <1>7, <1>8, <1>9, <1>10 DEF IInv

-----------------------------------------------------------------------------
(* The steps about one connection.                                         *)

\* Queueing a functor about c moves nothing else.
LEMMA QueueMoves ==
  ASSUME IInv, NEW l \in Loops, NEW c \in Conns,
         NEW kind \in Kinds \ {"connectEstablished"},
         Queue(l, <<kind, c>>), batch' = batch
  PROVE  /\ queue' \in [Loops -> Seq(Functors)]
         /\ \A k \in Loops : FunctorsMove(c, k)
         /\ \A k \in Loops \ {l} : Work(k)' = Work(k)
         /\ Work(l)' = Work(l) \cup {<<kind, c>>}
  <1> DEFINE f == <<kind, c>>
  <1>1. c \in 1 .. MaxAccepts
    BY ConnsAre, TcpServerAssumption DEF IInv
  <1>2. f \in Functors /\ f[2] = c /\ ~ IsEstablish(f)
    BY <1>1, FunctorTyped DEF IInv, IsEstablish
  <1> HIDE DEF f
  <1>3. /\ queue' \in [Loops -> Seq(Functors)]
        /\ \A k \in Loops \ {l} : queue'[k] = queue[k]
        /\ Range(queue'[l]) = Range(queue[l]) \cup {f}
        /\ NoneBefore(queue[l]) => NoneBefore(queue'[l])
    BY <1>2, Enqueued DEF IInv, f
  <1>4. \A k \in Loops : NoneBefore(queue'[k]) /\ NoneBefore(batch'[k])
    BY <1>3 DEF IInv, EstablishedFirst
  <1>5. \A k \in Loops \ {l} : Work(k)' = Work(k)
    BY <1>3 DEF Work
  <1>6. Work(l)' = Work(l) \cup {f}
    BY <1>3 DEF Work
  <1>7. ASSUME NEW k \in Loops PROVE FunctorsMove(c, k)
    <2>1. Work(k) \subseteq Work(k)'
      BY <1>5, <1>6
    <2>2. Range(queue'[k]) \subseteq Range(queue[k]) \cup {f}
      BY <1>3
    <2>3. QED
      BY <1>2, <1>4, <2>1, <2>2 DEF FunctorsMove
  <1>8. QED
    BY <1>3, <1>5, <1>6, <1>7 DEF f

\* The functors about c that were there fit c as it is now.
LEMMA OwnFunctorsFit ==
  ASSUME IInv, NEW c \in Conns, OnlyConn(c), SameKept, place' = place,
         ~ Building(conn[c]), Told(conn[c]) => Told(conn'[c]),
         NEW l \in Loops, NEW f \in Work(l), f[2] = c
  PROVE  FunctorFits(l, f)'
  <1>1. FunctorFits(l, f)
    BY DEF IInv, FunctorsFit
  <1>2. ~ IsEstablish(f)
    BY <1>1 DEF FunctorFits
  <1>3. KeptByUser(c) => KeptByUser(c)'
    BY DEF SameKept, KeptByUser
  <1>4. conn'[c].loop = conn[c].loop /\ Conns' = Conns
    BY DEF OnlyConn
  <1>5. QED
    BY <1>1, <1>2, <1>3, <1>4 DEF FunctorFits

\* What is only called on a connection keeps all that is said of it.
LEMMA CallKeeps ==
  ASSUME IInv, TypeOK', NEW c \in Conns, Referenced(c), AboutOne(c),
         ~ Building(conn[c]), KeepsStage(conn[c], conn'[c]),
         connections' = connections,
         OnItsWay(c) => OnItsWay(c)',
         \A k \in Loops : \A f \in Work(k)' :
           \/ f \in Work(k)
           \/ IsRaw(f) /\ f[2] = c /\ k = conn[c].loop /\ KeptByUser(c)
  PROVE  IInv' /\ AllAge
  <1>1. /\ OnlyConn(c)
        /\ SameKept
        /\ place' = place
    BY DEF AboutOne
  <1>2. /\ Conns' = Conns
        /\ conn'[c].name = conn[c].name
        /\ conn'[c].loop = conn[c].loop
    BY <1>1 DEF OnlyConn
  <1>3. /\ Keeps(conn[c], conn'[c])
        /\ Staged(conn'[c])
        /\ ~ Building(conn'[c])
        /\ Up(conn'[c]) <=> Up(conn[c])
        /\ Closing(conn'[c]) => Closing(conn[c])
        /\ conn'[c].callbacks = conn[c].callbacks
    BY DEF KeepsStage
  <1>4. ConnFits(c)
    BY DEF IInv, ConnsFit
  <1>5. InMap(c) => InMap(c)'
    BY <1>2 DEF InMap
  <1>6. StageFits(c)'
    <2>1. ASSUME Finished(conn'[c]) \/ Revived(conn'[c])
          PROVE  Told(conn'[c]) \/ place[BaseLoop] = "ended"
      <3>1. ~ Up(conn[c])
        BY <1>3, <2>1, StagesDiffer
      <3>2. Told(conn[c]) \/ place[BaseLoop] = "ended"
        BY <1>4, <3>1, StagesDiffer DEF ConnFits, StageFits
      <3>3. QED
        BY <1>3, <3>2 DEF Keeps
    <2>2. QED
      BY <1>1, <1>3, <2>1 DEF StageFits, Staged
  <1>7. EstablishQueued(c)'
    BY <1>3 DEF EstablishQueued
  <1>8. KeptUntilFinished(c)'
    BY <1>1, <1>2, <1>3, <1>4, <1>5 DEF ConnFits, KeptUntilFinished
  <1>9. KnownUntilDown(c)'
    BY <1>1, <1>2, <1>3, <1>4, <1>5 DEF ConnFits, KnownUntilDown
  <1>10. ASSUME NEW k \in Loops, NEW f \in Work(k)', f[2] = c
         PROVE  FunctorFits(k, f)'
    <2>1. CASE f \in Work(k)
      BY <1>1, <1>3, <1>10, <2>1, OwnFunctorsFit DEF Keeps
    <2>2. CASE IsRaw(f) /\ k = conn[c].loop /\ KeptByUser(c)
      <3>1. KeptByUser(c)'
        BY <1>1, <2>2 DEF SameKept, KeptByUser
      <3>2. f[1] \in {"sendInLoop", "shutdownInLoop"}
        BY <2>2 DEF IsRaw
      <3>3. QED
        BY <1>2, <1>10, <2>2, <3>1, <3>2 DEF FunctorFits, IsEstablish
    <2>3. QED
      BY <1>10, <2>1, <2>2
  <1>11. FitsItself(c)'
    BY <1>6, <1>7, <1>8, <1>9, <1>10 DEF FitsItself, ConnFits
  <1>12. QED
    BY <1>3, <1>11, AboutOneKeeps

\* The event of a connection is handled.
ConnectionEvent(l, c) ==
    /\ c \in active[l] \ {Acceptor}
    /\ c \in Alive
    /\ active' = [active EXCEPT ![l] = @ \ {c}]
    /\ UNCHANGED <<pool, maxFds, server, told, acceptIndex, user, place, quit,
                   batch, held, logFile>>

CloseStep(l, c) == ConnectionEvent(l, c) /\ HandleClose(c, l)

\* It is in hand no more, and those that are keep theirs.
LEMMA ConnectionEventIs ==
  ASSUME IInv, NEW l \in Loops, NEW c, ConnectionEvent(l, c)
  PROVE  /\ c \in Conns
         /\ conn[c] \in Connections
         /\ conn[c].loop = l
         /\ place[l] = "events"
         /\ Up(conn[c]) \/ Revived(conn[c])
         /\ Referenced(c)
         /\ active' \in [Loops -> SUBSET ({Acceptor} \cup Conns)]
         /\ \A k \in Loops : active'[k] \subseteq active[k] \ {c}
         /\ SameKept
  <1>1. c \in active[l] \ {Acceptor}
    BY DEF ConnectionEvent
  <1>2. /\ c \in Conns
        /\ c # NoConn
        /\ conn[c] \in Connections
        /\ conn[c].loop = l
        /\ place[l] = "events"
        /\ Up(conn[c]) \/ Revived(conn[c])
    BY <1>1, ActiveIs
  <1>3. Referenced(c)
    BY <1>2, AliveIs DEF ConnectionEvent, IInv
  <1>4. /\ active' \in [Loops -> SUBSET ({Acceptor} \cup Conns)]
        /\ \A k \in Loops : active'[k] \subseteq active[k]
        /\ c \notin active'[l]
    BY DEF ConnectionEvent, IInv, TypeOK
  <1>5. \A k \in Loops : c \in active[k] => k = l
    BY <1>1, <1>2 DEF IInv, LoopsFit
  <1>6. SameKept
    BY DEF ConnectionEvent, SameKept
  <1>7. QED
    BY <1>2, <1>3, <1>4, <1>5, <1>6

\* What handleClose does to the connection.
LEMMA CloseMoves ==
  ASSUME IInv, NEW l \in Loops, NEW c, CloseStep(l, c)
  PROVE  /\ OnlyConn(c)
         /\ Keeps(conn[c], conn'[c])
         /\ Told(conn'[c])
         /\ Up(conn[c]) => Closing(conn'[c])
         /\ Revived(conn[c]) => Revived(conn'[c])
  <1>1. /\ c \in Conns
        /\ conn[c] \in Connections
        /\ Up(conn[c]) \/ Revived(conn[c])
    BY ConnectionEventIs DEF CloseStep
  <1>2. /\ Keeps(conn[c], Closed(conn[c]))
        /\ Told(Closed(conn[c]))
        /\ Up(conn[c]) => Closing(Closed(conn[c]))
        /\ Revived(conn[c]) => Revived(Closed(conn[c]))
    BY <1>1, ClosedIs
  <1>3. conn' = [conn EXCEPT ![c] = Closed(conn[c])]
    BY DEF CloseStep, HandleClose
  <1>4. OnlyConn(c) /\ conn'[c] = Closed(conn[c])
    BY <1>1, <1>2, <1>3, ConnChanges DEF IInv, OnlyConn, Keeps
  <1>5. QED
    BY <1>2, <1>4

\* A connection of the server's loop is taken from the map at once, and will
\* be destroyed from the queue.
LEMMA CloseInBaseKeeps ==
  ASSUME IInv, NEW c, CloseStep(BaseLoop, c)
  PROVE  IInv' /\ AllAge
  <1> DEFINE f == <<"connectDestroyed", c>>
  <1>0. BaseLoop \in Loops
    BY DEF Loops
  <1>1. /\ c \in Conns
        /\ Up(conn[c]) \/ Revived(conn[c])
        /\ conn[c].loop = BaseLoop
        /\ Referenced(c)
        /\ active' \in [Loops -> SUBSET ({Acceptor} \cup Conns)]
        /\ \A k \in Loops : active'[k] \subseteq active[k] \ {c}
        /\ SameKept
    BY <1>0, ConnectionEventIs DEF CloseStep
  <1>2. /\ OnlyConn(c)
        /\ Keeps(conn[c], conn'[c])
        /\ Told(conn'[c])
        /\ Closing(conn'[c]) \/ Revived(conn'[c])
    BY <1>0, <1>1, CloseMoves
  <1>3. Forgotten(c) /\ Queue(BaseLoop, f)
    BY <1>1 DEF CloseStep, HandleClose, RemoveConnectionInLoop, Forgotten,
                DestroysInLoop
  <1>4. /\ queue' \in [Loops -> Seq(Functors)]
        /\ \A k \in Loops : FunctorsMove(c, k)
        /\ \A k \in Loops \ {BaseLoop} : Work(k)' = Work(k)
        /\ Work(BaseLoop)' = Work(BaseLoop) \cup {f}
    BY <1>0, <1>1, <1>3, QueueMoves DEF CloseStep, ConnectionEvent, Kinds
  <1>5. f[2] = c /\ f[1] = "connectDestroyed" /\ ~ IsEstablish(f)
    BY DEF IsEstablish
  <1> HIDE DEF f
  <1>6. AboutOne(c)
    BY <1>1, <1>2, <1>3, <1>4
       DEF AboutOne, CloseStep, ConnectionEvent, HandleClose
  <1>7. conn'[c].loop = BaseLoop /\ Conns' = Conns /\ place' = place
    BY <1>1, <1>2 DEF OnlyConn, CloseStep, ConnectionEvent
  <1>8. ConnFits(c)'
    <2>1. StageFits(c)' /\ EstablishQueued(c)' /\ KnownUntilDown(c)'
      BY <1>2, StagesDiffer DEF StageFits, EstablishQueued, KnownUntilDown
    <2>2. OnItsWay(c)'
      BY <1>4, <1>7 DEF OnItsWay, f
    <2>3. QED
      BY <2>1, <2>2 DEF ConnFits, KeptUntilFinished
  <1>9. ASSUME NEW k \in Loops, NEW g \in Work(k)', g[2] = c
        PROVE  FunctorFits(k, g)'
    <2>1. CASE g \in Work(k)
      BY <1>1, <1>2, <1>7, <1>9, <2>1, OwnFunctorsFit, StagesDiffer
    <2>2. CASE g = f /\ k = BaseLoop
      BY <1>1, <1>2, <1>5, <1>7, <2>2 DEF FunctorFits, IsRaw
    <2>3. QED
      BY <1>4, <1>9, <2>1, <2>2
  <1>10. FitsItself(c)'
    BY <1>8, <1>9 DEF FitsItself
  <1>11. TypeOK'
    <2>1. conn[c].name \in Names
      BY <1>1, ConnsAre DEF IInv, Connections
    <2>2. connections' \in [Names -> {NoConn} \cup Conns]
      BY <1>3, <2>1 DEF Forgotten, IInv, TypeOK
    <2>3. QED
      BY <1>1, <1>2, <1>4, <2>2
         DEF TypeOK, IInv, OnlyConn, CloseStep, ConnectionEvent, HandleClose
  <1>12. QED
    BY <1>1, <1>2, <1>6, <1>10, <1>11, AboutOneKeeps, StagesDiffer

\* A connection of the pool asks the server to remove it, and is kept by
\* whatever kept it.
LEMMA CloseInPoolKeeps ==
  ASSUME IInv, NEW l \in Loops \ {BaseLoop}, NEW c, CloseStep(l, c)
  PROVE  IInv' /\ AllAge
  <1> DEFINE f == <<"removeConnectionInLoop", c>>
  <1>0. BaseLoop \in Loops
    BY DEF Loops
  <1>1. /\ c \in Conns
        /\ Up(conn[c]) \/ Revived(conn[c])
        /\ conn[c].loop = l
        /\ place[l] = "events"
        /\ Referenced(c)
        /\ active' \in [Loops -> SUBSET ({Acceptor} \cup Conns)]
        /\ \A k \in Loops : active'[k] \subseteq active[k] \ {c}
        /\ SameKept
    BY ConnectionEventIs DEF CloseStep
  <1>2. /\ OnlyConn(c)
        /\ Keeps(conn[c], conn'[c])
        /\ Told(conn'[c])
        /\ Closing(conn'[c]) \/ Revived(conn'[c])
        /\ Revived(conn[c]) => Revived(conn'[c])
    BY <1>1, CloseMoves
  <1>3. connections' = connections /\ Queue(BaseLoop, f)
    BY DEF CloseStep, HandleClose
  <1>4. /\ queue' \in [Loops -> Seq(Functors)]
        /\ \A k \in Loops : FunctorsMove(c, k)
        /\ \A k \in Loops \ {BaseLoop} : Work(k)' = Work(k)
        /\ Work(BaseLoop)' = Work(BaseLoop) \cup {f}
    BY <1>0, <1>1, <1>3, QueueMoves DEF CloseStep, ConnectionEvent, Kinds
  <1>5. f[2] = c /\ f[1] = "removeConnectionInLoop" /\ ~ IsEstablish(f)
    BY DEF IsEstablish
  <1> HIDE DEF f
  <1>6. AboutOne(c)
    BY <1>1, <1>2, <1>3, <1>4
       DEF AboutOne, CloseStep, ConnectionEvent, HandleClose
  <1>7. /\ conn'[c].loop = l
        /\ conn'[c].name = conn[c].name
        /\ Conns' = Conns
        /\ place' = place
    BY <1>1, <1>2 DEF OnlyConn, CloseStep, ConnectionEvent
  <1>8. ConnFits(c)'
    <2>1. StageFits(c)' /\ EstablishQueued(c)' /\ KnownUntilDown(c)'
      BY <1>2, StagesDiffer DEF StageFits, EstablishQueued, KnownUntilDown
    <2>2. Up(conn[c]) => InMap(c) \/ OnItsWay(c)
      BY <1>1, StagesDiffer DEF IInv, ConnsFit, ConnFits, KeptUntilFinished
    <2>3. Up(conn[c]) => InMap(c)' \/ OnItsWay(c)'
      BY <1>1, <1>3, <1>4, <1>7, <2>2 DEF InMap, OnItsWay
    <2>4. KeptUntilFinished(c)'
      BY <1>1, <1>2, <2>3, StagesDiffer DEF KeptUntilFinished
    <2>5. QED
      BY <2>1, <2>4 DEF ConnFits
  <1>9. ASSUME NEW k \in Loops, NEW g \in Work(k)', g[2] = c
        PROVE  FunctorFits(k, g)'
    <2>1. CASE g \in Work(k)
      BY <1>1, <1>2, <1>7, <1>9, <2>1, OwnFunctorsFit, StagesDiffer
    <2>2. CASE g = f
      BY <1>1, <1>2, <1>5, <1>7, <2>2 DEF FunctorFits, IsRaw
    <2>3. QED
      BY <1>4, <1>9, <2>1, <2>2
  <1>10. FitsItself(c)'
    BY <1>8, <1>9 DEF FitsItself
  <1>11. TypeOK'
    BY <1>1, <1>2, <1>3, <1>4
       DEF TypeOK, IInv, OnlyConn, CloseStep, ConnectionEvent, HandleClose
  <1>12. QED
    BY <1>1, <1>2, <1>6, <1>10, <1>11, AboutOneKeeps, StagesDiffer

\* A functor leaves the batch: the rest of the queues stay, and it keeps its
\* connection until the batch is done.
LEMMA RunMoves ==
  ASSUME IInv, NEW l \in Loops, RunFunctor(l), NEW f, f = Head(batch[l])
  PROVE  /\ batch' \in [Loops -> Seq(Functors)]
         /\ \A k \in Loops \ {l} : batch'[k] = batch[k]
         /\ Range(batch[l]) = {f} \cup Range(batch'[l])
         /\ \A k \in Loops : /\ NoneBefore(batch'[k])
                             /\ batch'[k] # << >> => batch[k] # << >>
                             /\ Range(batch'[k]) \subseteq Range(batch[k])
         /\ held' \in [Loops -> SUBSET Conns]
         /\ \A k \in Loops : held'[k] \subseteq held[k] \cup {f[2]}
         /\ f[2] \in Conns
  <1>1. batch[l] # << >>
    BY DEF RunFunctor
  <1>2. /\ f \in Functors
        /\ FunctorFits(l, f)
        /\ Tail(batch[l]) \in Seq(Functors)
        /\ Range(batch[l]) = {f} \cup Range(Tail(batch[l]))
        /\ NoneBefore(Tail(batch[l]))
    BY <1>1, HeadIs
  <1>3. /\ batch' = [batch EXCEPT ![l] = Tail(batch[l])]
        /\ held' = [held EXCEPT ![l] = @ \cup InFunctors(<<f>>)]
        /\ InFunctors(<<f>>) \subseteq {f[2]}
    BY DEF RunFunctor, InFunctors, Range
  <1>4. f[2] \in Conns
    BY <1>2 DEF FunctorFits
  <1>5. /\ batch' \in [Loops -> Seq(Functors)]
        /\ \A k \in Loops \ {l} : batch'[k] = batch[k]
        /\ batch'[l] = Tail(batch[l])
    BY <1>2, <1>3 DEF IInv, TypeOK
  <1>6. \A k \in Loops : /\ NoneBefore(batch'[k])
                         /\ batch'[k] # << >> => batch[k] # << >>
                         /\ Range(batch'[k]) \subseteq Range(batch[k])
    BY <1>1, <1>2, <1>5 DEF IInv, EstablishedFirst
  <1>7. /\ held' \in [Loops -> SUBSET Conns]
        /\ \A k \in Loops : held'[k] \subseteq held[k] \cup {f[2]}
    BY <1>3, <1>4 DEF IInv, TypeOK
  <1>8. QED
    BY <1>2, <1>4, <1>5, <1>6, <1>7

\* connectEstablished, connectDestroyed, sendInLoop: one connection changes,
\* in its own loop, and nothing is queued.
LEMMA RunOnConnMoves ==
  ASSUME IInv, NEW l \in Loops, RunFunctor(l), NEW f, f = Head(batch[l]),
         NEW c, c = f[2], queue' = queue, connections' = connections,
         OnlyConn(c), conn[c].loop = l
  PROVE  AboutOne(c) /\ SameKept /\ place' = place
  <1>1. /\ \A k \in Loops \ {l} : batch'[k] = batch[k]
        /\ Range(batch[l]) = {f} \cup Range(batch'[l])
        /\ \A k \in Loops : /\ NoneBefore(batch'[k])
                            /\ batch'[k] # << >> => batch[k] # << >>
                            /\ Range(batch'[k]) \subseteq Range(batch[k])
        /\ \A k \in Loops : held'[k] \subseteq held[k] \cup {c}
        /\ c \in Conns
    BY RunMoves
  <1>2. \A k \in Loops : c \notin active[k]
    <2>1. place[l] = "functors" /\ c # Acceptor
      BY <1>1, ConnsAre DEF RunFunctor, IInv, NoConn, Acceptor
    <2>2. QED
      BY <2>1 DEF IInv, LoopsFit
  <1>3. ASSUME NEW k \in Loops PROVE FunctorsMove(c, k)
    <2>1. \A g \in Work(k) : g[2] # c => g \in Work(k)'
      BY <1>1 DEF Work
    <2>2. NoneBefore(queue'[k])
      BY DEF IInv, EstablishedFirst
    <2>3. QED
      BY <1>1, <2>1, <2>2 DEF FunctorsMove
  <1>4. SameKept /\ place' = place
    BY DEF RunFunctor, SameKept
  <1>5. QED
    BY <1>1, <1>2, <1>3, <1>4 DEF AboutOne, RunFunctor, serverVars, poolVars,
                                 acceptVars

\* The types after a functor that ran on its connection.
LEMMA RunTypes ==
  ASSUME IInv, NEW l \in Loops, RunFunctor(l),
         conn' \in Seq(Connections), Len(conn') = Len(conn), Conns' = Conns,
         queue' \in [Loops -> Seq(Functors)],
         connections' \in [Names -> {NoConn} \cup Conns]
  PROVE  TypeOK'
  <1>1. /\ batch' \in [Loops -> Seq(Functors)]
        /\ held' \in [Loops -> SUBSET Conns]
    <2> DEFINE f == Head(batch[l])
    <2>1. f = Head(batch[l])
      OBVIOUS
    <2> HIDE DEF f
    <2>2. QED
      BY <2>1, RunMoves
  <1>2. QED
    BY <1>1 DEF TypeOK, IInv, RunFunctor, serverVars, poolVars, acceptVars

\* connectEstablished: a connection that was built is up.
LEMMA RunEstablishedKeeps ==
  ASSUME IInv, NEW l \in Loops, RunFunctor(l),
         NEW f, f = Head(batch[l]), f[1] = "connectEstablished",
         NEW c, c = f[2]
  PROVE  IInv' /\ AllAge
  <1>1. /\ f \in Functors
        /\ f[1] = "connectEstablished"
        /\ IsEstablish(f)
        /\ FunctorFits(l, f)
        /\ Referenced(c)
        /\ \A g \in Range(queue[l]) \cup Range(Tail(batch[l])) :
             IsEstablish(g) => g[2] # c
    BY HeadIs DEF RunFunctor, IsEstablish
  <1>2. /\ conn' = [conn EXCEPT ![c] = Established(@)]
        /\ queue' = queue
        /\ connections' = connections
        /\ batch' = [batch EXCEPT ![l] = Tail(batch[l])]
        /\ place[l] = "functors"
        /\ place' = place
    BY <1>1 DEF RunFunctor, RunFunctorOf
  <1>3. c \in Conns /\ conn[c].loop = l /\ Building(conn[c])
    BY <1>1 DEF FunctorFits
  <1>4. conn[c] \in Connections
    BY <1>3, ConnsAre DEF IInv
  <1>5. /\ Keeps(conn[c], Established(conn[c]))
        /\ Up(Established(conn[c]))
    BY <1>3, <1>4, EstablishedIs
  <1>6. OnlyConn(c) /\ Keeps(conn[c], conn'[c]) /\ Up(conn'[c])
    BY <1>2, <1>3, <1>5, ConnChanges DEF IInv, OnlyConn, Keeps
  <1>7. AboutOne(c) /\ SameKept
    BY <1>2, <1>3, <1>6, RunOnConnMoves
  <1>8. /\ conn'[c].loop = l
        /\ conn'[c].name = conn[c].name
        /\ Conns' = Conns
    BY <1>3, <1>6 DEF OnlyConn
  <1>9. /\ Work(l) = {f} \cup Work(l)'
        /\ Work(l)' = Range(queue[l]) \cup Range(Tail(batch[l]))
    <2>1. Range(batch[l]) = {f} \cup Range(batch'[l])
      BY RunMoves
    <2>2. batch'[l] = Tail(batch[l])
      BY <1>2 DEF IInv, TypeOK
    <2>3. f \in Range(batch[l]) /\ Range(batch'[l]) \subseteq Range(batch[l])
      BY <2>1
    <2>4. QED
      BY <1>2, <2>1, <2>2, <2>3 DEF Work
  <1>10. ConnFits(c)'
    <2>1. StageFits(c)' /\ EstablishQueued(c)'
      BY <1>6, StagesDiffer DEF StageFits, EstablishQueued
    <2>2. InMap(c)' <=> InMap(c)
      BY <1>2, <1>8 DEF InMap
    <2>3. KnownUntilDown(c)'
      <3>1. KnownUntilDown(c)
        BY <1>3 DEF IInv, ConnsFit, ConnFits
      <3>2. QED
        BY <1>2, <1>3, <1>8, <2>2, <3>1 DEF KnownUntilDown
    <2>4. KeptUntilFinished(c)'
      <3>1. InMap(c) \/ OnItsWay(c)
        BY <1>2, <1>3, StagesDiffer
           DEF IInv, ConnsFit, ConnFits, KeptUntilFinished
      <3>2. <<"connectDestroyed", c>> # f
        BY <1>1
      <3>3. OnItsWay(c) => OnItsWay(c)'
        BY <1>3, <1>8, <1>9, <3>2 DEF OnItsWay
      <3>4. QED
        BY <2>2, <3>1, <3>3 DEF KeptUntilFinished
    <2>5. QED
      BY <2>1, <2>3, <2>4 DEF ConnFits
  <1>11. ASSUME NEW k \in Loops, NEW g \in Work(k)', g[2] = c
         PROVE  FunctorFits(k, g)'
    <2>1. g \in Work(k)
      BY <1>7, <1>11, <1>2 DEF AboutOne, FunctorsMove, Work
    <2>2. FunctorFits(k, g)
      BY <2>1 DEF IInv, FunctorsFit
    <2>3. ~ IsEstablish(g)
      BY <1>1, <1>3, <1>9, <1>11, <2>2 DEF FunctorFits
    <2>4. KeptByUser(c) => KeptByUser(c)'
      BY <1>7 DEF SameKept, KeptByUser
    <2>5. Told(conn[c]) => Told(conn'[c])
      BY <1>6 DEF Keeps
    <2>6. QED
      BY <1>2, <1>3, <1>8, <1>11, <2>2, <2>3, <2>4, <2>5 DEF FunctorFits
  <1>12. FitsItself(c)'
    BY <1>10, <1>11 DEF FitsItself
  <1>13. TypeOK'
    BY <1>2, <1>6, RunTypes DEF OnlyConn, IInv, TypeOK
  <1>14. Referenced(c)
    BY <1>1
  <1>15. QED
    BY <1>3, <1>6, <1>7, <1>12, <1>13, <1>14, AboutOneKeeps

\* connectDestroyed: the connection was established before, and is finished;
\* its user is told now, or was told before, or ~TcpServer runs.
LEMMA RunDestroyedKeeps ==
  ASSUME IInv, NEW l \in Loops, RunFunctor(l),
         NEW f, f = Head(batch[l]), f[1] = "connectDestroyed",
         NEW c, c = f[2]
  PROVE  IInv' /\ AllAge
  <1>1. /\ f \in Functors
        /\ f[1] = "connectDestroyed"
        /\ FunctorFits(l, f)
        /\ Referenced(c)
        /\ Range(batch[l]) = {f} \cup Range(Tail(batch[l]))
        /\ \A g \in Range(queue[l]) \cup Range(Tail(batch[l])) :
             IsEstablish(g) => g[2] # c
    BY HeadIs DEF RunFunctor
  <1>2. /\ conn' = [conn EXCEPT ![c] = Destroyed(@)]
        /\ queue' = queue
        /\ connections' = connections
        /\ place[l] = "functors"
        /\ place' = place
    BY <1>1 DEF RunFunctor, RunFunctorOf
  <1>3. c \in Conns /\ conn[c].loop = l
    BY <1>1 DEF FunctorFits
  <1>4. conn[c] \in Connections
    BY <1>3, ConnsAre DEF IInv
  <1>5. ~ Building(conn[c])
    <2> SUFFICES ASSUME Building(conn[c]) PROVE FALSE
      OBVIOUS
    <2> DEFINE g == <<"connectEstablished", c>>
    <2>1. g \in Work(l)
      BY <1>2, <1>3 DEF IInv, ConnsFit, ConnFits, EstablishQueued
    <2>2. g # f /\ IsEstablish(g) /\ g[2] = c
      BY <1>1 DEF IsEstablish
    <2> HIDE DEF g
    <2>3. QED
      BY <1>1, <2>1, <2>2 DEF Work
  <1>6. /\ Keeps(conn[c], Destroyed(conn[c]))
        /\ Finished(Destroyed(conn[c])) \/ Revived(Destroyed(conn[c]))
    BY <1>3, <1>4, <1>5, DestroyedIs
       DEF IInv, ConnsFit, ConnFits, StageFits, Staged
  <1>7. /\ OnlyConn(c)
        /\ Keeps(conn[c], conn'[c])
        /\ Finished(conn'[c]) \/ Revived(conn'[c])
    BY <1>2, <1>3, <1>6, ConnChanges DEF IInv, OnlyConn, Keeps
  <1>8. AboutOne(c) /\ SameKept
    BY <1>2, <1>3, <1>7, RunOnConnMoves
  <1>9. ConnFits(c)'
    <2>1. Told(conn'[c]) \/ place'[BaseLoop] = "ended"
      BY <1>1, <1>2, <1>7 DEF FunctorFits, Keeps
    <2>2. QED
      BY <1>7, <2>1, StagesDiffer
         DEF ConnFits, StageFits, EstablishQueued, KeptUntilFinished,
             KnownUntilDown
  <1>10. ASSUME NEW k \in Loops, NEW g \in Work(k)', g[2] = c
         PROVE  FunctorFits(k, g)'
    <2>1. g \in Work(k)
      BY <1>8, <1>10, <1>2 DEF AboutOne, FunctorsMove, Work
    <2>2. QED
      BY <1>2, <1>3, <1>5, <1>7, <1>8, <1>10, <2>1, OwnFunctorsFit DEF Keeps
  <1>11. FitsItself(c)'
    BY <1>9, <1>10 DEF FitsItself
  <1>12. TypeOK'
    BY <1>2, <1>7, RunTypes DEF OnlyConn, IInv, TypeOK
  <1>13. Referenced(c)
    BY <1>1
  <1>14. QED
    BY <1>3, <1>7, <1>8, <1>11, <1>12, <1>13, AboutOneKeeps, StagesDiffer

\* removeConnectionInLoop: the map lets the connection go, and its loop's
\* queue has it.
LEMMA RunRemoveKeeps ==
  ASSUME IInv, NEW l \in Loops, RunFunctor(l),
         NEW f, f = Head(batch[l]), f[1] = "removeConnectionInLoop",
         NEW c, c = f[2]
  PROVE  IInv' /\ AllAge
  <1> DEFINE g == <<"connectDestroyed", c>>
             m == conn[c].loop
  <1>1. /\ FunctorFits(l, f)
        /\ Referenced(c)
    BY HeadIs DEF RunFunctor
  <1>2. /\ c \in Conns
        /\ Told(conn[c])
    BY <1>1 DEF FunctorFits
  <1>3. conn[c] \in Connections /\ m \in Loops /\ conn[c].name \in Names
    BY <1>2, ConnsAre DEF IInv, Connections
  <1>4. /\ conn' = conn
        /\ Forgotten(c)
        /\ Queue(m, g)
        /\ place' = place
    BY DEF RunFunctor, RunFunctorOf, RemoveConnectionInLoop, DestroysInLoop,
           Forgotten
  <1>5. /\ \A k \in Loops \ {l} : batch'[k] = batch[k]
        /\ Range(batch[l]) = {f} \cup Range(batch'[l])
        /\ \A k \in Loops : /\ NoneBefore(batch'[k])
                            /\ batch'[k] # << >> => batch[k] # << >>
                            /\ Range(batch'[k]) \subseteq Range(batch[k])
        /\ \A k \in Loops : held'[k] \subseteq held[k] \cup {c}
    BY RunMoves
  <1>6. g \in Functors /\ g[2] = c /\ ~ IsEstablish(g)
    <2>1. c \in 1 .. MaxAccepts
      BY <1>2, ConnsAre, TcpServerAssumption DEF IInv
    <2>2. QED
      BY <2>1, FunctorTyped DEF IInv, IsEstablish, Kinds
  <1> HIDE DEF g
  <1>7. /\ queue' \in [Loops -> Seq(Functors)]
        /\ \A k \in Loops \ {m} : queue'[k] = queue[k]
        /\ Range(queue'[m]) = Range(queue[m]) \cup {g}
        /\ NoneBefore(queue[m]) => NoneBefore(queue'[m])
    BY <1>3, <1>4, <1>6, Enqueued DEF IInv
  <1>8. \A k \in Loops : Range(queue'[k])
                           \subseteq Range(queue[k]) \cup {g}
    BY <1>7
  <1>9. ASSUME NEW k \in Loops PROVE FunctorsMove(c, k)
    <2>1. NoneBefore(queue'[k])
      BY <1>7 DEF IInv, EstablishedFirst
    <2>2. Range(queue[k]) \subseteq Range(queue'[k])
      BY <1>7
    <2>3. \A h \in Work(k) : h[2] # c => h \in Work(k)'
      BY <1>5, <2>2 DEF Work
    <2>4. QED
      BY <1>5, <1>6, <1>8, <2>1, <2>3 DEF FunctorsMove
  <1>10. OnlyConn(c)
    BY <1>4, ConnsAre DEF OnlyConn, IInv, TypeOK, Conns
  <1>11. AboutOne(c) /\ SameKept
    BY <1>4, <1>5, <1>9, <1>10 DEF AboutOne, RunFunctor, serverVars, poolVars,
                                   acceptVars, SameKept
  <1>12. ConnFits(c)'
    <2>1. ConnFits(c)
      BY <1>2 DEF IInv, ConnsFit
    <2>2. ~ Building(conn[c]) /\ ~ Up(conn[c])
      BY <1>2, StagesDiffer
    <2>3. StageFits(c)' /\ KnownUntilDown(c)'
      BY <1>4, <2>1, <2>2 DEF ConnFits, StageFits, KnownUntilDown
    <2>4. EstablishQueued(c)'
      BY <1>4, <2>2 DEF EstablishQueued
    <2>5. OnItsWay(c)'
      BY <1>3, <1>4, <1>7 DEF OnItsWay, Work, g
    <2>6. QED
      BY <2>3, <2>4, <2>5 DEF ConnFits, KeptUntilFinished
  <1>13. ASSUME NEW k \in Loops, NEW h \in Work(k)', h[2] = c
         PROVE  FunctorFits(k, h)'
    <2>1. CASE h \in Work(k)
      <3>1. ~ Building(conn[c])
        BY <1>2, StagesDiffer
      <3>2. QED
        BY <1>2, <1>4, <1>10, <1>11, <1>13, <2>1, <3>1, OwnFunctorsFit
    <2>2. CASE h = g /\ k = m
      <3>1. h[1] = "connectDestroyed" /\ h[2] = c
        BY <2>2 DEF g
      <3>2. QED
        BY <1>2, <1>4, <2>2, <3>1 DEF FunctorFits, IsEstablish, IsRaw, Conns
    <2>3. h \in Work(k) \/ (h = g /\ k = m)
      BY <1>5, <1>7, <1>13 DEF Work
    <2>4. QED
      BY <2>1, <2>2, <2>3
  <1>14. FitsItself(c)'
    BY <1>12, <1>13 DEF FitsItself
  <1>15. TypeOK'
    <2>1. connections' \in [Names -> {NoConn} \cup Conns]
      BY <1>3, <1>4 DEF Forgotten, IInv, TypeOK
    <2>2. conn' \in Seq(Connections) /\ Conns' = Conns
      BY <1>4 DEF IInv, TypeOK, Conns
    <2>3. QED
      BY <1>4, <1>7, <2>1, <2>2, RunTypes
  <1>16. Keeps(conn[c], conn'[c])
    BY <1>3, <1>4 DEF Keeps, Lives
  <1>17. QED
    BY <1>1, <1>2, <1>4, <1>11, <1>14, <1>15, <1>16, AboutOneKeeps

\* sendInLoop or shutdownInLoop: a call comes late, and the connection is one
\* that the thread still keeps.
LEMMA RunRawKeeps ==
  ASSUME IInv, NEW l \in Loops, RunFunctor(l),
         NEW f, f = Head(batch[l]), IsRaw(f),
         NEW c, c = f[2]
  PROVE  IInv' /\ AllAge
  <1>1. FunctorFits(l, f) /\ Referenced(c)
    BY HeadIs DEF RunFunctor
  <1>2. c \in Conns /\ conn[c].loop = l /\ KeptByUser(c)
    BY <1>1 DEF FunctorFits
  <1>3. /\ conn' = [conn EXCEPT ![c] = Buffered(@)] \/ conn' = conn
        /\ queue' = queue
        /\ connections' = connections
    BY DEF RunFunctor, RunFunctorOf, IsRaw
  <1>4. conn[c] \in Connections /\ Staged(conn[c]) /\ ~ Building(conn[c])
    <2>1. PICK u \in Users : user[u][2] = c
      BY <1>2 DEF KeptByUser
    <2>2. c # NoConn
      BY <1>2, ConnsAre DEF IInv
    <2>3. QED
      BY <2>1, <2>2, KeptIs
  <1>5. conn' = [conn EXCEPT ![c] = IF conn' = conn THEN conn[c]
                                                    ELSE Buffered(conn[c])]
    <2>1. CASE conn' = conn
      <3>1. conn = [conn EXCEPT ![c] = conn[c]]
        BY DEF IInv, TypeOK, Conns
      <3>2. QED
        BY <2>1, <3>1
    <2>2. CASE conn' # conn
      BY <1>3, <2>2
    <2>3. QED
      BY <2>1, <2>2
  <1> DEFINE new == IF conn' = conn THEN conn[c] ELSE Buffered(conn[c])
  <1>6. KeepsStage(conn[c], new)
    BY <1>4, CalledIs
  <1>7. conn' = [conn EXCEPT ![c] = new]
    BY <1>5
  <1> HIDE DEF new
  <1>8. OnlyConn(c) /\ KeepsStage(conn[c], conn'[c])
    BY <1>2, <1>6, <1>7, ConnChanges DEF IInv, OnlyConn, KeepsStage, Keeps
  <1>9. AboutOne(c)
    BY <1>2, <1>3, <1>8, RunOnConnMoves
  <1>10. TypeOK'
    BY <1>3, <1>8, RunTypes DEF OnlyConn, IInv, TypeOK
  <1>11. /\ \A k \in Loops \ {l} : batch'[k] = batch[k]
         /\ Range(batch[l]) = {f} \cup Range(batch'[l])
    BY RunMoves
  <1>12. \A k \in Loops : Work(k)' \subseteq Work(k)
    BY <1>3, <1>11 DEF Work
  <1>13. OnItsWay(c) => OnItsWay(c)'
    <2>1. <<"connectDestroyed", c>> # f
      BY DEF IsRaw
    <2>2. conn'[c].loop = l
      BY <1>2, <1>8 DEF OnlyConn
    <2>3. QED
      BY <1>2, <1>3, <1>11, <2>1, <2>2 DEF OnItsWay, Work
  <1>14. QED
    BY <1>1, <1>2, <1>3, <1>4, <1>8, <1>9, <1>10, <1>12, <1>13, CallKeeps

\* ~TcpServer lets one connection go.
DestroyStep(n, c) ==
    /\ connections[n] = c
    /\ c # NoConn
    /\ place[BaseLoop] = "ended"
    /\ connections' = [connections EXCEPT ![n] = NoConn]
    /\ UNCHANGED <<serverVars, nextConnId, acceptVars, user, place, quit,
                   active, batch, held, logFile>>

\* It is the connection whose name that is.
LEMMA DestroyMoves ==
  ASSUME IInv, NEW n \in Names, NEW c, DestroyStep(n, c)
  PROVE  /\ c \in Conns
         /\ conn[c].name = n
         /\ conn[c] \in Connections
         /\ conn[c].loop \in Loops
         /\ Referenced(c)
         /\ Forgotten(c)
         /\ connections' \in [Names -> {NoConn} \cup Conns]
  <1>1. c \in Conns
    BY DEF DestroyStep, IInv, TypeOK
  <1>2. conn[c].name = n
    BY DEF DestroyStep, IInv, NamesFit
  <1>3. conn[c] \in Connections /\ conn[c].loop \in Loops
    BY <1>1, ConnsAre DEF IInv, Connections
  <1>4. Referenced(c)
    BY DEF DestroyStep, Referenced
  <1>5. Forgotten(c)
    BY <1>2 DEF DestroyStep, Forgotten
  <1>6. connections' \in [Names -> {NoConn} \cup Conns]
    BY DEF DestroyStep, IInv, TypeOK
  <1>7. QED
    BY <1>1, <1>2, <1>3, <1>4, <1>5, <1>6

\* A connection of the server's loop is destroyed at once.
LEMMA DestroyInBaseKeeps ==
  ASSUME IInv, NEW n \in Names, NEW c, DestroyStep(n, c), InItsLoop(c),
         conn' = [conn EXCEPT ![c] = Destroyed(@)], queue' = queue
  PROVE  IInv' /\ AllAge
  <1>1. /\ c \in Conns
        /\ conn[c] \in Connections
        /\ conn[c].loop = BaseLoop
        /\ Referenced(c)
        /\ Forgotten(c)
        /\ connections' \in [Names -> {NoConn} \cup Conns]
    BY DestroyMoves DEF InItsLoop
  <1>2. ~ Building(conn[c])
    BY <1>1 DEF IInv, ConnsFit, ConnFits, StageFits
  <1>3. /\ Keeps(conn[c], Destroyed(conn[c]))
        /\ Finished(Destroyed(conn[c])) \/ Revived(Destroyed(conn[c]))
    BY <1>1, <1>2, DestroyedIs DEF IInv, ConnsFit, ConnFits, StageFits, Staged
  <1>4. /\ OnlyConn(c)
        /\ Keeps(conn[c], conn'[c])
        /\ Finished(conn'[c]) \/ Revived(conn'[c])
        /\ SameKept
        /\ place' = place
        /\ place[BaseLoop] = "ended"
    BY <1>1, <1>3, ConnChanges
       DEF IInv, OnlyConn, Keeps, DestroyStep, SameKept
  <1>5. ASSUME NEW k \in Loops
        PROVE  FunctorsMove(c, k) /\ Work(k)' = Work(k) /\ c \notin active[k]
    <2>1. batch' = batch
      BY DEF DestroyStep
    <2>2. FunctorsMove(c, k) /\ Work(k)' = Work(k)
      BY <2>1 DEF FunctorsMove, Work, IInv, EstablishedFirst
    <2>3. c \notin active[k]
      <3>1. c # Acceptor
        BY <1>1, ConnsAre DEF IInv, NoConn, Acceptor
      <3>2. c \in active[k] => k = BaseLoop /\ place[k] = "events"
        BY <1>1, <3>1 DEF IInv, LoopsFit
      <3>3. QED
        BY <3>2 DEF DestroyStep
    <2>4. QED
      BY <2>2, <2>3
  <1>6. AboutOne(c)
    BY <1>1, <1>4, <1>5 DEF AboutOne, DestroyStep, serverVars, poolVars,
                            acceptVars
  <1>7. ConnFits(c)'
    BY <1>4, StagesDiffer DEF ConnFits, StageFits, EstablishQueued,
                              KeptUntilFinished, KnownUntilDown
  <1>8. ASSUME NEW k \in Loops, NEW g \in Work(k)', g[2] = c
        PROVE  FunctorFits(k, g)'
    <2>1. g \in Work(k)
      BY <1>5, <1>8
    <2>2. QED
      BY <1>1, <1>2, <1>4, <1>8, <2>1, OwnFunctorsFit DEF Keeps
  <1>9. FitsItself(c)'
    BY <1>7, <1>8 DEF FitsItself
  <1>10. TypeOK'
    BY <1>1, <1>4 DEF TypeOK, IInv, OnlyConn, DestroyStep, serverVars,
                      poolVars, acceptVars
  <1>11. QED
    BY <1>1, <1>4, <1>6, <1>9, <1>10, AboutOneKeeps, StagesDiffer

\* One of the pool is destroyed in its loop, which has not ended or drops it.
LEMMA DestroyInPoolKeeps ==
  ASSUME IInv, NEW n \in Names, NEW c, DestroyStep(n, c), ~ InItsLoop(c),
         conn' = conn, DestroysInLoop(c)
  PROVE  IInv' /\ AllAge
  <1> DEFINE g == <<"connectDestroyed", c>>
             m == conn[c].loop
  <1>1. /\ c \in Conns
        /\ conn[c] \in Connections
        /\ m \in Loops
        /\ m # BaseLoop
        /\ Referenced(c)
        /\ Forgotten(c)
        /\ connections' \in [Names -> {NoConn} \cup Conns]
    BY DestroyMoves DEF InItsLoop
  <1>2. /\ batch' = batch
        /\ Queue(m, g)
        /\ place' = place
        /\ SameKept
        /\ place[BaseLoop] = "ended"
    BY DEF DestroyStep, DestroysInLoop, SameKept
  <1>3. /\ queue' \in [Loops -> Seq(Functors)]
        /\ \A k \in Loops : FunctorsMove(c, k)
        /\ \A k \in Loops \ {m} : Work(k)' = Work(k)
        /\ Work(m)' = Work(m) \cup {g}
    BY <1>1, <1>2, QueueMoves DEF Kinds
  <1>4. g[1] = "connectDestroyed" /\ g[2] = c /\ ~ IsEstablish(g)
    BY DEF IsEstablish
  <1> HIDE DEF g
  <1>5. OnlyConn(c)
    BY ConnsAre DEF OnlyConn, IInv, TypeOK, Conns
  <1>6. AboutOne(c)
    BY <1>1, <1>2, <1>3, <1>5 DEF AboutOne, DestroyStep, serverVars, poolVars,
                                 acceptVars
  <1>7. ConnFits(c)'
    <2>1. ConnFits(c)
      BY <1>1 DEF IInv, ConnsFit
    <2>2. StageFits(c)'
      BY <1>2, <2>1 DEF ConnFits, StageFits
    <2>3. KnownUntilDown(c)'
      BY <1>1, <1>2 DEF DestroyStep, KnownUntilDown
    <2>4. EstablishQueued(c)'
      BY <1>1, <1>2, <1>3, <2>1 DEF ConnFits, EstablishQueued
    <2>5. OnItsWay(c)'
      BY <1>1, <1>3 DEF OnItsWay, g
    <2>6. QED
      BY <2>2, <2>3, <2>4, <2>5 DEF ConnFits, KeptUntilFinished
  <1>8. ASSUME NEW k \in Loops, NEW h \in Work(k)', h[2] = c
        PROVE  FunctorFits(k, h)'
    <2>1. CASE h \in Work(k)
      <3>1. KeptByUser(h[2]) => KeptByUser(h[2])'
        BY <1>2 DEF SameKept, KeptByUser
      <3>2. QED
        BY <1>2, <2>1, <3>1 DEF IInv, FunctorsFit, FunctorFits, Conns
    <2>2. CASE h = g /\ k = m
      BY <1>1, <1>2, <1>4, <2>2 DEF FunctorFits, IsRaw, Conns
    <2>3. h \in Work(k) \/ (h = g /\ k = m)
      BY <1>3, <1>8
    <2>4. QED
      BY <2>1, <2>2, <2>3
  <1>9. FitsItself(c)'
    BY <1>7, <1>8 DEF FitsItself
  <1>10. TypeOK'
    BY <1>1, <1>3 DEF TypeOK, IInv, Conns, DestroyStep, serverVars, poolVars,
                      acceptVars
  <1>11. Keeps(conn[c], conn'[c])
    BY <1>1 DEF Keeps, Lives
  <1>12. QED
    BY <1>1, <1>6, <1>9, <1>10, <1>11, AboutOneKeeps

-----------------------------------------------------------------------------
(* What is only called on a connection.                                    *)

\* A handler or a call that moves nothing but c, which somebody keeps.
LEMMA OnlyCalled ==
  ASSUME IInv, NEW c \in Conns, Referenced(c), ~ Building(conn[c]),
         NEW new, conn' = [conn EXCEPT ![c] = new],
         KeepsStage(conn[c], new),
         active' \in [Loops -> SUBSET ({Acceptor} \cup Conns)],
         \A k \in Loops : active'[k] \subseteq active[k],
         \A k \in Loops : c \in active'[k] => new.index = conn[c].index,
         user' \in [Users -> {Outside} \cup
                      {"keeps", "sendInLoop", "setState", "shutdownInLoop"}
                        \X Conns],
         SameKept,
         UNCHANGED <<serverVars, mapVars, acceptVars, place, quit, queue,
                     batch, held, logFile>>
  PROVE  IInv' /\ AllAge
  <1>1. /\ OnlyConn(c)
        /\ conn'[c] = new
        /\ KeepsStage(conn[c], conn'[c])
    BY ConnChanges DEF IInv, OnlyConn, KeepsStage, Keeps
  <1>2. UNCHANGED <<connections, nextConnId, backlog, server, pool, place,
                    queue, batch, held>>
    BY DEF serverVars, poolVars, mapVars, acceptVars
  <1>3. \A k \in Loops : FunctorsMove(c, k) /\ Work(k)' = Work(k)
    BY <1>2 DEF FunctorsMove, Work, IInv, EstablishedFirst
  <1>4. AboutOne(c)
    BY <1>1, <1>2, <1>3 DEF AboutOne
  <1>5. TypeOK'
    BY <1>1 DEF TypeOK, IInv, OnlyConn, Conns, serverVars, poolVars, mapVars,
                acceptVars
  <1>6. OnItsWay(c) => OnItsWay(c)'
    <2>1. conn'[c].loop = conn[c].loop /\ conn[c].loop \in Loops
      BY <1>1, ConnsAre DEF OnlyConn, IInv, Connections
    <2>2. QED
      BY <1>3, <2>1 DEF OnItsWay
  <1>7. QED
    BY <1>1, <1>2, <1>3, <1>4, <1>5, <1>6, CallKeeps

\* handleWrite of a connection that was registered again.
LEMMA WriteKeeps ==
  ASSUME IInv, NEW l \in Loops, NEW c, ConnectionEvent(l, c),
         conn[c].revived, conn' = [conn EXCEPT ![c] = Drained(@)] \/ conn' = conn,
         UNCHANGED <<queue, mapVars, next, backlog>>
  PROVE  IInv' /\ AllAge
  <1>1. /\ c \in Conns
        /\ conn[c] \in Connections
        /\ Revived(conn[c])
        /\ Referenced(c)
        /\ active' \in [Loops -> SUBSET ({Acceptor} \cup Conns)]
        /\ \A k \in Loops : active'[k] \subseteq active[k] \ {c}
        /\ SameKept
    BY ConnectionEventIs DEF Up
  <1> DEFINE new == IF conn' = conn THEN conn[c] ELSE Drained(conn[c])
  <1>2. KeepsStage(conn[c], new) /\ ~ Building(conn[c])
    BY <1>1, CalledIs, StagesDiffer DEF Staged
  <1>3. conn' = [conn EXCEPT ![c] = new]
    <2>1. conn = [conn EXCEPT ![c] = conn[c]]
      BY DEF IInv, TypeOK, Conns
    <2>2. QED
      BY <2>1
  <1> HIDE DEF new
  <1>4. /\ UNCHANGED <<serverVars, mapVars, acceptVars, user, place, quit, queue,
                       batch, held, logFile>>
    BY DEF ConnectionEvent, serverVars, poolVars, acceptVars
  <1>5. user' \in [Users -> {Outside} \cup
                     {"keeps", "sendInLoop", "setState", "shutdownInLoop"}
                       \X Conns]
    BY <1>4 DEF IInv, TypeOK
  <1>6. \A k \in Loops : active'[k] \subseteq active[k] /\ c \notin active'[k]
    BY <1>1
  <1>7. QED
    BY <1>1, <1>2, <1>3, <1>4, <1>5, <1>6, OnlyCalled

\* shutdown() in a callback: the connection is up.
LEMMA CallbackShutdownKeeps ==
  ASSUME IInv, CallbackShutdown
  PROVE  IInv' /\ AllAge
  <1>1. PICK c \in Conns : /\ IsRunning(conn[c].loop)
                           /\ conn[c].state = "kConnected"
                           /\ conn' = [conn EXCEPT ![c] = ShutDown(conn[c])]
    BY DEF CallbackShutdown
  <1>2. /\ conn[c] \in Connections
        /\ conn[c].loop \in Loops
        /\ conn[c].name \in Names
    BY ConnsAre DEF IInv, Connections
  <1>3. Up(conn[c])
    BY <1>1 DEF IInv, ConnsFit, ConnFits, StageFits, Building, Closing,
                Finished, Revived, Ending
  <1>4. Referenced(c)
    <2>1. InMap(c) \/ OnItsWay(c)
      BY <1>1, <1>3 DEF IInv, ConnsFit, ConnFits, KeptUntilFinished, IsRunning
    <2>2. QED
      BY <1>2, <2>1 DEF Referenced, InMap, OnItsWay, IsRaw
  <1>5. /\ KeepsStage(conn[c], ShutDown(conn[c]))
        /\ ~ Building(conn[c])
        /\ ShutDown(conn[c]).index = conn[c].index
    BY <1>2, <1>3, CalledIs, StagesDiffer DEF Staged, ShutDown, Connections
  <1>6. UNCHANGED <<serverVars, mapVars, acceptVars, user, loopVars, logFile>>
    BY DEF CallbackShutdown
  <1>7. QED
    BY <1>1, <1>4, <1>5, <1>6, OnlyCalled
       DEF SameKept, loopVars, iterVars, IInv, TypeOK

\* The second half of another thread's shutdown(): of whatever it still keeps.
LEMMA SetStateKeeps ==
  ASSUME IInv, NEW u \in Users, SetState(u)
  PROVE  IInv' /\ AllAge
  <1> DEFINE c == user[u][2]
             new == ShutDown(conn[c])
             doings == {Outside} \cup
                         {"keeps", "sendInLoop", "setState", "shutdownInLoop"}
                           \X Conns
  <1>1. /\ user[u][1] = "setState"
        /\ conn' = [conn EXCEPT ![c] = new]
        /\ user' = [user EXCEPT ![u] = <<"shutdownInLoop", c>>]
        /\ UNCHANGED <<serverVars, mapVars, acceptVars, loopVars, logFile>>
    BY DEF SetState
  <1>2. user \in [Users -> doings]
    BY DEF IInv, TypeOK
  <1>3. c # NoConn
    <2>1. c \in Conns
      BY <1>1, <1>2 DEF Outside
    <2>2. QED
      BY <2>1, ConnsAre DEF IInv
  <1>4. /\ c \in Conns
        /\ conn[c] \in Connections
        /\ Staged(conn[c])
        /\ ~ Building(conn[c])
        /\ Referenced(c)
    BY <1>3, KeptIs
  <1>5. user' \in [Users -> doings] /\ SameKept
    BY <1>1, <1>2, <1>4 DEF SameKept
  <1>6. KeepsStage(conn[c], new) /\ new.index = conn[c].index
    BY <1>4, CalledIs DEF ShutDown, Connections
  <1> HIDE DEF c, new, doings
  <1>7. user' \in [Users -> {Outside} \cup
                     {"keeps", "sendInLoop", "setState", "shutdownInLoop"}
                       \X Conns]
    BY <1>5 DEF doings
  <1>8. QED
    BY <1>1, <1>4, <1>5, <1>6, <1>7, OnlyCalled
       DEF loopVars, iterVars, IInv, TypeOK

\* The functor of another thread's send() or shutdown() is queued.
LEMMA QueueInLoopKeeps ==
  ASSUME IInv, NEW u \in Users, QueueInLoop(u),
         NEW f, f = user[u], NEW c, c = f[2], NEW l, l = conn[c].loop
  PROVE  IInv' /\ AllAge
  <1> DEFINE doings == {Outside} \cup
                         {"keeps", "sendInLoop", "setState", "shutdownInLoop"}
                           \X Conns
  <1>1. /\ IsRaw(f)
        /\ Queue(l, f)
        /\ user' = [user EXCEPT ![u] = <<"keeps", c>>]
        /\ UNCHANGED <<serverVars, mapVars, acceptVars, conn, place, quit,
                       active, batch, held, logFile>>
    BY DEF QueueInLoop
  <1>2. user \in [Users -> doings]
    BY DEF IInv, TypeOK
  <1>3. /\ c \in Conns
        /\ c # NoConn
        /\ f = <<f[1], c>>
    <2>1. f \in {"keeps", "sendInLoop", "setState", "shutdownInLoop"}
                        \X Conns
      BY <1>1, <1>2 DEF IsRaw, Outside
    <2>2. c \in Conns /\ f = <<f[1], c>>
      BY <2>1
    <2>3. QED
      BY <2>2, ConnsAre DEF IInv
  <1>4. /\ conn[c] \in Connections
        /\ Staged(conn[c])
        /\ ~ Building(conn[c])
        /\ Referenced(c)
    BY <1>3, KeptIs
  <1>5. user' \in [Users -> doings] /\ SameKept /\ KeptByUser(c)
    BY <1>1, <1>2, <1>3 DEF SameKept, KeptByUser
  <1>6. f[1] \in Kinds \ {"connectEstablished"}
    BY <1>1 DEF IsRaw, Kinds
  <1>7. l \in Loops
    BY <1>4 DEF Connections
  <1>8. Queue(l, <<f[1], c>>) /\ batch' = batch
    BY <1>1, <1>3
  <1>9. /\ queue' \in [Loops -> Seq(Functors)]
        /\ \A k \in Loops : FunctorsMove(c, k)
        /\ \A k \in Loops \ {l} : Work(k)' = Work(k)
        /\ Work(l)' = Work(l) \cup {f}
    BY <1>3, <1>6, <1>7, <1>8, QueueMoves
  <1> HIDE DEF doings
  <1>10. /\ OnlyConn(c)
         /\ conn' = conn
    BY <1>1, ConnsAre DEF OnlyConn, IInv, TypeOK, Conns
  <1>11. AboutOne(c)
    BY <1>1, <1>5, <1>9, <1>10 DEF AboutOne, serverVars, poolVars, mapVars,
                                  acceptVars
  <1>12. KeepsStage(conn[c], conn'[c])
    BY <1>4, <1>10, CalledIs
  <1>13. TypeOK'
    BY <1>1, <1>5, <1>9 DEF TypeOK, IInv, Conns, serverVars, poolVars, mapVars,
                            acceptVars, doings
  <1>14. OnItsWay(c) => OnItsWay(c)'
    BY <1>7, <1>9, <1>10 DEF OnItsWay
  <1>15. \A k \in Loops : \A g \in Work(k)' :
           \/ g \in Work(k)
           \/ IsRaw(g) /\ g[2] = c /\ k = conn[c].loop /\ KeptByUser(c)
    BY <1>1, <1>5, <1>9
  <1>16. connections' = connections
    BY <1>1 DEF mapVars
  <1>17. QED
    BY <1>3, <1>4, <1>11, <1>12, <1>13, <1>14, <1>15, <1>16, CallKeeps

-----------------------------------------------------------------------------
(* The steps that move no connection.                                      *)

\* Threads keep the connections that functors have a raw pointer to, and take
\* only one that somebody else refers to.
UsersMove ==
    /\ UsersFit'
    /\ \A c \in Conns : KeptByUser(c)' => Referenced(c)
    /\ \A l \in Loops : \A f \in Work(l)' :
         IsRaw(f) /\ KeptByUser(f[2]) => KeptByUser(f[2])'

\* Functors may go, with their loop, and none comes; a peer may leave.
Calm ==
    /\ Conns' = Conns
    /\ Len(conn') = Len(conn)
    /\ \A c \in Conns :
         /\ conn'[c].name = conn[c].name
         /\ conn'[c].loop = conn[c].loop
         /\ SameStage(c)
    /\ UNCHANGED mapVars
    /\ \A l \in Loops :
         /\ place[l] = "ended" => place'[l] = "ended"
         /\ Work(l)' \subseteq Work(l)
         /\ place'[l] # "ended" => Work(l)' = Work(l)
         /\ held'[l] \subseteq held[l]
    /\ UsersMove

\* Threads that do nothing do so.
LEMMA SameUsers ==
  ASSUME IInv, user' = user, Conns' = Conns, \A c \in Conns : SameStage(c)
  PROVE  UsersMove
  <1>1. \A c \in Conns : Building(conn'[c]) => Building(conn[c])
    BY DEF SameStage, Building
  <1>2. UsersFit'
    BY <1>1 DEF IInv, UsersFit
  <1>3. \A c : KeptByUser(c)' <=> KeptByUser(c)
    BY DEF KeptByUser
  <1>4. QED
    BY <1>2, <1>3 DEF UsersMove, Referenced

\* They leave a connection's stage, its functors and its name.
LEMMA CalmKeeps ==
  ASSUME IInv, TypeOK', Calm
  PROVE  /\ ConnsFit'
         /\ FunctorsFit'
         /\ NamesFit'
         /\ \A c \in Conns : Referenced(c)' => Referenced(c)
         /\ UsersFit'
         /\ AllAge
  <1>1. ASSUME NEW c \in Conns
        PROVE  ConnFits(c)'
    <2>1. /\ ConnFits(c)
          /\ conn[c].loop \in Loops
      BY ConnsAre DEF IInv, ConnsFit, Connections
    <2>2. /\ conn'[c].name = conn[c].name
          /\ conn'[c].loop = conn[c].loop
          /\ SameStage(c)
          /\ connections' = connections
      BY DEF Calm, mapVars
    <2>3. /\ Building(conn'[c]) <=> Building(conn[c])
          /\ Up(conn'[c]) <=> Up(conn[c])
          /\ Closing(conn'[c]) <=> Closing(conn[c])
          /\ Finished(conn'[c]) <=> Finished(conn[c])
          /\ Revived(conn'[c]) <=> Revived(conn[c])
          /\ Told(conn'[c]) <=> Told(conn[c])
      BY <2>2 DEF SameStage, Building, Up, Closing, Finished, Revived, Ending,
                  Told, TwiceTold, Untold
    <2>4. /\ \A l \in Loops : place'[l] # "ended" =>
                place[l] # "ended" /\ Work(l)' = Work(l)
          /\ BaseLoop \in Loops
      BY DEF Calm, Loops
    <2>5. InMap(c)' <=> InMap(c)
      BY <2>2 DEF InMap
    <2>6. StageFits(c)'
      BY <2>1, <2>2, <2>3, <2>4 DEF ConnFits, StageFits
    <2>7. EstablishQueued(c)'
      BY <2>1, <2>2, <2>3, <2>4 DEF ConnFits, EstablishQueued
    <2>8. KeptUntilFinished(c)'
      BY <2>1, <2>2, <2>3, <2>4, <2>5
         DEF ConnFits, KeptUntilFinished, OnItsWay
    <2>9. KnownUntilDown(c)'
      BY <2>1, <2>2, <2>3, <2>4, <2>5 DEF ConnFits, KnownUntilDown
    <2>10. QED
      BY <2>6, <2>7, <2>8, <2>9 DEF ConnFits
  <1>2. ASSUME NEW l \in Loops, NEW f \in Work(l)'
        PROVE  FunctorFits(l, f)'
    <2>1. FunctorFits(l, f)
      BY <1>2 DEF Calm, IInv, FunctorsFit
    <2>2. /\ Conns' = Conns
          /\ conn'[f[2]].loop = conn[f[2]].loop
          /\ SameStage(f[2])
      BY <2>1 DEF Calm, FunctorFits
    <2>3. /\ Building(conn'[f[2]]) <=> Building(conn[f[2]])
          /\ Told(conn'[f[2]]) <=> Told(conn[f[2]])
      BY <2>2 DEF SameStage, Building, Told, TwiceTold
    <2>4. place[BaseLoop] = "ended" => place'[BaseLoop] = "ended"
      BY DEF Calm, Loops
    <2>5. IsRaw(f) /\ KeptByUser(f[2]) => KeptByUser(f[2])'
      BY <1>2 DEF Calm, UsersMove
    <2>6. QED
      BY <2>1, <2>2, <2>3, <2>4, <2>5 DEF FunctorFits
  <1>3. NamesFit'
    <2>1. ASSUME NEW n \in Names, connections[n] # NoConn
          PROVE  connections[n] \in Conns
      BY <2>1 DEF IInv, TypeOK
    <2>2. QED
      BY <2>1 DEF Calm, mapVars, IInv, NamesFit
  <1>4. \A c \in Conns : Referenced(c)' => Referenced(c)
    <2> SUFFICES ASSUME NEW c \in Conns, Referenced(c)'
                 PROVE  Referenced(c)
      OBVIOUS
    <2>1. CASE KeptByUser(c)'
      BY <2>1 DEF Calm, UsersMove
    <2>2. CASE ~ KeptByUser(c)'
      BY <2>2 DEF Calm, mapVars, Referenced
    <2>3. QED
      BY <2>1, <2>2
  <1>5. AllAge
    BY <1>4 DEF Calm, AllAge, Ages, SameStage
  <1>6. QED
    BY <1>1, <1>2, <1>3, <1>4, <1>5 DEF Calm, UsersMove, ConnsFit, FunctorsFit

\* An iteration of a loop.
LEMMA QuietKeeps ==
  ASSUME IInv, NEW l \in Loops, QuietStep(l)
  PROVE  IInv' /\ AllAge
  <1>1. TypeOK'
    BY QuietTypes DEF IInv
  <1>2. /\ UNCHANGED <<conn, user, mapVars, server, pool, backlog>>
        /\ place[l] \in {"starting", "poll", "events", "functors"}
        /\ place'[l] # "none"
        /\ place'[l] = "ended" => place[l] = "functors"
        /\ \A k \in Loops \ {l} : place'[k] = place[k]
    <2>1. place \in [Loops -> {"none", "starting", "poll", "events", "functors",
                               "ended"}]
      BY DEF IInv, TypeOK
    <2>2. QED
      BY <2>1 DEF QuietStep, EnterLoop, Poll, SwapFunctors, EndFunctors,
                  serverVars, poolVars, acceptVars, tcpVars
  <1>3. \A k \in Loops : active[k] \subseteq {Acceptor} \cup Conns
    BY DEF IInv, TypeOK
  <1>4. /\ NoneBefore(<< >>)
        /\ Range(<< >>) = {}
    BY DEF NoneBefore, Range
  <1>5. /\ \A k \in Loops :
             /\ Work(k)' \subseteq Work(k)
             /\ place'[k] # "ended" => Work(k)' = Work(k)
             /\ held'[k] \subseteq held[k]
        /\ EstablishedFirst'
        /\ LoopsFit'
    <2>1. CASE Poll(l)
      <3>0. PICK written \in SUBSET Writable(l) :
              active' = [active EXCEPT ![l] = Ready(l) \cup written]
        BY <2>1 DEF Poll
      <3> DEFINE found == Ready(l) \cup written
      <3>1. /\ active' = [active EXCEPT ![l] = found]
            /\ place' = [place EXCEPT ![l] = "events"]
            /\ place[l] = "poll"
            /\ UNCHANGED <<conn, backlog, queue, batch, held>>
        BY <2>1, <3>0 DEF Poll, acceptVars, tcpVars
      <3>2. EstablishedFirst' /\ \A k \in Loops : Work(k)' = Work(k)
        BY <3>1 DEF IInv, EstablishedFirst, Work
      <3>3. /\ active'[l] = found
            /\ place'[l] = "events"
            /\ \A k \in Loops \ {l} :
                 active'[k] = active[k] /\ place'[k] = place[k]
        BY <3>1 DEF IInv, TypeOK
      <3>4. /\ Acceptor \in found => l = BaseLoop /\ backlog > 0
            /\ \A c \in found \ {Acceptor} :
                 conn[c].loop = l /\ conn[c].index = "kAdded"
        <4>1. Acceptor \notin Conns
          BY ConnsAre DEF IInv, Acceptor, NoConn
        <4>2. QED
          BY <4>1 DEF Ready, Writable, Registered
      <3> HIDE DEF found
      <3>5. batch[l] = << >>
        BY <3>1 DEF IInv, LoopsFit
      <3>6. LoopsFit'
        BY <3>1, <3>3, <3>4, <3>5 DEF IInv, LoopsFit
      <3>7. QED
        BY <3>1, <3>2, <3>6
    <2>2. CASE SwapFunctors(l)
      <3>1. /\ batch' = [batch EXCEPT ![l] = queue[l]]
            /\ queue' = [queue EXCEPT ![l] = << >>]
            /\ place' = [place EXCEPT ![l] = "functors"]
            /\ place[l] = "events"
            /\ active[l] = {}
            /\ UNCHANGED <<conn, backlog, active, held>>
        BY <2>2 DEF SwapFunctors, acceptVars, tcpVars
      <3>2. /\ batch'[l] = queue[l]
            /\ queue'[l] = << >>
            /\ place'[l] = "functors"
            /\ \A k \in Loops \ {l} : /\ batch'[k] = batch[k]
                                      /\ queue'[k] = queue[k]
                                      /\ place'[k] = place[k]
        BY <3>1 DEF IInv, TypeOK
      <3>3. batch[l] = << >>
        BY <3>1 DEF IInv, LoopsFit
      <3>4. \A k \in Loops : Work(k)' = Work(k)
        BY <1>4, <3>2, <3>3 DEF Work
      <3>5. EstablishedFirst'
        BY <1>4, <3>2 DEF IInv, EstablishedFirst
      <3>6. LoopsFit'
        BY <3>1, <3>2 DEF IInv, LoopsFit
      <3>7. QED
        BY <3>1, <3>4, <3>5, <3>6
    <2>3. CASE EndFunctors(l)
      <3>1. /\ place[l] = "functors"
            /\ batch[l] = << >>
            /\ held' = [held EXCEPT ![l] = {}]
            /\ queue' = IF quit[l] /\ l # BaseLoop
                        THEN [queue EXCEPT ![l] = << >>] ELSE queue
            /\ UNCHANGED <<conn, backlog, active, batch>>
            /\ place'[l] = IF quit[l] THEN "ended" ELSE "poll"
        BY <2>3 DEF EndFunctors, Release, acceptVars, tcpVars, IInv, TypeOK
      <3>2. \A k \in Loops : queue'[k] = queue[k]
                               \/ (queue'[k] = << >> /\ place'[k] = "ended")
        BY <3>1 DEF IInv, TypeOK
      <3>3. \A k \in Loops : /\ Work(k)' \subseteq Work(k)
                             /\ place'[k] # "ended" => Work(k)' = Work(k)
        BY <1>4, <3>1, <3>2 DEF Work
      <3>4. EstablishedFirst'
        BY <1>4, <3>1, <3>2 DEF IInv, EstablishedFirst
      <3>5. active[l] = {}
        BY <3>1 DEF IInv, LoopsFit
      <3>6. LoopsFit'
        BY <1>2, <3>1, <3>5 DEF IInv, LoopsFit
      <3>7. \A k \in Loops : held'[k] \subseteq held[k]
        BY <3>1 DEF IInv, TypeOK
      <3>8. QED
        BY <3>3, <3>4, <3>6, <3>7
    <2>4. CASE EnterLoop(l)
      <3>1. /\ place[l] = "starting"
            /\ place' = [place EXCEPT ![l] = "poll"]
            /\ UNCHANGED <<conn, backlog, active, queue, batch, held>>
        BY <2>4 DEF EnterLoop, acceptVars, tcpVars, iterVars
      <3>2. EstablishedFirst' /\ \A k \in Loops : Work(k)' = Work(k)
        BY <3>1 DEF IInv, EstablishedFirst, Work
      <3>3. active[l] = {} /\ batch[l] = << >>
        BY <3>1 DEF IInv, LoopsFit
      <3>4. LoopsFit'
        BY <1>2, <3>1, <3>3 DEF IInv, LoopsFit
      <3>5. QED
        BY <3>1, <3>2, <3>4
    <2>5. QED
      BY <2>1, <2>2, <2>3, <2>4 DEF QuietStep
  <1>6. Calm
    <2>1. \A k \in Loops : place[k] = "ended" => place'[k] = "ended"
      BY <1>2
    <2>2. Conns' = Conns /\ \A c \in Conns : SameStage(c)
      BY <1>2 DEF Conns, SameStage
    <2>3. UsersMove
      BY <1>2, <2>2, SameUsers
    <2>4. QED
      BY <1>2, <1>5, <2>1, <2>2, <2>3 DEF Calm
  <1>7. /\ ConnsFit' /\ FunctorsFit' /\ NamesFit' /\ AllAge
        /\ \A c \in Conns : Referenced(c)' => Referenced(c)
        /\ UsersFit'
    BY <1>1, <1>6, CalmKeeps
  <1>8. OlderAreDead'
    <2>1. Conns' = Conns /\ Len(conn') = Len(conn) /\ backlog' <= backlog
      BY <1>2 DEF Conns, IInv, TypeOK
    <2>2. QED
      BY <1>1, <1>7, <2>1, StillDead
  <1>9. BacklogFits'
    BY <1>2 DEF IInv, BacklogFits
  <1>10. ServerFits'
    BY <1>2 DEF IInv, ServerFits, IsRunning
  <1>11. QED
    BY <1>1, <1>5, <1>7, <1>8, <1>9, <1>10 DEF IInv
\* What a step that leaves channels and functors in hand as they are still
\* has to see to.
LEMMA HandsOffKeeps ==
  ASSUME IInv, TypeOK', Calm, ServerFits', BacklogFits', OlderAreDead',
         UNCHANGED <<active, batch>>,
         backlog > 0 => backlog' > 0,
         \A l \in Loops : queue'[l] \in {queue[l], << >>},
         \A l \in Loops : place'[l] = place[l] \/ place[l] = "none"
  PROVE  IInv' /\ AllAge
  <1>1. NoneBefore(<< >>) /\ Range(<< >>) = {}
    BY DEF NoneBefore, Range
  <1>2. EstablishedFirst'
    BY <1>1 DEF IInv, EstablishedFirst
  <1>3. LoopsFit'
    <2>1. \A l \in Loops : active[l] \subseteq {Acceptor} \cup Conns
      BY DEF IInv, TypeOK
    <2>2. \A l \in Loops :
            /\ active[l] # {} => place'[l] = "events"
            /\ batch[l] # << >> => place'[l] = "functors"
      BY DEF IInv, LoopsFit
    <2>3. QED
      BY <2>1, <2>2 DEF Calm, SameStage, IInv, LoopsFit
  <1>4. QED
    BY <1>2, <1>3, CalmKeeps DEF IInv

\* The server's thread, the log: what is no handler.
LEMMA ServerThreadKeeps ==
  ASSUME IInv, OtherStep, ~ PeerConnects
  PROVE  IInv' /\ AllAge
  <1>1. TypeOK'
    BY OtherTypes DEF IInv
  <1>2. UNCHANGED <<conn, user, mapVars, pool, backlog, active, batch, held>>
    BY DEF OtherStep, Start, UserQuits, QuitLoop, ServerGone, BaseLoopGone,
           LogCloses, LogOpens, serverVars, poolVars, mapVars, acceptVars,
           tcpVars, loopVars, iterVars
  <1>3. /\ \A l \in Loops : place'[l] = place[l] \/ place[l] = "none"
        /\ ServerFits'
    <2>1. CASE Start
      <3>1. /\ server = "built" /\ server' = "started"
            /\ place' = [l \in Loops |->
                           IF l \in {BaseLoop} \cup Range(pool)
                           THEN "starting" ELSE "none"]
        BY <2>1 DEF Start
      <3>2. \A l \in Loops : place[l] = "none"
        BY <3>1 DEF IInv, ServerFits
      <3>3. QED
        BY <1>2, <3>1, <3>2 DEF ServerFits
    <2>2. CASE ServerGone
      <3>1. /\ server' = "gone" /\ place' = place
            /\ place[BaseLoop] = "ended"
            /\ \A i \in DOMAIN pool : place[pool[i]] = "ended"
        BY <2>2 DEF ServerGone, Joined, loopVars
      <3>2. \A l \in Loops : ~ IsRunning(l)
        BY <3>1 DEF IInv, ServerFits, IsRunning, Range
      <3>3. QED
        BY <1>2, <3>1, <3>2 DEF ServerFits, IInv, IsRunning
    <2>3. CASE UserQuits \/ QuitLoop \/ BaseLoopGone \/ LogCloses \/ LogOpens
      <3>1. place' = place /\ server' = server
        BY <2>3 DEF UserQuits, QuitLoop, BaseLoopGone, LogCloses, LogOpens,
                    serverVars, loopVars
      <3>2. QED
        BY <1>2, <3>1 DEF ServerFits, IInv, IsRunning
    <2>4. QED
      BY <2>1, <2>2, <2>3 DEF OtherStep
  <1>4. \A l \in Loops : \/ queue'[l] = queue[l]
                         \/ queue'[l] = << >> /\ place[l] = "ended"
    <2>1. CASE BaseLoopGone
      <3>1. /\ server = "gone"
            /\ queue' = [queue EXCEPT ![BaseLoop] = << >>]
        BY <2>1 DEF BaseLoopGone
      <3>2. place[BaseLoop] = "ended"
        BY <3>1 DEF IInv, ServerFits
      <3>3. QED
        BY <3>1, <3>2 DEF IInv, TypeOK
    <2>2. CASE ~ BaseLoopGone
      BY <2>2 DEF OtherStep, Start, UserQuits, QuitLoop, ServerGone,
             LogCloses, LogOpens, loopVars, iterVars
    <2>3. QED
      BY <2>1, <2>2
  <1>5. Calm
    <2>1. \A l \in Loops : /\ Work(l)' \subseteq Work(l)
                           /\ place[l] # "ended" => Work(l)' = Work(l)
      <3>1. Range(<< >>) = {}
        BY DEF Range
      <3>2. QED
        BY <1>2, <1>4, <3>1 DEF Work
    <2>2. \A l \in Loops : place[l] = "ended" <=> place'[l] = "ended"
      <3>1. \A l \in Loops : place[l] = "none" => place'[l] # "ended"
        <4>1. CASE place' = place
          BY <4>1
        <4>2. CASE place' # place
          BY <4>2 DEF OtherStep, Start, UserQuits, QuitLoop, ServerGone,
                 BaseLoopGone, LogCloses, LogOpens, loopVars, IInv, TypeOK
        <4>3. QED
          BY <4>1, <4>2
      <3>2. QED
        BY <1>3, <3>1
    <2>3. Conns' = Conns /\ \A c \in Conns : SameStage(c)
      BY <1>2 DEF Conns, SameStage
    <2>4. UsersMove
      BY <1>2, <2>3, SameUsers
    <2>5. QED
      BY <1>2, <2>1, <2>2, <2>3, <2>4 DEF Calm
  <1>6. OlderAreDead'
    <2>1. Conns' = Conns /\ Len(conn') = Len(conn) /\ backlog' <= backlog
      BY <1>2 DEF Conns, IInv, TypeOK
    <2>2. QED
      BY <1>1, <1>5, <2>1, CalmKeeps, StillDead
  <1>7. BacklogFits'
    BY <1>2 DEF IInv, BacklogFits
  <1>8. QED
    BY <1>1, <1>2, <1>3, <1>4, <1>5, <1>6, <1>7, HandsOffKeeps

\* One more peer waits, when the one that had its name is dead.
LEMMA PeerConnectsKeeps ==
  ASSUME IInv, PeerConnects
  PROVE  IInv' /\ AllAge
  <1> DEFINE d == Len(conn) + backlog + 1
             before == d - NameWidth
  <1>1. TypeOK'
    BY OtherTypes DEF IInv, OtherStep
  <1>2. /\ Len(conn) \in Nat /\ backlog \in Nat
        /\ NameWidth \in Nat \ {0} /\ MaxAccepts \in Nat
        /\ Conns = 1 .. Len(conn)
        /\ NoConn \notin Conns
    BY ConnsAre, TcpServerAssumption DEF IInv, TypeOK
  <1>3. /\ backlog' = backlog + 1
        /\ Len(conn) + backlog < MaxAccepts
        /\ UNCHANGED <<conn, user, mapVars, server, pool, place, loopVars>>
        /\ before > 0 => before \in Conns \ Alive
    <2>1. /\ backlog' = backlog + 1
          /\ Len(conn) + backlog < MaxAccepts
          /\ before > 0 => before \in Conns \ Alive
      <3>1. before = Len(conn) + backlog + 1 - NameWidth
        BY <1>2
      <3> HIDE DEF before
      <3>2. QED
        BY <3>1 DEF PeerConnects
    <2>2. UNCHANGED <<conn, user, mapVars, server, pool, place, loopVars>>
      <3> HIDE DEF d
      <3>1. QED
        BY DEF PeerConnects, serverVars, poolVars, tcpVars, loopVars
    <2>3. QED
      BY <2>1, <2>2
  <1>4. BacklogFits'
    <2>1. backlog + 1 <= NameWidth
      <3>1. CASE before > 0
        <4>1. before \in 1 .. Len(conn)
          BY <1>3, <1>2, <3>1
        <4>2. QED
          BY <1>2, <4>1
      <3>2. CASE ~ (before > 0)
        BY <1>2, <3>2
      <3>3. QED
        BY <3>1, <3>2
    <2>2. QED
      BY <1>3, <1>2, <2>1 DEF BacklogFits
  <1>5. Calm
    <2>1. Conns' = Conns /\ \A c \in Conns : SameStage(c)
      BY <1>3 DEF Conns, SameStage
    <2>2. UsersMove
      BY <1>3, <2>1, SameUsers
    <2>3. QED
      BY <1>3, <2>1, <2>2 DEF Calm, loopVars, iterVars, Work
  <1>6. Alive' = Alive
    BY <1>3 DEF Alive, InFunctors, KeptByUser, Conns, mapVars, loopVars, iterVars
  <1>7. OlderAreDead'
    <2> SUFFICES ASSUME NEW e \in 1 .. d, NEW c \in Conns,
                        c < e, c % NameWidth = e % NameWidth
                 PROVE  c \notin Alive
      <3>1. Len(conn') + backlog' = d /\ Conns' = Conns
        BY <1>3, <1>2 DEF Conns
      <3>2. QED
        BY <1>6, <3>1 DEF OlderAreDead
    <2>1. CASE e # d
      <3>1. e \in 1 .. Len(conn) + backlog
        BY <1>2, <2>1
      <3>2. QED
        BY <3>1 DEF IInv, OlderAreDead
    <2>2. CASE e = d
      <3>1. c \in Nat /\ d \in Nat
        BY <1>2
      <3>2. c <= before
        BY <2>2, <3>1, NamesApart
      <3>3. before > 0 /\ NameWidth <= d /\ before \in Nat
        BY <1>2, <3>1, <3>2
      <3>4. before \in Conns \ Alive
        BY <1>3, <3>3
      <3>5. before % NameWidth = c % NameWidth
        BY <2>2, <3>1, <3>3, NameBefore
      <3>6. CASE c = before
        BY <3>4, <3>6
      <3>7. CASE c < before
        <4>1. before \in 1 .. Len(conn) + backlog
          BY <1>2, <3>4
        <4>2. QED
          BY <3>5, <3>7, <4>1 DEF IInv, OlderAreDead
      <3>8. QED
        BY <1>2, <3>1, <3>2, <3>3, <3>6, <3>7
    <2>3. QED
      BY <2>1, <2>2
  <1>8. ServerFits'
    BY <1>3 DEF IInv, ServerFits, IsRunning
  <1>9. /\ UNCHANGED <<active, batch>>
        /\ backlog > 0 => backlog' > 0
        /\ \A l \in Loops : queue'[l] \in {queue[l], << >>}
        /\ \A l \in Loops : place'[l] = place[l] \/ place[l] = "none"
    BY <1>3, <1>2 DEF loopVars, iterVars
  <1>10. QED
    BY <1>1, <1>4, <1>5, <1>7, <1>8, <1>9, HandsOffKeeps

\* A peer leaves: only epoll knows, for now.
LEMMA PeerClosesKeeps ==
  ASSUME IInv, PeerCloses
  PROVE  IInv' /\ AllAge
  <1>1. PICK c \in Conns : conn' = [conn EXCEPT ![c].peerGone = TRUE]
    BY DEF PeerCloses
  <1> DEFINE tcp == [conn[c] EXCEPT !.peerGone = TRUE]
  <1>2. conn[c] \in Connections
    BY ConnsAre DEF IInv
  <1>3. /\ tcp \in Connections
        /\ tcp.name = conn[c].name
        /\ tcp.loop = conn[c].loop
        /\ tcp.state = conn[c].state
        /\ tcp.index = conn[c].index
        /\ tcp.callbacks = conn[c].callbacks
        /\ tcp.revived = conn[c].revived
    BY <1>2 DEF Connections
  <1>4. conn' = [conn EXCEPT ![c] = tcp]
    BY <1>1
  <1> HIDE DEF tcp
  <1>5. /\ conn' \in Seq(Connections)
        /\ Len(conn') = Len(conn)
        /\ Conns' = Conns
        /\ conn'[c] = tcp
        /\ \A d \in Conns \ {c} : conn'[d] = conn[d]
    BY <1>3, <1>4, ConnChanges DEF IInv
  <1>6. UNCHANGED <<serverVars, mapVars, acceptVars, user, loopVars, logFile>>
    BY DEF PeerCloses
  <1>7. TypeOK'
    BY <1>5, <1>6 DEF TypeOK, IInv, serverVars, poolVars, mapVars, acceptVars,
                      loopVars, iterVars
  <1>8. Calm
    <2>1. \A d \in Conns : SameStage(d)
      BY <1>3, <1>5 DEF SameStage
    <2>2. UsersMove
      BY <1>5, <1>6, <2>1, SameUsers
    <2>3. QED
      BY <1>3, <1>5, <1>6, <2>1, <2>2
         DEF Calm, serverVars, loopVars, iterVars, Work
  <1>9. UNCHANGED <<server, pool, place, backlog, active, batch, queue>>
    BY <1>6 DEF serverVars, poolVars, acceptVars, loopVars, iterVars
  <1>10. ServerFits' /\ BacklogFits'
    BY <1>5, <1>9 DEF IInv, ServerFits, BacklogFits, IsRunning
  <1>11. OlderAreDead'
    <2>1. backlog' <= backlog
      BY <1>9 DEF IInv, TypeOK
    <2>2. QED
      BY <1>5, <1>7, <1>8, <2>1, CalmKeeps, StillDead
  <1>12. QED
    BY <1>7, <1>8, <1>9, <1>10, <1>11, HandsOffKeeps

\* A thread takes a pointer or drops one, or has tested _state: it takes what
\* is registered, and drops nothing that a functor has a raw pointer to.
LEMMA KeepingKeeps ==
  ASSUME IInv, NEW u \in Users, KeepingStep(u)
  PROVE  IInv' /\ AllAge
  <1>1. TypeOK'
    BY KeepingTypes DEF IInv
  <1>2. UNCHANGED <<serverVars, mapVars, acceptVars, conn, loopVars, logFile>>
    BY DEF KeepingStep, Take, Drop, CallTest
  <1>3. /\ UNCHANGED <<server, pool, place, backlog, active, queue, batch, held,
                       mapVars>>
        /\ \A l \in Loops : Work(l)' = Work(l)
        /\ Conns' = Conns
        /\ \A c \in Conns : SameStage(c)
    BY <1>2 DEF serverVars, poolVars, acceptVars, loopVars, iterVars, Work,
                Conns, SameStage
  <1>4. DOMAIN user = Users /\ Outside[2] = NoConn /\ NoConn \notin Conns
    BY ConnsAre DEF IInv, TypeOK, Outside
  <1>5. UsersMove
    <2>1. CASE Take(u)
      <3>1. PICK c \in Conns \cap Alive :
              /\ user' = [user EXCEPT ![u] = <<"keeps", c>>]
              /\ user[u] = Outside
              /\ conn[c].index = "kAdded"
        BY <2>1 DEF Take, Registered
      <3>2. Referenced(c) /\ ~ Building(conn[c])
        BY <1>4, <3>1, AliveIs DEF IInv, Building
      <3>3. \A v \in Users : user'[v][2] = IF v = u THEN c ELSE user[v][2]
        BY <1>4, <3>1
      <3>4. UsersFit'
        BY <1>2, <1>3, <3>1, <3>2, <3>3 DEF IInv, UsersFit
      <3>5. \A d : KeptByUser(d)' => d = c \/ KeptByUser(d)
        BY <3>3 DEF KeptByUser
      <3>6. \A d \in Conns : KeptByUser(d) => KeptByUser(d)'
        BY <1>4, <3>1, <3>3 DEF KeptByUser
      <3>7. \A l \in Loops : \A f \in Work(l) : f[2] \in Conns
        BY DEF IInv, FunctorsFit, FunctorFits
      <3>8. QED
        BY <1>3, <3>2, <3>4, <3>5, <3>6, <3>7 DEF UsersMove, Referenced
    <2>2. CASE Drop(u)
      <3>1. /\ user' = [user EXCEPT ![u] = Outside]
            /\ ~ RawPending(user[u][2])
        BY <2>2 DEF Drop
      <3>2. \A v \in Users : user'[v][2] = IF v = u THEN NoConn ELSE user[v][2]
        BY <1>4, <3>1
      <3>3. UsersFit'
        BY <1>2, <1>3, <3>2 DEF IInv, UsersFit
      <3>4. \A d \in Conns : KeptByUser(d)' => KeptByUser(d)
        BY <1>4, <3>2 DEF KeptByUser
      <3>5. ASSUME NEW l \in Loops, NEW f \in Work(l), IsRaw(f)
            PROVE  f[2] # user[u][2] /\ f[2] \in Conns
        <4>1. f[2] \in Conns /\ conn[f[2]].loop = l
          BY <3>5 DEF IInv, FunctorsFit, FunctorFits
        <4>2. queue[l] \in Seq(Functors) /\ batch[l] \in Seq(Functors)
          BY DEF IInv, TypeOK
        <4>3. f \in Range(queue[l] \o batch[l])
          BY <4>2, RangeOfConcat DEF Work
        <4>4. QED
          BY <3>1, <3>5, <4>1, <4>3 DEF RawPending
      <3>6. \A l \in Loops : \A f \in Work(l) :
              IsRaw(f) /\ KeptByUser(f[2]) => KeptByUser(f[2])'
        BY <3>2, <3>5 DEF KeptByUser
      <3>7. QED
        BY <1>3, <3>3, <3>4, <3>6 DEF UsersMove, Referenced
    <2>3. ASSUME NEW step \in {"sendInLoop", "setState"}, CallTest(u, step)
          PROVE  UsersMove
      <3>1. user' = [user EXCEPT ![u] = <<step, user[u][2]>>]
        BY <2>3 DEF CallTest
      <3>2. \A v \in Users : user'[v][2] = user[v][2]
        BY <1>4, <3>1
      <3>3. UsersFit'
        BY <1>2, <1>3, <3>2 DEF IInv, UsersFit
      <3>4. \A d : KeptByUser(d)' <=> KeptByUser(d)
        BY <3>2 DEF KeptByUser
      <3>5. QED
        BY <3>3, <3>4 DEF UsersMove, Referenced
    <2>4. QED
      BY <2>1, <2>2, <2>3 DEF KeepingStep
  <1>6. Calm
    BY <1>2, <1>3, <1>5 DEF Calm
  <1>7. ServerFits' /\ BacklogFits'
    BY <1>2, <1>3 DEF IInv, ServerFits, BacklogFits, IsRunning
  <1>8. OlderAreDead'
    <2>1. Len(conn') = Len(conn) /\ backlog' <= backlog
      BY <1>2, <1>3 DEF IInv, TypeOK
    <2>2. QED
      BY <1>1, <1>3, <1>6, <2>1, CalmKeeps, StillDead
  <1>9. QED
    BY <1>1, <1>3, <1>6, <1>7, <1>8, HandsOffKeeps

-----------------------------------------------------------------------------
(* Acceptor::handleRead.                                                   *)

AcceptorEvent(l) ==
    /\ Acceptor \in active[l]
    /\ active' = [active EXCEPT ![l] = @ \ {Acceptor}]
    /\ UNCHANGED <<pool, maxFds, server, told, acceptIndex, user, place, quit,
                   batch, held, logFile>>

AcceptStep(l) == AcceptorEvent(l) /\ NewConnection /\ backlog' = backlog - 1

\* It is in the server's loop, a peer waits, and its events are of types.
LEMMA AcceptorEventIs ==
  ASSUME IInv, NEW l \in Loops, AcceptorEvent(l)
  PROVE  /\ l = BaseLoop
         /\ backlog > 0
         /\ active' \in [Loops -> SUBSET ({Acceptor} \cup Conns)]
         /\ active'[BaseLoop] = active[BaseLoop] \ {Acceptor}
         /\ \A k \in Loops \ {BaseLoop} : active'[k] = active[k]
  <1>1. l = BaseLoop /\ backlog > 0
    BY DEF AcceptorEvent, IInv, LoopsFit
  <1>2. active \in [Loops -> SUBSET ({Acceptor} \cup Conns)]
    BY DEF IInv, TypeOK
  <1>3. QED
    BY <1>1, <1>2 DEF AcceptorEvent

\* The name that newConnection gives out is free: the one who had it is dead.
LEMMA NameIsFree ==
  ASSUME IInv, backlog > 0
  PROVE  /\ nextConnId \in Names
         /\ connections[nextConnId] = NoConn
         /\ Len(conn) + 1 \in 1 .. MaxAccepts
         /\ Len(conn) + 1 \in 1 .. Len(conn) + backlog
  <1> DEFINE c == Len(conn) + 1
             d == connections[nextConnId]
  <1>1. /\ Len(conn) \in Nat /\ backlog \in Nat /\ MaxAccepts \in Nat
        /\ Conns = 1 .. Len(conn)
        /\ NoConn \notin Conns
        /\ Len(conn) + backlog <= MaxAccepts
    BY ConnsAre, TcpServerAssumption DEF IInv, TypeOK, BacklogFits
  <1>2. c \in 1 .. MaxAccepts /\ c \in 1 .. Len(conn) + backlog
    BY <1>1
  <1>3. nextConnId \in Names /\ d \in {NoConn} \cup Conns
    BY DEF IInv, TypeOK
  <1>4. ASSUME d # NoConn PROVE FALSE
    <2>1. d \in Conns /\ conn[d].name = nextConnId
      BY <1>3, <1>4 DEF IInv, NamesFit
    <2>2. d % NameWidth = c % NameWidth
      BY <2>1 DEF IInv, NamesFit
    <2>3. d < c
      BY <1>1, <2>1
    <2>4. d \notin Alive
      BY <1>2, <2>1, <2>2, <2>3 DEF IInv, OlderAreDead
    <2>5. Referenced(d)
      BY <1>3 DEF Referenced
    <2>6. QED
      BY <1>4, <2>4, <2>5, AliveIs DEF IInv
  <1>5. QED
    BY <1>2, <1>3, <1>4

\* The new connection: up at once, or to be established in its loop.
LEMMA NewConnectionIs ==
  ASSUME IInv, backlog > 0, NewConnection, NEW c, c = Len(conn) + 1
  PROVE  /\ c \in 1 .. MaxAccepts
         /\ c \notin Conns
         /\ conn' \in Seq(Connections)
         /\ Len(conn') = c
         /\ Conns' = Conns \cup {c}
         /\ \A d \in Conns : conn'[d] = conn[d]
         /\ conn'[c].name = nextConnId
         /\ conn'[c].loop = NextLoop
         /\ NextLoop \in Loops
         /\ next' \in 1 .. IF pool = << >> THEN 1 ELSE Len(pool)
         /\ connections' = [connections EXCEPT ![nextConnId] = c]
         /\ \/ /\ NextLoop = BaseLoop
               /\ Up(conn'[c])
               /\ queue' = queue
            \/ /\ NextLoop # BaseLoop
               /\ Building(conn'[c])
               /\ Queue(NextLoop, <<"connectEstablished", c>>)
  <1> DEFINE m == NextLoop
             tcp == [name |-> nextConnId, loop |-> m, state |-> "kConnecting",
                     index |-> "kNew", peerGone |-> FALSE, callbacks |-> << >>,
                     revived |-> FALSE]
  <1>1. /\ Advance
        /\ connections' = [connections EXCEPT ![nextConnId] = c]
        /\ IF m = BaseLoop
           THEN conn' = Append(conn, Established(tcp)) /\ queue' = queue
           ELSE conn' = Append(conn, tcp)
                  /\ Queue(m, <<"connectEstablished", c>>)
    BY DEF NewConnection
  <1>2. /\ m \in Loops
        /\ next' \in 1 .. IF pool = << >> THEN 1 ELSE Len(pool)
    BY <1>1, NextLoopIs DEF IInv
  <1>3. nextConnId \in Names /\ c \in 1 .. MaxAccepts
    BY NameIsFree
  <1>4. /\ tcp \in Connections
        /\ Building(tcp)
        /\ tcp.name = nextConnId
        /\ tcp.loop = m
    BY <1>2, <1>3 DEF Connections, Building
  <1> HIDE DEF m, tcp
  <1>5. /\ Established(tcp) \in Connections
        /\ Up(Established(tcp))
        /\ Established(tcp).name = nextConnId
        /\ Established(tcp).loop = m
    BY <1>4, EstablishedIs DEF Keeps
  <1>6. CASE m = BaseLoop
    BY <1>1, <1>2, <1>3, <1>5, <1>6, ConnAdded DEF IInv, m
  <1>7. CASE m # BaseLoop
    BY <1>1, <1>2, <1>3, <1>4, <1>7, ConnAdded DEF IInv, m
  <1>8. QED
    BY <1>6, <1>7

\* Nobody else's functors move.
LEMMA NewConnectionQueues ==
  ASSUME IInv, backlog > 0, NewConnection, batch' = batch,
         NEW c, c = Len(conn) + 1, NEW m, m = NextLoop,
         NEW f, f = <<"connectEstablished", c>>
  PROVE  /\ queue' \in [Loops -> Seq(Functors)]
         /\ \A k \in Loops : Work(k) \subseteq Work(k)'
         /\ \A k \in Loops : \A g \in Work(k)' :
              g \in Work(k) \/ (g = f /\ k = m /\ k # BaseLoop)
         /\ m # BaseLoop => f \in Work(m)'
         /\ EstablishedFirst'
  <1>1. /\ m \in Loops
        /\ c \in 1 .. MaxAccepts
        /\ c \notin Conns
        /\ \/ m = BaseLoop /\ queue' = queue
           \/ m # BaseLoop /\ Queue(m, f)
    BY NewConnectionIs
  <1>2. f \in Functors /\ f[2] = c /\ IsEstablish(f)
    <2>1. f \in Functors
      BY <1>1, FunctorTyped DEF IInv, Kinds
    <2>2. QED
      BY <2>1 DEF IsEstablish
  <1>3. \A k \in Loops : c \notin About(queue[k])
                           /\ c \notin About(batch[k])
    BY <1>1 DEF IInv, FunctorsFit, FunctorFits, Work, About
  <1>4. CASE m = BaseLoop
    <2>1. queue' = queue
      BY <1>1, <1>4
    <2>2. QED
      BY <1>4, <2>1 DEF IInv, TypeOK, EstablishedFirst, Work
  <1>5. CASE m # BaseLoop
    <2>1. /\ queue' \in [Loops -> Seq(Functors)]
          /\ \A k \in Loops \ {m} : queue'[k] = queue[k]
          /\ Range(queue'[m]) = Range(queue[m]) \cup {f}
          /\ NoneBefore(queue[m]) => NoneBefore(queue'[m])
      BY <1>1, <1>2, <1>3, <1>5, Enqueued DEF IInv
    <2>2. \A k \in Loops : Work(k) \subseteq Work(k)'
      BY <2>1 DEF Work
    <2>3. /\ \A k \in Loops : \A g \in Work(k)' :
               g \in Work(k) \/ (g = f /\ k = m)
          /\ f \in Work(m)'
      BY <1>1, <2>1 DEF Work
    <2>4. EstablishedFirst'
      <3>1. \A k \in Loops : NoneBefore(queue'[k]) /\ NoneBefore(batch'[k])
        BY <2>1 DEF IInv, EstablishedFirst
      <3>2. \A k \in Loops : \A g \in Range(queue'[k]) :
              IsEstablish(g) => g[2] \notin About(batch[k])
        <4>1. \A k \in Loops : \A g \in Range(queue'[k]) :
                g \in Range(queue[k]) \/ g = f
          BY <2>1
        <4>2. QED
          BY <1>2, <1>3, <4>1 DEF IInv, EstablishedFirst
      <3>3. QED
        BY <3>1, <3>2 DEF EstablishedFirst
    <2>5. QED
      BY <1>5, <2>1, <2>2, <2>3, <2>4
  <1>6. QED
    BY <1>4, <1>5

\* A new connection takes nothing from the others.
LEMMA AcceptKeeps ==
  ASSUME IInv, NEW l \in Loops, AcceptStep(l),
         NEW c, c = Len(conn) + 1, NEW m, m = NextLoop
  PROVE  IInv' /\ AllAge
  <1> DEFINE f == <<"connectEstablished", c>>
  <1>1. /\ backlog > 0
        /\ active' \in [Loops -> SUBSET ({Acceptor} \cup Conns)]
        /\ active'[BaseLoop] = active[BaseLoop] \ {Acceptor}
        /\ \A k \in Loops \ {BaseLoop} : active'[k] = active[k]
    BY AcceptorEventIs DEF AcceptStep
  <1>2. /\ NewConnection
        /\ backlog' = backlog - 1
        /\ UNCHANGED <<pool, maxFds, server, told, acceptIndex, user, place,
                       quit, batch, held, logFile>>
    BY DEF AcceptStep, AcceptorEvent
  <1>3. /\ nextConnId \in Names
        /\ connections[nextConnId] = NoConn
        /\ c \in 1 .. Len(conn) + backlog
    BY <1>1, NameIsFree
  <1>4. f = <<"connectEstablished", c>>
    OBVIOUS
  <1>5. /\ Len(conn) \in Nat /\ backlog \in Nat
        /\ NameWidth \in Nat \ {0} /\ MaxAccepts \in Nat
        /\ Conns = 1 .. Len(conn)
        /\ NoConn \notin Conns
    BY ConnsAre, TcpServerAssumption DEF IInv, TypeOK
  <1>6. c \in Nat /\ c # NoConn /\ nextConnId = c % NameWidth
    BY <1>5 DEF IInv, NamesFit, NoConn
  <1>7. nextConnId' = (c + 1) % NameWidth
    <2>1. nextConnId' = (nextConnId + 1) % NameWidth
      BY <1>2 DEF NewConnection, NextId
    <2>2. QED
      BY <1>6, <2>1, NextName
  <1>8. f[1] = "connectEstablished" /\ f[2] = c /\ IsEstablish(f)
    BY DEF IsEstablish
  <1> HIDE DEF f
  <1>9. /\ c \in 1 .. MaxAccepts
        /\ c \notin Conns
        /\ conn' \in Seq(Connections)
        /\ Len(conn') = c
        /\ Conns' = Conns \cup {c}
        /\ \A d \in Conns : conn'[d] = conn[d]
        /\ conn'[c].name = nextConnId
        /\ conn'[c].loop = m
        /\ m \in Loops
        /\ next' \in 1 .. IF pool = << >> THEN 1 ELSE Len(pool)
        /\ connections' = [connections EXCEPT ![nextConnId] = c]
        /\ \/ m = BaseLoop /\ Up(conn'[c])
           \/ m # BaseLoop /\ Building(conn'[c])
    BY <1>1, <1>2, NewConnectionIs
  <1>10. /\ queue' \in [Loops -> Seq(Functors)]
         /\ \A k \in Loops : Work(k) \subseteq Work(k)'
         /\ \A k \in Loops : \A g \in Work(k)' :
              g \in Work(k) \/ (g = f /\ k = m /\ k # BaseLoop)
         /\ m # BaseLoop => f \in Work(m)'
         /\ EstablishedFirst'
    BY <1>1, <1>2, <1>4, NewConnectionQueues
  <1>11. /\ connections \in [Names -> {NoConn} \cup Conns]
         /\ connections' \in [Names -> {NoConn} \cup Conns']
         /\ connections'[nextConnId] = c
         /\ \A n \in Names \ {nextConnId} : connections'[n] = connections[n]
    BY <1>3, <1>9 DEF IInv, TypeOK
  <1>12. TypeOK'
    <2>1. backlog' \in 0 .. MaxAccepts
      BY <1>1, <1>2, <1>5 DEF IInv, TypeOK
    <2>2. nextConnId' \in Names
      <3>1. c + 1 \in Nat
        BY <1>6
      <3>2. (c + 1) % NameWidth \in 0 .. NameWidth - 1
        BY <1>5, <3>1, DivMod
      <3>3. QED
        BY <1>7, <3>2 DEF Names
    <2>3. active' \in [Loops -> SUBSET ({Acceptor} \cup Conns')]
      BY <1>1, <1>9
    <2>4. held' \in [Loops -> SUBSET Conns']
      BY <1>2, <1>9 DEF IInv, TypeOK
    <2>5. Len(conn') <= MaxAccepts
      BY <1>5, <1>9
    <2>6. user' \in [Users -> {Outside} \cup
                       {"keeps", "sendInLoop", "setState", "shutdownInLoop"}
                          \X Conns']
      BY <1>2, <1>9 DEF IInv, TypeOK
    <2>7. told' \in 0 .. Len(pool')
      BY <1>2 DEF IInv, TypeOK
    <2>8. QED
      BY <1>2, <1>9, <1>10, <1>11, <2>1, <2>2, <2>3, <2>4, <2>5, <2>6, <2>7
         DEF IInv, TypeOK
  <1>13. NamesFit'
    <2>1. \A d \in Conns' : conn'[d].name = d % NameWidth
      BY <1>6, <1>9 DEF IInv, NamesFit
    <2>2. \A n \in Names : connections'[n] # NoConn =>
            conn'[connections'[n]].name = n
      BY <1>9, <1>11 DEF IInv, NamesFit
    <2>3. QED
      BY <1>7, <1>9, <2>1, <2>2 DEF NamesFit
  <1>14. BacklogFits' /\ ServerFits'
    <2>1. Len(conn') + backlog' = Len(conn) + backlog /\ backlog' <= NameWidth
      BY <1>2, <1>5, <1>9 DEF IInv, BacklogFits
    <2>2. BacklogFits'
      BY <2>1 DEF IInv, BacklogFits
    <2>3. QED
      BY <1>2, <2>2 DEF IInv, ServerFits, IsRunning
  <1>15. ASSUME NEW d \in Conns, Referenced(d)'
         PROVE  Referenced(d)
    <2>1. d # NoConn /\ d # c
      BY <1>5, <1>9
    <2>2. CASE \E n \in Names : connections'[n] = d
      BY <1>11, <2>1, <2>2 DEF Referenced
    <2>3. CASE \E k \in Loops : d \in held'[k]
      BY <1>2, <2>3 DEF Referenced
    <2>4. CASE \E k \in Loops : \E g \in Work(k)' : g[2] = d /\ ~ IsRaw(g)
      BY <1>8, <1>10, <2>1, <2>4 DEF Referenced
    <2>5. CASE KeptByUser(d)'
      BY <1>2, <2>5 DEF Referenced, KeptByUser
    <2>6. QED
      BY <1>15, <2>2, <2>3, <2>4, <2>5 DEF Referenced
  <1>16. OlderAreDead'
    <2>1. ASSUME NEW d \in Conns, d \in Alive' PROVE d \in Alive
      <3>1. d # NoConn
        BY <1>5
      <3>2. QED
        BY <1>12, <1>15, <2>1, <3>1, AliveIs, AliveIsNext DEF IInv
    <2>2. 1 .. Len(conn') + backlog' = 1 .. Len(conn) + backlog
      BY <1>2, <1>5, <1>9
    <2>3. ASSUME NEW d \in 1 .. Len(conn) + backlog, NEW e \in Conns',
                 e < d, e % NameWidth = d % NameWidth
          PROVE  e \notin Alive'
      <3>1. CASE e \in Conns
        BY <2>1, <2>3, <3>1 DEF IInv, OlderAreDead
      <3>2. CASE e = c
        <4>1. d \in Nat /\ d <= Len(conn) + backlog /\ backlog <= NameWidth
          BY <1>5 DEF IInv, BacklogFits
        <4>2. c <= d - NameWidth
          BY <1>6, <2>3, <3>2, <4>1, NamesApart
        <4>3. QED
          BY <1>4, <1>5, <4>1, <4>2
      <3>3. QED
        BY <1>9, <3>1, <3>2
    <2>4. QED
      BY <2>2, <2>3 DEF OlderAreDead
  <1>17. ConnsFit'
    <2>1. ASSUME NEW d \in Conns PROVE ConnFits(d)'
      <3>1. /\ ConnFits(d)
            /\ conn'[d] = conn[d]
            /\ conn[d].loop \in Loops
            /\ conn[d].name \in Names
            /\ place' = place
        BY <1>2, <1>9, ConnsAre DEF IInv, ConnsFit, Connections
      <3>2. InMap(d) => InMap(d)'
        <4>1. d # NoConn
          BY <1>5
        <4>2. QED
          BY <1>3, <1>11, <3>1, <4>1 DEF InMap
      <3>3. OnItsWay(d) => OnItsWay(d)'
        BY <1>10, <3>1 DEF OnItsWay
      <3>4. StageFits(d)'
        BY <3>1 DEF ConnFits, StageFits
      <3>5. EstablishQueued(d)'
        BY <1>10, <3>1 DEF ConnFits, EstablishQueued
      <3>6. KeptUntilFinished(d)'
        BY <3>1, <3>2, <3>3 DEF ConnFits, KeptUntilFinished
      <3>7. KnownUntilDown(d)'
        BY <3>1, <3>2 DEF ConnFits, KnownUntilDown
      <3>8. QED
        BY <3>4, <3>5, <3>6, <3>7 DEF ConnFits
    <2>2. ConnFits(c)'
      <3>1. InMap(c)'
        BY <1>9, <1>11 DEF InMap
      <3>2. StageFits(c)'
        BY <1>9, StagesDiffer DEF StageFits
      <3>3. EstablishQueued(c)'
        BY <1>4, <1>9, <1>10, StagesDiffer DEF EstablishQueued
      <3>4. QED
        BY <3>1, <3>2, <3>3 DEF ConnFits, KeptUntilFinished, KnownUntilDown
    <2>3. QED
      BY <1>9, <2>1, <2>2 DEF ConnsFit
  <1>18. FunctorsFit'
    <2> SUFFICES ASSUME NEW k \in Loops, NEW g \in Work(k)'
                 PROVE  FunctorFits(k, g)'
      BY DEF FunctorsFit
    <2>1. CASE g \in Work(k)
      <3>1. FunctorFits(k, g)
        BY <2>1 DEF IInv, FunctorsFit
      <3>2. KeptByUser(g[2])' <=> KeptByUser(g[2])
        BY <1>2 DEF KeptByUser
      <3>3. QED
        BY <1>2, <1>9, <3>1, <3>2 DEF FunctorFits
    <2>2. CASE g = f /\ k = m /\ k # BaseLoop
      BY <1>8, <1>9, <2>2 DEF FunctorFits, IsRaw
    <2>3. QED
      BY <1>10, <2>1, <2>2
  <1>19. LoopsFit'
    <2> SUFFICES ASSUME NEW k \in Loops
                 PROVE  /\ active'[k] # {} => place'[k] = "events"
                        /\ batch'[k] # << >> => place'[k] = "functors"
                        /\ Acceptor \in active'[k] =>
                             k = BaseLoop /\ backlog' > 0
                        /\ \A d \in active'[k] \ {Acceptor} :
                             conn'[d].loop = k /\ conn'[d].index = "kAdded"
      BY DEF LoopsFit
    <2>1. /\ active'[k] \subseteq active[k]
          /\ Acceptor \notin active'[k]
      BY <1>1 DEF IInv, LoopsFit
    <2>2. active[k] \subseteq {Acceptor} \cup Conns
      BY DEF IInv, TypeOK
    <2>3. QED
      BY <1>2, <1>9, <2>1, <2>2 DEF IInv, LoopsFit
  <1>20. AllAge
    <2>1. \A d \in Conns : conn'[d] = conn[d]
      BY <1>9
    <2>2. \A d \in Conns : Ages(d)
      BY <1>15, <2>1 DEF Ages
    <2>3. IsNew(c)'
      BY <1>3, <1>9, <1>11 DEF IsNew, Referenced
    <2>4. QED
      BY <1>2, <1>9, <2>2, <2>3 DEF AllAge
  <1>21. UsersFit'
    BY <1>2, <1>9 DEF IInv, UsersFit
  <1>22. QED
    BY <1>10, <1>12, <1>13, <1>14, <1>16, <1>17, <1>18, <1>19, <1>20, <1>21
       DEF IInv

\* An accept that fails changes nothing.
LEMMA RefuseKeeps ==
  ASSUME IInv, NEW l \in Loops, AcceptorEvent(l),
         UNCHANGED <<conn, queue, mapVars, next, backlog>>
  PROVE  IInv' /\ AllAge
  <1>1. /\ active' \in [Loops -> SUBSET ({Acceptor} \cup Conns)]
        /\ active'[BaseLoop] = active[BaseLoop] \ {Acceptor}
        /\ \A k \in Loops \ {BaseLoop} : active'[k] = active[k]
    BY AcceptorEventIs
  <1>2. /\ UNCHANGED <<conn, queue, mapVars, next, backlog>>
        /\ UNCHANGED <<pool, maxFds, server, told, acceptIndex, user, place,
                       quit, batch, held, logFile>>
    BY DEF AcceptorEvent
  <1>3. TypeOK'
    BY <1>1, <1>2 DEF IInv, TypeOK, Conns, mapVars
  <1>4. Calm
    <2>1. Conns' = Conns /\ \A c \in Conns : SameStage(c)
      BY <1>2 DEF Conns, SameStage
    <2>2. UsersMove
      BY <1>2, <2>1, SameUsers
    <2>3. QED
      BY <1>2, <2>1, <2>2 DEF Calm, Work
  <1>5. OlderAreDead'
    <2>1. Conns' = Conns /\ Len(conn') = Len(conn) /\ backlog' <= backlog
      BY <1>2 DEF Conns, IInv, TypeOK
    <2>2. QED
      BY <1>3, <1>4, <2>1, CalmKeeps, StillDead
  <1>6. /\ BacklogFits'
        /\ ServerFits'
        /\ EstablishedFirst'
    BY <1>2 DEF IInv, BacklogFits, ServerFits, IsRunning, EstablishedFirst
  <1>7. LoopsFit'
    <2>1. \A k \in Loops : active'[k] \subseteq active[k]
      BY <1>1
    <2>2. QED
      BY <1>2, <2>1 DEF IInv, LoopsFit
  <1>8. QED
    BY <1>3, <1>4, <1>5, <1>6, <1>7, CalmKeeps DEF IInv

-----------------------------------------------------------------------------
(* The steps together.                                                     *)

\* A new server, without a connection, fits.
LEMMA InitIInv == Init => IInv
  <1> SUFFICES ASSUME Init PROVE IInv
    OBVIOUS
  <1>1. TypeOK
    BY InitTypeOK
  <1>2. /\ conn = << >> /\ Len(conn) = 0 /\ Conns = {} /\ backlog = 0
        /\ Range(<< >>) = {} /\ NoneBefore(<< >>)
    BY DEF Init, Conns, Range, NoneBefore
  <1>3. ConnsFit /\ OlderAreDead
    BY <1>2 DEF ConnsFit, OlderAreDead
  <1>4. NamesFit
    BY <1>2 DEF Init, NamesFit
  <1>5. BacklogFits
    BY <1>2, TcpServerAssumption DEF BacklogFits
  <1>6. ServerFits
    BY DEF Init, ServerFits
  <1>7. LoopsFit
    BY DEF Init, LoopsFit
  <1>8. FunctorsFit
    BY <1>2 DEF Init, FunctorsFit, Work
  <1>9. EstablishedFirst
    BY <1>2 DEF Init, EstablishedFirst
  <1>10. UsersFit
    BY DEF Init, UsersFit, Outside
  <1>11. QED
    BY <1>1, <1>3, <1>4, <1>5, <1>6, <1>7, <1>8, <1>9, <1>10 DEF IInv

\* One event is handled: the acceptor's or a connection's.
LEMMA HandleEventKeeps ==
  ASSUME IInv, ActiveExist, NEW l \in Loops, HandleEvent(l)
  PROVE  IInv' /\ AllAge
  <1>1. PICK channel \in active[l] :
          /\ active' = [active EXCEPT ![l] = @ \ {channel}]
          /\ IF channel = Acceptor THEN HandleAccept
                                   ELSE HandleConnection(channel, l)
    BY DEF HandleEvent
  <1>2. UNCHANGED <<pool, maxFds, server, told, acceptIndex, user, place, quit,
                    batch, held, logFile>>
    BY DEF HandleEvent
  <1>3. CASE channel = Acceptor
    <2>1. AcceptorEvent(l) /\ HandleAccept
      BY <1>1, <1>2, <1>3 DEF AcceptorEvent
    <2>2. CASE Accepted
      <3>1. AcceptStep(l)
        BY <2>1, <2>2 DEF AcceptStep, HandleAccept
      <3> DEFINE c == Len(conn) + 1
                 m == NextLoop
      <3>2. c = Len(conn) + 1 /\ m = NextLoop
        OBVIOUS
      <3> HIDE DEF c, m
      <3>3. QED
        BY <3>1, <3>2, AcceptKeeps
    <2>3. CASE ~ Accepted
      <3>1. UNCHANGED <<conn, queue, mapVars, next, backlog>>
        BY <2>1, <2>3 DEF HandleAccept
      <3>2. QED
        BY <2>1, <3>1, RefuseKeeps
    <2>4. QED
      BY <2>2, <2>3
  <1>4. CASE channel # Acceptor
    <2>1. ConnectionEvent(l, channel)
      BY <1>1, <1>2, <1>4 DEF ConnectionEvent, ActiveExist
    <2>2. CASE HandleClose(channel, l)
      <3>1. CloseStep(l, channel)
        BY <2>1, <2>2 DEF CloseStep
      <3>2. CASE l = BaseLoop
        BY <3>1, <3>2, CloseInBaseKeeps
      <3>3. CASE l # BaseLoop
        BY <3>1, <3>3, CloseInPoolKeeps
      <3>4. QED
        BY <3>2, <3>3
    <2>3. CASE /\ conn[channel].revived
               /\ \/ conn' = [conn EXCEPT ![channel] = Drained(@)]
                  \/ conn' = conn
               /\ UNCHANGED <<queue, mapVars, next, backlog>>
      BY <2>1, <2>3, WriteKeeps
    <2>4. QED
      BY <1>1, <1>4, <2>2, <2>3 DEF HandleConnection
  <1>5. QED
    BY <1>3, <1>4

\* One functor runs.
LEMMA RunFunctorKeeps ==
  ASSUME IInv, NEW l \in Loops, RunFunctor(l)
  PROVE  IInv' /\ AllAge
  <1> DEFINE f == Head(batch[l])
             c == f[2]
  <1>1. f = Head(batch[l]) /\ c = f[2]
    OBVIOUS
  <1>2. f[1] \in Kinds
    BY HeadIs, FunctorIs DEF RunFunctor
  <1> HIDE DEF f, c
  <1>3. CASE f[1] = "connectEstablished"
    BY <1>1, <1>3, RunEstablishedKeeps
  <1>4. CASE f[1] = "connectDestroyed"
    BY <1>1, <1>4, RunDestroyedKeeps
  <1>5. CASE f[1] = "removeConnectionInLoop"
    BY <1>1, <1>5, RunRemoveKeeps
  <1>6. CASE IsRaw(f)
    BY <1>1, <1>6, RunRawKeeps
  <1>7. QED
    BY <1>2, <1>3, <1>4, <1>5, <1>6 DEF Kinds, IsRaw

\* ~TcpServer lets one connection go.
LEMMA DestroyConnectionKeeps ==
  ASSUME IInv, DestroyConnection
  PROVE  IInv' /\ AllAge
  <1>1. PICK n \in Names :
          LET c == connections[n]
          IN  /\ c # NoConn
              /\ connections' = [connections EXCEPT ![n] = NoConn]
              /\ IF InItsLoop(c)
                 THEN /\ conn' = [conn EXCEPT ![c] = Destroyed(@)]
                      /\ UNCHANGED queue
                 ELSE /\ DestroysInLoop(c)
                      /\ UNCHANGED conn
    BY DEF DestroyConnection
  <1> DEFINE c == connections[n]
  <1>2. DestroyStep(n, c)
    BY <1>1 DEF DestroyStep, DestroyConnection
  <1>3. CASE InItsLoop(c)
    <2>1. conn' = [conn EXCEPT ![c] = Destroyed(@)] /\ queue' = queue
      BY <1>1, <1>3
    <2> HIDE DEF c
    <2>2. QED
      BY <1>2, <1>3, <2>1, DestroyInBaseKeeps
  <1>4. CASE ~ InItsLoop(c)
    <2>1. conn' = conn /\ DestroysInLoop(c)
      BY <1>1, <1>4
    <2> HIDE DEF c
    <2>2. QED
      BY <1>2, <1>4, <2>1, DestroyInPoolKeeps
  <1>5. QED
    BY <1>3, <1>4

\* Next, by what its steps are about.
LEMMA NextIs ==
  ASSUME Next
  PROVE  \/ \E l \in Loops : QuietStep(l) \/ HandleEvent(l) \/ RunFunctor(l)
         \/ \E u \in Users : KeepingStep(u) \/ SetState(u) \/ QueueInLoop(u)
         \/ DestroyConnection
         \/ CallbackShutdown
         \/ OtherStep
         \/ PeerCloses
  BY DEF Next, LoopStep, ServerStep, UserStep, QuietStep, OtherStep, KeepingStep

\* Every step keeps the invariant.
LEMMA NextIInv ==
  ASSUME IInv, [Next]_vars
  PROVE  IInv' /\ AllAge
  <1>1. CASE UNCHANGED vars
    <2>1. UNCHANGED <<pool, next, maxFds, server, told, nextConnId, connections,
                      acceptIndex, backlog, conn, user, place, quit, active,
                      queue, batch, held, logFile>>
      BY <1>1 DEF vars, serverVars, poolVars, mapVars, acceptVars, tcpVars,
                  loopVars, iterVars
    <2>2. Conns' = Conns /\ Alive' = Alive
      BY <2>1 DEF Conns, Alive, InFunctors, KeptByUser
    <2>3. TypeOK'
      BY <2>1, <2>2 DEF IInv, TypeOK
    <2>4. ASSUME NEW c \in Conns PROVE ConnFits(c)'
      <3>1. ConnFits(c)
        BY DEF IInv, ConnsFit
      <3>2. Work(conn[c].loop)' = Work(conn[c].loop)
        BY <2>1 DEF Work
      <3>3. StageFits(c)'
        BY <2>1, <3>1 DEF ConnFits, StageFits
      <3>4. EstablishQueued(c)'
        BY <2>1, <3>1, <3>2 DEF ConnFits, EstablishQueued
      <3>5. KeptUntilFinished(c)' /\ KnownUntilDown(c)'
        BY <2>1, <3>1, <3>2 DEF ConnFits, KeptUntilFinished, KnownUntilDown,
                                InMap, OnItsWay
      <3>6. QED
        BY <3>3, <3>4, <3>5 DEF ConnFits
    <2>5. NamesFit' /\ BacklogFits' /\ OlderAreDead'
      BY <2>1, <2>2 DEF IInv, NamesFit, BacklogFits, OlderAreDead
    <2>6. ServerFits' /\ LoopsFit'
      BY <2>1, <2>2 DEF IInv, ServerFits, IsRunning, LoopsFit
    <2>7. FunctorsFit' /\ UsersFit'
      BY <2>1, <2>2 DEF IInv, FunctorsFit, FunctorFits, KeptByUser, Work, UsersFit
    <2>8. EstablishedFirst'
      BY <2>1 DEF IInv, EstablishedFirst
    <2>9. AllAge
      BY <2>1, <2>2 DEF AllAge, Ages, Referenced, Work, KeptByUser
    <2>10. QED
      BY <2>2, <2>3, <2>4, <2>5, <2>6, <2>7, <2>8, <2>9 DEF IInv, ConnsFit
  <1>2. CASE Next
    <2>1. ASSUME NEW l \in Loops, QuietStep(l) PROVE IInv' /\ AllAge
      BY <2>1, QuietKeeps
    <2>2. ASSUME NEW l \in Loops, HandleEvent(l) PROVE IInv' /\ AllAge
      BY <1>2, <2>2, HandleEventKeeps DEF Next, Running
    <2>3. ASSUME NEW l \in Loops, RunFunctor(l) PROVE IInv' /\ AllAge
      BY <2>3, RunFunctorKeeps
    <2>4. ASSUME OtherStep PROVE IInv' /\ AllAge
      BY <2>4, ServerThreadKeeps, PeerConnectsKeeps
    <2>5. ASSUME NEW u \in Users, KeepingStep(u) PROVE IInv' /\ AllAge
      BY <2>5, KeepingKeeps
    <2>6. ASSUME NEW u \in Users, SetState(u) PROVE IInv' /\ AllAge
      BY <2>6, SetStateKeeps
    <2>7. ASSUME NEW u \in Users, QueueInLoop(u) PROVE IInv' /\ AllAge
      <3> DEFINE f == user[u]
                 c == f[2]
                 l == conn[c].loop
      <3>1. f = user[u] /\ c = f[2] /\ l = conn[c].loop
        OBVIOUS
      <3> HIDE DEF f, c, l
      <3>2. QED
        BY <2>7, <3>1, QueueInLoopKeeps
    <2>8. QED
      BY <1>2, <2>1, <2>2, <2>3, <2>4, <2>5, <2>6, <2>7, NextIs,
         DestroyConnectionKeeps, CallbackShutdownKeeps, PeerClosesKeeps
  <1>3. QED
    BY <1>1, <1>2

\* The inductive invariant holds of every behaviour of a server and its loops.
THEOREM IInvHolds == Spec => []IInv
  <1>1. Init => IInv
    BY InitIInv
  <1>2. IInv /\ [Next]_vars => IInv'
    BY NextIInv
  <1>3. QED
    BY <1>1, <1>2, PTL DEF Spec
-----------------------------------------------------------------------------
(* The properties.                                                         *)

\* Every variable of a server has its type, whatever its pool, its users, its
\* limit and its peers; _next is an index of the pool's loops.
THEOREM TypeCorrect == Spec => []TypeOK
  <1>1. IInv => TypeOK
    BY DEF IInv
  <1>2. QED
    BY <1>1, IInvHolds, PTL

\* A Channel that epoll reported is alive when its event is handled, whatever
\* other threads drop meanwhile: its connection is in the map, or its own loop
\* still has connectDestroyed to run.  Only one that a late send() registered
\* again may be dead.
THEOREM NoDeadChannelIsActiveHolds == Spec => []NoDeadChannelIsActive
  <1>1. ASSUME IInv, NEW l \in Loops, NEW c \in active[l] \ {Acceptor}
        PROVE  c \in Alive \/ conn[c].revived
    <2>1. CASE Up(conn[c])
      <3>1. Referenced(c) /\ c # NoConn
        BY <1>1, <2>1, ActiveIs
      <3>2. QED
        BY <1>1, <3>1, AliveIs DEF IInv
    <2>2. CASE Revived(conn[c])
      BY <2>2 DEF Revived
    <2>3. QED
      BY <1>1, <2>1, <2>2, ActiveIs
  <1>2. IInv => NoDeadChannelIsActive
    BY <1>1 DEF NoDeadChannelIsActive
  <1>3. QED
    BY <1>2, IInvHolds, PTL

\* ~TcpConnection never runs while its channel is in the poller of a loop that
\* has not ended, shut down or not; only a late send() can have put it back.
THEOREM FreedIsUnregisteredHolds == Spec => []FreedIsUnregistered
  <1>1. ASSUME IInv, NEW c \in Conns \ Alive, place[conn[c].loop] # "ended"
        PROVE  conn[c].index = "kNew" \/ conn[c].revived
    <2>1. /\ c # NoConn
          /\ conn[c].loop \in Loops
          /\ conn[c].name \in Names
      BY <1>1, ConnsAre DEF IInv, Connections
    <2>2. ~ Referenced(c)
      BY <1>1, <2>1, AliveIs DEF IInv
    <2>3. ~ InMap(c) /\ ~ OnItsWay(c)
      BY <2>1, <2>2 DEF Referenced, InMap, OnItsWay, IsRaw
    <2>4. Finished(conn[c]) \/ Revived(conn[c])
      BY <1>1, <2>3
         DEF IInv, ConnsFit, ConnFits, StageFits, KeptUntilFinished
    <2>5. QED
      BY <2>4 DEF Finished, Revived
  <1>2. IInv => FreedIsUnregistered
    BY <1>1 DEF FreedIsUnregistered
  <1>3. QED
    BY <1>2, IInvHolds, PTL

\* The user of a connection was told that it is down if the invariant says so.
LEMMA ToldIsDown ==
  ASSUME NEW c, Told(conn[c])
  PROVE  IsDown(c)
  BY Callbacks DEF Told, TwiceTold, IsDown

\* ~TcpServer finds in its map every connection that its user was not told is
\* down: no name is given out twice at a time, only handleClose takes one out
\* before, and neither shutdown() nor a late send() does.
THEOREM ServerKnowsConnectionsHolds == Spec => []ServerKnowsConnections
  <1>1. ASSUME IInv, place[BaseLoop] # "ended", NEW c \in Conns, ~ IsDown(c)
        PROVE  connections[conn[c].name] = c
    <2>1. ~ Told(conn[c])
      BY <1>1, ToldIsDown
    <2>2. Building(conn[c]) \/ Up(conn[c])
      BY <1>1, <2>1, StagesDiffer DEF IInv, ConnsFit, ConnFits, StageFits
    <2>3. QED
      BY <1>1, <2>2 DEF IInv, ConnsFit, ConnFits, KnownUntilDown, InMap
  <1>2. IInv => ServerKnowsConnections
    BY <1>1 DEF ServerKnowsConnections
  <1>3. QED
    BY <1>2, IInvHolds, PTL

\* When ~TcpServer is over no loop runs that could call the server back.
THEOREM NoCallerOfDeadServerHolds == Spec => []NoCallerOfDeadServer
  <1>1. IInv => NoCallerOfDeadServer
    BY DEF IInv, ServerFits, NoCallerOfDeadServer
  <1>2. QED
    BY <1>1, IInvHolds, PTL

-----------------------------------------------------------------------------
(* Each connection implements ConnectionLife.                              *)

\* The loop of a connection has ended, with whatever was in its queue.
Dropping(c) ==
    c \in Conns /\ conn[c].loop # BaseLoop /\ place[conn[c].loop] = "ended"

\* What the user sees of a connection: what it was told, and whether it lives.
LifeFits(c) ==
    /\ c \notin Conns => LifeOf(c) = "none"
    /\ c \in Conns =>
         /\ conn[c].callbacks = << >> =>
              LifeOf(c) = IF Referenced(c) THEN "built" ELSE "lost"
         /\ conn[c].callbacks = <<"up">> =>
              LifeOf(c) = IF Referenced(c) THEN "up" ELSE "lost"
         /\ conn[c].callbacks = <<"up", "down">> =>
              LifeOf(c) = IF Referenced(c) THEN "down" ELSE "freed"
         /\ TwiceTold(conn[c]) => LifeOf(c) = "mistold"

\* What it was told is one of these.
ToldFits(c) ==
    c \in Conns =>
      \/ Building(conn[c]) /\ conn[c].callbacks = << >>
      \/ (Up(conn[c]) \/ Untold(conn[c])) /\ conn[c].callbacks = <<"up">>
      \/ conn[c].callbacks = <<"up", "down">>
      \/ TwiceTold(conn[c])

\* A connection that nobody refers to and that is not down: the server is
\* being destroyed, and its loop has ended or it had been shut down.
DeadFits(c) ==
    /\ c \in Conns
    /\ ~ Referenced(c)
    /\ conn[c].callbacks = << >> \/ conn[c].callbacks = <<"up">>
    => /\ place[BaseLoop] = "ended"
       /\ Building(conn[c]) \/ Up(conn[c]) => Dropping(c)

\* One told twice was told more than any other.
LEMMA TwiceToldIs ==
  ASSUME NEW tcp, TwiceTold(tcp)
  PROVE  /\ tcp.callbacks # << >>
         /\ tcp.callbacks # <<"up">>
         /\ tcp.callbacks # <<"up", "down">>
  <1>1. ASSUME tcp.callbacks = << >> PROVE FALSE
    BY <1>1 DEF TwiceTold
  <1>2. ASSUME tcp.callbacks = <<"up">> PROVE FALSE
    BY <1>2 DEF TwiceTold
  <1>3. ASSUME tcp.callbacks = <<"up", "down">> PROVE FALSE
    BY <1>3 DEF TwiceTold
  <1>4. QED
    BY <1>1, <1>2, <1>3

\* The life of a connection is read off its callbacks.
LEMMA LifeIs ==
  ASSUME IInv, NEW c
  PROVE  LifeFits(c)
  <1>1. c \notin Conns => LifeOf(c) = "none"
    BY DEF LifeOf
  <1>2. ASSUME c \in Conns PROVE c \in Alive <=> Referenced(c)
    <2>1. c # NoConn
      BY <1>2, ConnsAre DEF IInv
    <2>2. QED
      BY <2>1, AliveIs DEF IInv
  <1> DEFINE none == << >>
             one == <<"up">>
             two == <<"up", "down">>
             said == conn[c].callbacks
  <1>3. none # one /\ none # two /\ one # two
    BY Callbacks
  <1>4. TwiceTold(conn[c]) => said # none /\ said # one /\ said # two
    BY TwiceToldIs
  <1>5. ASSUME c \in Conns
        PROVE  LifeOf(c) =
                 CASE said = none -> IF c \in Alive THEN "built" ELSE "lost"
                   [] said = one -> IF c \in Alive THEN "up" ELSE "lost"
                   [] said = two -> IF c \in Alive THEN "down" ELSE "freed"
                   [] OTHER -> "mistold"
    BY <1>5 DEF LifeOf
  <1> HIDE DEF none, one, two, said
  <1>6. ASSUME c \in Conns
        PROVE  /\ said = none =>
                    LifeOf(c) = IF Referenced(c) THEN "built" ELSE "lost"
               /\ said = one =>
                    LifeOf(c) = IF Referenced(c) THEN "up" ELSE "lost"
               /\ said = two =>
                    LifeOf(c) = IF Referenced(c) THEN "down" ELSE "freed"
               /\ TwiceTold(conn[c]) => LifeOf(c) = "mistold"
    BY <1>2, <1>3, <1>4, <1>5, <1>6
  <1>7. QED
    BY <1>1, <1>6 DEF LifeFits, none, one, two, said

\* Each stage has told its user what it should have.
LEMMA ToldIs ==
  ASSUME IInv, NEW c
  PROVE  ToldFits(c)
  <1> SUFFICES ASSUME c \in Conns
               PROVE  \/ Building(conn[c]) /\ conn[c].callbacks = << >>
                      \/ /\ Up(conn[c]) \/ Untold(conn[c])
                         /\ conn[c].callbacks = <<"up">>
                      \/ conn[c].callbacks = <<"up", "down">>
                      \/ TwiceTold(conn[c])
    BY DEF ToldFits
  <1>1. Staged(conn[c])
    BY DEF IInv, ConnsFit, ConnFits, StageFits, Staged
  <1>2. QED
    BY <1>1 DEF Staged, Building, Up, Closing, Finished, Revived, Told, Untold

\* Whoever is in the map, or has connectDestroyed on its way, is alive.
LEMMA DeadIs ==
  ASSUME IInv, NEW c
  PROVE  DeadFits(c)
  <1> SUFFICES ASSUME c \in Conns, ~ Referenced(c),
                      \/ conn[c].callbacks = << >>
                      \/ conn[c].callbacks = <<"up">>
               PROVE  /\ place[BaseLoop] = "ended"
                      /\ Building(conn[c]) \/ Up(conn[c]) => Dropping(c)
    BY DEF DeadFits
  <1>1. conn[c].name \in Names /\ conn[c].loop \in Loops
    BY ConnsAre DEF IInv, Connections
  <1>2. ~ InMap(c) /\ ~ OnItsWay(c)
    BY <1>1 DEF Referenced, InMap, OnItsWay, IsRaw
  <1>3. ConnFits(c)
    BY DEF IInv, ConnsFit
  <1>4. CASE Building(conn[c]) \/ Up(conn[c])
    BY <1>2, <1>3, <1>4
       DEF ConnFits, KeptUntilFinished, KnownUntilDown, Dropping
  <1>5. CASE ~ (Building(conn[c]) \/ Up(conn[c]))
    <2>1. ~ Told(conn[c])
      BY Callbacks, TwiceToldIs DEF Told
    <2>2. Finished(conn[c]) \/ Revived(conn[c])
      BY <1>3, <1>5, <2>1, StagesDiffer DEF ConnFits, StageFits
    <2>3. QED
      BY <1>3, <1>5, <2>1, <2>2 DEF ConnFits, StageFits
  <1>6. QED
    BY <1>4, <1>5

\* All of the next state.
LEMMA LifeNext ==
  ASSUME NEW c
  PROVE  IInv' => LifeFits(c)' /\ ToldFits(c)' /\ DeadFits(c)'
  <1>1. IInv => LifeFits(c) /\ ToldFits(c) /\ DeadFits(c)
    BY LifeIs, ToldIs, DeadIs
  <1>2. QED
    BY <1>1, PTL

\* A connection that is freed, and was told no more in that step.
LEMMA FreedIs ==
  ASSUME IInv, IInv', NEW c, c \in Conns, c \in Conns', Referenced(c),
         ~ Referenced(c)', conn'[c].callbacks = conn[c].callbacks
  PROVE  \/ LifeOf(c)' = LifeOf(c)
         \/ LifeOf(c) = "down" /\ LifeOf(c)' = "freed"
         \/ /\ place'[BaseLoop] = "ended"
            /\ LifeOf(c)' = "lost"
            /\ \/ LifeOf(c) \in {"built", "up"} /\ Dropping(c)'
               \/ LifeOf(c) = "up" /\ conn'[c].state = "kDisconnecting"
  <1>1. /\ LifeFits(c) /\ ToldFits(c)
        /\ LifeFits(c)' /\ ToldFits(c)' /\ DeadFits(c)'
    BY LifeIs, ToldIs, LifeNext
  <1>2. CASE conn[c].callbacks = << >>
    <2>1. Building(conn'[c])
      BY <1>1, <1>2, Callbacks, TwiceToldIs DEF ToldFits
    <2>2. QED
      BY <1>1, <1>2, <2>1 DEF LifeFits, DeadFits
  <1>3. CASE conn[c].callbacks = <<"up">>
    <2>1. Up(conn'[c]) \/ Untold(conn'[c])
      BY <1>1, <1>3, Callbacks, TwiceToldIs DEF ToldFits
    <2>2. QED
      BY <1>1, <1>3, <2>1 DEF LifeFits, DeadFits, Untold
  <1>4. CASE conn[c].callbacks = <<"up", "down">>
    BY <1>1, <1>4 DEF LifeFits
  <1>5. CASE TwiceTold(conn[c])
    <2>1. TwiceTold(conn'[c])
      BY <1>5 DEF TwiceTold
    <2>2. QED
      BY <1>1, <1>5, <2>1 DEF LifeFits
  <1>6. QED
    BY <1>1, <1>2, <1>3, <1>4, <1>5 DEF ToldFits

\* A connection that was told something.
LEMMA TellsIs ==
  ASSUME IInv, IInv', NEW c, c \in Conns, c \in Conns', Referenced(c),
         Lives(conn[c], conn'[c]), conn'[c].callbacks # conn[c].callbacks
  PROVE  \/ LifeOf(c)' = LifeOf(c)
         \/ LifeOf(c) = "built" /\ LifeOf(c)' = "up"
         \/ LifeOf(c) = "up" /\ LifeOf(c)' \in {"down", "freed"}
         \/ /\ place'[BaseLoop] = "ended"
            /\ LifeOf(c)' = "lost"
            /\ LifeOf(c) = "built"
            /\ Dropping(c)'
         \/ LifeOf(c) = "down" /\ LifeOf(c)' = "mistold" /\ conn'[c].revived
  <1>1. LifeFits(c) /\ LifeFits(c)' /\ DeadFits(c)'
    BY LifeIs, LifeNext
  <1>2. CASE Building(conn[c]) /\ Up(conn'[c])
    <2>1. conn[c].callbacks = << >> /\ conn'[c].callbacks = <<"up">>
      BY <1>2 DEF Building, Up
    <2>2. QED
      BY <1>1, <1>2, <2>1 DEF LifeFits, DeadFits
  <1>3. CASE /\ conn[c].callbacks = <<"up">>
             /\ conn'[c].callbacks = <<"up", "down">>
    BY <1>1, <1>3 DEF LifeFits
  <1>4. CASE Told(conn[c]) /\ TwiceTold(conn'[c]) /\ conn'[c].revived
    BY <1>1, <1>4 DEF LifeFits, Told
  <1>5. QED
    BY <1>2, <1>3, <1>4 DEF Lives

\* Every step is one of the abstract connection's, or leaves it as it is.
LEMMA NextIsLife ==
  ASSUME IInv, IInv', AllAge, NEW c
  PROVE  Life(c)!Next
  <1>1. LifeFits(c) /\ ToldFits(c) /\ LifeFits(c)'
    BY LifeIs, ToldIs, LifeNext
  <1>2. place[BaseLoop] = "ended" => place'[BaseLoop] = "ended"
    BY DEF AllAge, Loops
  <1>3. CASE c \notin Conns /\ c \notin Conns'
    <2>1. LifeOf(c)' = LifeOf(c)
      BY <1>1, <1>3 DEF LifeFits
    <2>2. QED
      BY <1>2, <1>3, <2>1 DEF Life!Next
  <1>4. CASE c \notin Conns /\ c \in Conns'
    <2>1. IsNew(c)'
      BY <1>4 DEF AllAge
    <2>2. conn'[c].callbacks = << >> \/ conn'[c].callbacks = <<"up">>
      BY <2>1 DEF IsNew, Building, Up
    <2>3. LifeOf(c) = "none" /\ LifeOf(c)' \in {"built", "up"}
      BY <1>1, <1>4, <2>1, <2>2 DEF LifeFits, IsNew
    <2>4. QED
      BY <1>2, <1>4, <2>3 DEF Life!Next, Life!Accept, Life!Move
  <1>5. CASE c \in Conns
    <2>1. c \in Conns' /\ Ages(c) /\ conn[c].loop \in Loops
      BY <1>5, ConnsAre DEF AllAge, IInv, Connections
    <2>2. /\ Dropping(c) => Dropping(c)'
          /\ conn[c].revived => conn'[c].revived
      BY <2>1 DEF Dropping, AllAge, Ages
    <2>3. \/ LifeOf(c)' = LifeOf(c)
          \/ LifeOf(c) = "built" /\ LifeOf(c)' = "up"
          \/ LifeOf(c) = "up" /\ LifeOf(c)' = "down"
          \/ LifeOf(c) \in {"up", "down"} /\ LifeOf(c)' = "freed"
          \/ /\ place'[BaseLoop] = "ended"
             /\ LifeOf(c)' = "lost"
             /\ \/ LifeOf(c) \in {"built", "up"} /\ Dropping(c)'
                \/ LifeOf(c) = "up" /\ conn'[c].state = "kDisconnecting"
          \/ LifeOf(c) = "down" /\ LifeOf(c)' = "mistold" /\ conn'[c].revived
      <3>1. CASE conn'[c].callbacks # conn[c].callbacks
        BY <1>5, <2>1, <3>1, TellsIs DEF Ages
      <3>2. CASE /\ conn'[c].callbacks = conn[c].callbacks
                 /\ Referenced(c) <=> Referenced(c)'
        <4>1. TwiceTold(conn[c]) => TwiceTold(conn'[c])
          BY <3>2 DEF TwiceTold
        <4>2. LifeOf(c)' = LifeOf(c)
          BY <1>1, <1>5, <2>1, <3>2, <4>1 DEF LifeFits, ToldFits
        <4>3. QED
          BY <4>2
      <3>3. CASE /\ conn'[c].callbacks = conn[c].callbacks
                 /\ Referenced(c) /\ ~ Referenced(c)'
        BY <1>5, <2>1, <3>3, FreedIs
      <3>4. QED
        BY <2>1, <3>1, <3>2, <3>3 DEF Ages
    <2>4. QED
      BY <1>2, <1>5, <2>1, <2>2, <2>3
         DEF Dropping, Life!Next, Life!Establish, Life!Close, Life!Free,
             Life!Lose, Life!CloseAgain, Life!Move
  <1>6. QED
    BY <1>3, <1>4, <1>5

\* Each connection is built, told up, told down once and freed, across its
\* close, shutdown(), send() and ~TcpServer, whichever threads do these.  Only
\* ~TcpServer frees one untold, when its loop ended before the functor ran or
\* when it had been shut down; only a late send() has one told twice.
THEOREM ImplementsConnectionLifeHolds == Spec => ImplementsConnectionLife
  <1>1. Init => \A c \in 1 .. MaxAccepts : Life(c)!Init
    <2> SUFFICES ASSUME Init, NEW c \in 1 .. MaxAccepts
                 PROVE  Life(c)!Init
      OBVIOUS
    <2>1. c \notin Conns /\ place[BaseLoop] # "ended"
      BY DEF Init, Conns, Loops
    <2>2. QED
      BY <2>1 DEF Life!Init, LifeOf
  <1>2. IInv /\ [Next]_vars =>
          [\A c \in 1 .. MaxAccepts : Life(c)!Next]_vars
    <2>1. ASSUME IInv, Next, NEW c \in 1 .. MaxAccepts
          PROVE  Life(c)!Next
      <3>1. IInv' /\ AllAge
        BY <2>1, NextIInv
      <3>2. QED
        BY <2>1, <3>1, NextIsLife
    <2>2. QED
      BY <2>1
  <1>3. QED
    BY <1>1, <1>2, IInvHolds, PTL DEF Spec, ImplementsConnectionLife

=============================================================================
