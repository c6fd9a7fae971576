---------------------------- MODULE PollerProofs ----------------------------
(***************************************************************************)
(* Machine-checked proofs about Poller, for any channels and any file      *)
(* descriptors: the map and the kernel's interest list always agree with   *)
(* what the channels believe, and epoll_ctl never fails.                   *)
(***************************************************************************)
EXTENDS Poller, FiniteSetTheorems, TLAPS

-----------------------------------------------------------------------------
(* Initial states.                                                         *)

\* No object exists and nothing is registered.
LEMMA InitIInv == Init => IInv
  <1> SUFFICES ASSUME Init PROVE IInv
    OBVIOUS
  <1>1. \A f \in Fds : ~ Listed(f)
    BY DEF Init, Listed, NotListed
  <1>2. \A c \in Channels : ~ Exists(c) /\ index[c] = kNew
    BY DEF Init, Exists
  <1>3. TypeOK
    <2>1. NotListed \in [mask : SUBSET (ReadEvent \cup WriteEvent),
                         ptr  : Channels \cup {NoChannel}]
      BY DEF NotListed, NoneEvent
    <2>2. QED
      BY <2>1, PollerAssumption DEF Init, TypeOK, NoneEvent
  <1>4. MapExact
    BY <1>2 DEF Init, MapExact
  <1>5. QED
    BY <1>1, <1>2, <1>3, <1>4
    DEF Init, IInv, FdsDistinct, RegistrationExact, NoCtlError, kNew,
        kDeleted

-----------------------------------------------------------------------------
(* Facts of a state that satisfies the invariant.                          *)

\* An object's fd is a file descriptor.
LEMMA FdOfObject ==
  ASSUME TypeOK, NEW c \in Channels, Exists(c)
  PROVE  fd[c] \in Fds
  BY DEF TypeOK, Exists

\* The kernel lists an object's fd exactly when its _index is kAdded: the
\* test that updateChannel and removeChannel make decides which of
\* EPOLL_CTL_ADD and EPOLL_CTL_MOD/DEL the kernel will accept.
LEMMA ListedIffAdded ==
  ASSUME IInv, NEW c \in Channels, Exists(c)
  PROVE  Listed(fd[c]) <=> index[c] = kAdded
  <1>1. fd[c] \in Fds
    BY FdOfObject DEF IInv
  <1>2. ASSUME Listed(fd[c]) PROVE index[c] = kAdded
    <2>1. PICK d \in Channels : fd[d] = fd[c] /\ index[d] = kAdded
      BY <1>1, <1>2 DEF IInv, RegistrationExact
    <2>2. d = c
      BY <2>1 DEF IInv, FdsDistinct, Exists
    <2>3. QED
      BY <2>1, <2>2
  <1>3. ASSUME index[c] = kAdded PROVE Listed(fd[c])
    BY <1>3 DEF IInv, RegistrationExact
  <1>4. QED
    BY <1>2, <1>3

\* The kernel's entry for an object whose _index is kAdded is its own.
LEMMA EntryOfObject ==
  ASSUME IInv, NEW c \in Channels, Exists(c), index[c] = kAdded
  PROVE  epoll[fd[c]].ptr = c /\ epoll[fd[c]].mask = events[c]
  <1>1. fd[c] \in Fds /\ Listed(fd[c])
    BY FdOfObject DEF IInv, RegistrationExact
  <1>2. PICK d \in Channels : /\ fd[d] = fd[c]
                              /\ epoll[fd[c]].ptr = d
                              /\ epoll[fd[c]].mask = events[d]
    BY <1>1 DEF IInv, RegistrationExact
  <1>3. d = c
    BY <1>2 DEF IInv, FdsDistinct, Exists
  <1>4. QED
    BY <1>2, <1>3

-----------------------------------------------------------------------------
(* The steps.                                                              *)

\* Whatever enable or disable does, it keeps the invariant.
LEMMA SetEventsIInv ==
  ASSUME IInv, NEW c \in Channels,
         NEW mask \in SUBSET (ReadEvent \cup WriteEvent),
         SetEvents(c, mask)
  PROVE  IInv'
  <1>0. Exists(c) /\ fd[c] \in Fds /\ c # NoChannel
    BY FdOfObject, PollerAssumption DEF SetEvents, IInv
  <1>1. /\ fd' = fd
        /\ events' = [events EXCEPT ![c] = mask]
        /\ UNCHANGED <<eventListSize, activeChannels>>
    BY DEF SetEvents, pollVars
  <1>2. CASE index[c] \in {kNew, kDeleted}
    <2>1. /\ index' = [index EXCEPT ![c] = kAdded]
          /\ channels' = IF index[c] = kNew
                         THEN [channels EXCEPT ![fd[c]] = c] ELSE channels
          /\ EpollCtl("ADD", c, mask)
      BY <1>2 DEF SetEvents, UpdateChannel, kNew, kAdded, kDeleted
    <2>2. ~ Listed(fd[c])
      BY <1>0, <1>2, ListedIffAdded DEF kNew, kAdded, kDeleted
    <2>3. /\ ctlError' = ctlError
          /\ epoll' = [epoll EXCEPT ![fd[c]] = [mask |-> mask, ptr |-> c]]
      BY <2>1, <2>2 DEF EpollCtl, IInv, TypeOK, NoCtlError
    <2>4. channels' = [channels EXCEPT ![fd[c]] = c]
      BY <1>0, <1>2, <2>1 DEF IInv, TypeOK, MapExact, kNew, kDeleted
    <2>5. TypeOK'
      BY <1>0, <1>1, <2>1, <2>3, <2>4 DEF IInv, TypeOK
    <2>6. FdsDistinct'
      BY <1>1 DEF IInv, FdsDistinct, Exists
    <2>7. RegistrationExact'
      BY <1>0, <1>1, <2>1, <2>3
      DEF IInv, TypeOK, RegistrationExact, FdsDistinct, Listed, Exists
    <2>8. MapExact'
      BY <1>0, <1>1, <2>1, <2>4
      DEF IInv, TypeOK, MapExact, FdsDistinct, Exists, kNew, kAdded
    <2>9. (\A d \in Channels : index[d] = kDeleted => events[d] = NoneEvent)'
      BY <1>1, <2>1 DEF IInv, TypeOK, kAdded, kDeleted
    <2>10. QED
      BY <2>3, <2>5, <2>6, <2>7, <2>8, <2>9 DEF IInv, NoCtlError
  <1>3. CASE index[c] = kAdded /\ mask = NoneEvent
    <2>1. /\ index' = [index EXCEPT ![c] = kDeleted]
          /\ channels' = channels
          /\ EpollCtl("DEL", c, mask)
      BY <1>3 DEF SetEvents, UpdateChannel, kNew, kAdded, kDeleted
    <2>2. Listed(fd[c])
      BY <1>0, <1>3, ListedIffAdded
    <2>3. /\ ctlError' = ctlError
          /\ epoll' = [epoll EXCEPT ![fd[c]] = NotListed]
      BY <2>1, <2>2 DEF EpollCtl, IInv, TypeOK, NoCtlError
    <2>5. TypeOK'
      BY <1>0, <1>1, <2>1, <2>3 DEF IInv, TypeOK, NotListed, NoneEvent
    <2>6. FdsDistinct'
      BY <1>1 DEF IInv, FdsDistinct, Exists
    <2>7. RegistrationExact'
      BY <1>0, <1>1, <2>1, <2>3
      DEF IInv, TypeOK, RegistrationExact, FdsDistinct, Listed, Exists,
          NotListed, kAdded, kDeleted
    <2>8. MapExact'
      BY <1>0, <1>1, <1>3, <2>1
      DEF IInv, TypeOK, MapExact, FdsDistinct, Exists, kNew, kAdded, kDeleted
    <2>9. (\A d \in Channels : index[d] = kDeleted => events[d] = NoneEvent)'
      BY <1>1, <1>3, <2>1 DEF IInv, TypeOK
    <2>10. QED
      BY <2>3, <2>5, <2>6, <2>7, <2>8, <2>9 DEF IInv, NoCtlError
  <1>4. CASE index[c] = kAdded /\ mask # NoneEvent
    <2>1. /\ index' = index
          /\ channels' = channels
          /\ EpollCtl("MOD", c, mask)
      BY <1>4 DEF SetEvents, UpdateChannel, kNew, kAdded, kDeleted
    <2>2. Listed(fd[c])
      BY <1>0, <1>4, ListedIffAdded
    <2>3. /\ ctlError' = ctlError
          /\ epoll' = [epoll EXCEPT ![fd[c]] = [mask |-> mask, ptr |-> c]]
      BY <2>1, <2>2 DEF EpollCtl, IInv, TypeOK, NoCtlError
    <2>5. TypeOK'
      BY <1>0, <1>1, <2>1, <2>3 DEF IInv, TypeOK
    <2>6. FdsDistinct'
      BY <1>1 DEF IInv, FdsDistinct, Exists
    <2>7. RegistrationExact'
      BY <1>0, <1>1, <1>4, <2>1, <2>3
      DEF IInv, TypeOK, RegistrationExact, FdsDistinct, Listed, Exists
    <2>8. MapExact'
      BY <1>1, <2>1 DEF IInv, MapExact, Exists
    <2>9. (\A d \in Channels : index[d] = kDeleted => events[d] = NoneEvent)'
      BY <1>1, <1>4, <2>1 DEF IInv, TypeOK, kAdded, kDeleted
    <2>10. QED
      BY <2>3, <2>5, <2>6, <2>7, <2>8, <2>9 DEF IInv, NoCtlError
  <1>5. QED
    BY <1>2, <1>3, <1>4 DEF SetEvents, UpdateChannel

\* Removing a channel keeps the invariant.
LEMMA RemoveChannelIInv ==
  ASSUME IInv, NEW c \in Channels, RemoveChannel(c)
  PROVE  IInv'
  <1>0. Exists(c) /\ fd[c] \in Fds
    BY FdOfObject DEF RemoveChannel, IInv
  <1>1. /\ fd' = fd
        /\ events' = events
        /\ index' = [index EXCEPT ![c] = kNew]
        /\ channels' = [channels EXCEPT ![fd[c]] = NoChannel]
        /\ UNCHANGED <<eventListSize, activeChannels>>
    BY DEF RemoveChannel, pollVars
  <1>2. /\ ctlError' = ctlError
        /\ epoll' = IF index[c] = kAdded
                    THEN [epoll EXCEPT ![fd[c]] = NotListed] ELSE epoll
    BY <1>0, ListedIffAdded
    DEF RemoveChannel, EpollCtl, IInv, TypeOK, NoCtlError
  <1>3. ~ Listed(fd[c])'
    BY <1>0, <1>1, <1>2, ListedIffAdded
    DEF IInv, TypeOK, Listed, NotListed
  <1>4. TypeOK'
    BY <1>0, <1>1, <1>2 DEF IInv, TypeOK, NotListed, NoneEvent
  <1>5. FdsDistinct'
    BY <1>1 DEF IInv, FdsDistinct, Exists
  <1>6. RegistrationExact'
    BY <1>0, <1>1, <1>2, <1>3, EntryOfObject
    DEF IInv, TypeOK, RegistrationExact, FdsDistinct, Listed, Exists,
        NotListed, kNew, kAdded
  <1>7. MapExact'
    BY <1>0, <1>1 DEF IInv, TypeOK, MapExact, FdsDistinct, Exists
  <1>8. (\A d \in Channels : index[d] = kDeleted => events[d] = NoneEvent)'
    BY <1>1 DEF IInv, TypeOK, kNew, kDeleted
  <1>9. QED
    BY <1>2, <1>4, <1>5, <1>6, <1>7, <1>8 DEF IInv, NoCtlError

\* So does building a channel around a free fd.
LEMMA ConstructIInv ==
  ASSUME IInv, NEW c \in Channels, NEW f \in Fds, Construct(c, f)
  PROVE  IInv'
  <1>1. TypeOK'
    BY DEF Construct, IInv, TypeOK, pollVars, NoneEvent
  <1>2. FdsDistinct'
    BY PollerAssumption
    DEF Construct, IInv, TypeOK, FdsDistinct, Exists
  <1>3. RegistrationExact'
    BY PollerAssumption
    DEF Construct, IInv, TypeOK, RegistrationExact, Listed, Exists, kNew,
        kAdded
  <1>4. MapExact'
    BY PollerAssumption
    DEF Construct, IInv, TypeOK, MapExact, Exists, kNew
  <1>5. QED
    BY <1>1, <1>2, <1>3, <1>4
    DEF Construct, IInv, TypeOK, NoCtlError, kNew, kDeleted

\* And destroying a channel that was removed.
LEMMA DestroyIInv ==
  ASSUME IInv, NEW c \in Channels, Destroy(c)
  PROVE  IInv'
  <1>0. Exists(c) /\ fd[c] \in Fds /\ ~ Listed(fd[c])
    BY FdOfObject, ListedIffAdded DEF Destroy, IInv, kNew, kAdded
  <1>1. TypeOK'
    BY DEF Destroy, IInv, TypeOK, pollVars, NotListed, NoneEvent
  <1>2. FdsDistinct'
    BY PollerAssumption DEF Destroy, IInv, TypeOK, FdsDistinct, Exists
  <1>3. RegistrationExact'
    BY <1>0, PollerAssumption
    DEF Destroy, IInv, TypeOK, RegistrationExact, Listed, Exists, NotListed
  <1>4. MapExact'
    BY PollerAssumption
    DEF Destroy, IInv, TypeOK, MapExact, Exists, kNew
  <1>5. QED
    BY <1>1, <1>2, <1>3, <1>4 DEF Destroy, IInv, NoCtlError

\* Polling and going through its result changes no channel.
LEMMA PollIInv ==
  ASSUME IInv, Poll \/ \E c \in Channels : HandleEvent(c)
  PROVE  IInv'
  <1>1. UNCHANGED <<fd, events, index, channels, epoll, ctlError>>
    BY DEF Poll, HandleEvent, channelVars
  <1>2. activeChannels' \subseteq Channels
    <2>1. ASSUME NEW f \in ListedFds PROVE epoll[f].ptr \in Channels
      BY DEF ListedFds, Listed, IInv, TypeOK
    <2>2. QED
      BY <2>1 DEF Poll, HandleEvent, IInv, TypeOK
  <1>3. eventListSize' \in Nat \ {0}
    BY DEF Poll, HandleEvent, IInv, TypeOK
  <1>4. QED
    BY <1>1, <1>2, <1>3 DEF IInv, TypeOK, FdsDistinct, RegistrationExact,
       MapExact, NoCtlError, Listed, Exists

\* The invariant is inductive.
LEMMA NextIInv == IInv /\ [Next]_vars => IInv'
  <1> SUFFICES ASSUME IInv, [Next]_vars PROVE IInv'
    OBVIOUS
  <1>1. CASE UNCHANGED vars
    BY <1>1 DEF vars, channelVars, pollVars, IInv, TypeOK, FdsDistinct,
       RegistrationExact, MapExact, NoCtlError, Listed, Exists
  <1>2. ASSUME NEW c \in Channels,
               \/ EnableReading(c) \/ DisableReading(c)
               \/ EnableWriting(c) \/ DisableWriting(c)
               \/ DisableAll(c)
        PROVE  IInv'
    <2>1. events[c] \subseteq ReadEvent \cup WriteEvent
      BY DEF IInv, TypeOK
    <2>2. PICK mask \in SUBSET (ReadEvent \cup WriteEvent) :
                 SetEvents(c, mask)
      BY <1>2, <2>1 DEF EnableReading, DisableReading, EnableWriting,
         DisableWriting, DisableAll, NoneEvent
    <2>3. QED
      BY <2>2, SetEventsIInv
  <1>3. ASSUME NEW c \in Channels,
               \/ \E f \in Fds : Construct(c, f)
               \/ Destroy(c) \/ RemoveChannel(c) \/ HandleEvent(c)
        PROVE  IInv'
    BY <1>3, ConstructIInv, DestroyIInv, RemoveChannelIInv, PollIInv
  <1>4. CASE Poll
    BY <1>4, PollIInv
  <1>5. QED
    BY <1>1, <1>2, <1>3, <1>4 DEF Next

\* It holds in every reachable state.
THEOREM IInvHolds == Spec => []IInv
  BY InitIInv, NextIInv, PTL DEF Spec

-----------------------------------------------------------------------------
(* What follows.                                                           *)

\* The kernel's interest list is exactly what the channels believe
\* (net/epollpoller.cc, updateChannel and removeChannel).
THEOREM RegistrationExactHolds == Spec => []RegistrationExact
  <1>1. IInv => RegistrationExact
    BY DEF IInv
  <1>2. QED
    BY <1>1, IInvHolds, PTL

\* The map has no stale entry, however fds are reused (Poller::hasChannel).
THEOREM MapExactHolds == Spec => []MapExact
  <1>1. IInv => MapExact
    BY DEF IInv
  <1>2. QED
    BY <1>1, IInvHolds, PTL

\* epoll_ctl never fails: LOG_FATAL in EpollPoller::update is unreachable
\* for owners that keep the contract of Destroy.
THEOREM NoCtlErrorHolds == Spec => []NoCtlError
  <1>1. IInv => NoCtlError
    BY DEF IInv
  <1>2. QED
    BY <1>1, IInvHolds, PTL

\* A channel that wants events is registered for exactly them.
THEOREM InterestIsListedHolds == Spec => []InterestIsListed
  <1>1. ASSUME IInv, NEW c \in Channels,
               Exists(c), index[c] # kNew, events[c] # NoneEvent
        PROVE  epoll[fd[c]].ptr = c /\ epoll[fd[c]].mask = events[c]
    <2>1. index[c] = kAdded
      BY <1>1 DEF IInv, TypeOK
    <2>2. QED
      BY <1>1, <2>1, EntryOfObject
  <1>2. IInv => InterestIsListed
    BY <1>1 DEF InterestIsListed
  <1>3. QED
    BY <1>2, IInvHolds, PTL

\* epoll_wait never has more to report than there are channels.
LEMMA ReadyBounded ==
  ASSUME IInv, NEW ready \in SUBSET ListedFds
  PROVE  /\ IsFiniteSet(ready)
         /\ Cardinality(ready) <= Cardinality(Channels)
  <1> DEFINE ptr == [f \in ready |-> epoll[f].ptr]
  <1>1. ASSUME NEW f \in ready
        PROVE  ptr[f] \in Channels /\ fd[ptr[f]] = f
    BY DEF ListedFds, IInv, RegistrationExact
  <1>2. ptr \in Injection(ready, Channels)
    BY <1>1 DEF Injection, IsInjective
  <1>3. QED
    BY <1>2, FS_Injection, PollerAssumption

\* The event list stops growing at twice the number of channels
\* (EpollPoller::poll, the resize).
THEOREM EventListBoundedHolds == Spec => []EventListBounded
  <1>1. Init => EventListBounded
    BY DEF Init, EventListBounded
  <1>2. IInv /\ EventListBounded /\ [Next]_vars => EventListBounded'
    <2> SUFFICES ASSUME IInv, EventListBounded, [Next]_vars
                 PROVE  EventListBounded'
      OBVIOUS
    <2>1. CASE Poll
      <3>1. PICK ready \in SUBSET ListedFds :
              eventListSize' = IF Cardinality(ready) = eventListSize
                               THEN eventListSize * 2 ELSE eventListSize
        BY <2>1 DEF Poll
      <3>2. /\ Cardinality(ready) \in Nat
            /\ Cardinality(ready) <= Cardinality(Channels)
            /\ Cardinality(Channels) \in Nat
        BY ReadyBounded, FS_CardinalityType, PollerAssumption
      <3>3. eventListSize \in Nat
        BY DEF IInv, TypeOK
      <3>4. QED
        BY <3>1, <3>2, <3>3 DEF EventListBounded
    <2>2. CASE UNCHANGED eventListSize
      BY <2>2 DEF EventListBounded
    <2>3. QED
      BY <2>1, <2>2
      DEF Next, vars, pollVars, Construct, Destroy, RemoveChannel, SetEvents,
          EnableReading, DisableReading, EnableWriting, DisableWriting,
          DisableAll, HandleEvent
  <1>3. QED
    BY <1>1, <1>2, IInvHolds, PTL DEF Spec

\* The variables keep their types.
THEOREM TypeCorrect == Spec => []TypeOK
  <1>1. IInv => TypeOK
    BY DEF IInv
  <1>2. QED
    BY <1>1, IInvHolds, PTL
=============================================================================
