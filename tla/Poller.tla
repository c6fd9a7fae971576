------------------------------- MODULE Poller -------------------------------
(***************************************************************************)
(* net/channel.{h,cc}, net/poller.{h,cc}, net/epollpoller.{h,cc}: the      *)
(* channels of one loop, the poller's map of them and the interest list    *)
(* that epoll keeps in the kernel.  Everything runs in the loop's thread;  *)
(* what is hard is the order: the owners of the channels (a connection, an *)
(* acceptor, the loop) enable, disable, remove, destroy and re-create      *)
(* channels, with file descriptors that the kernel hands out again.        *)
(*                                                                         *)
(* The owners' side of the contract is a guard of Destroy: a channel is    *)
(* removed before it is destroyed, and not while poll's result names it.   *)
(***************************************************************************)
EXTENDS Integers, FiniteSets

CONSTANTS
    Channels,           \* addresses of Channel objects
    Fds,                \* file descriptors
    NoFd, NoChannel,    \* neither an fd, nor a channel
    initEventListSize   \* 16 in epollpoller.h

ASSUME PollerAssumption ==
    /\ NoFd \notin Fds
    /\ NoChannel \notin Channels
    /\ initEventListSize \in Nat \ {0}
    /\ IsFiniteSet(Channels)

kNew     == -1          \* the values of Channel::_index
kAdded   == 1
kDeleted == 2

ReadEvent  == {"in", "pri"}
WriteEvent == {"out"}
NoneEvent  == {}

VARIABLES
    fd,             \* _fd of each channel, NoFd where there is no object
    events,         \* _events of each channel
    index,          \* _index of each channel
    channels,       \* Poller::_channels, the channel of each fd
    epoll,          \* the kernel's interest list: mask and data.ptr by fd
    ctlError,       \* epoll_ctl has failed
    eventListSize,  \* EpollPoller::_events.size()
    activeChannels  \* what poll returned and is not yet handled

channelVars == <<fd, events, index>>
pollVars    == <<eventListSize, activeChannels>>
vars == <<channelVars, channels, epoll, ctlError, pollVars>>

NotListed == [mask |-> NoneEvent, ptr |-> NoChannel]

Listed(f) == epoll[f].ptr # NoChannel

Exists(c) == fd[c] # NoFd

Init ==
    /\ fd = [c \in Channels |-> NoFd]
    /\ events = [c \in Channels |-> NoneEvent]
    /\ index = [c \in Channels |-> kNew]
    /\ channels = [f \in Fds |-> NoChannel]
    /\ epoll = [f \in Fds |-> NotListed]
    /\ ctlError = FALSE
    /\ eventListSize = initEventListSize
    /\ activeChannels = {}

-----------------------------------------------------------------------------
(* EpollPoller::update and the kernel behind it.                           *)

\* epoll_ctl(2): EEXIST for an fd that is listed already, ENOENT for one
\* that is not.  A failure is logged and nothing else.
EpollCtl(operation, c, mask) ==
    LET accepted == operation = "ADD" <=> ~ Listed(fd[c])
    IN  /\ ctlError' = (ctlError \/ ~ accepted)
        /\ epoll' = IF ~ accepted THEN epoll
                    ELSE [epoll EXCEPT ![fd[c]] =
                            IF operation = "DEL" THEN NotListed
                            ELSE [mask |-> mask, ptr |-> c]]

\* Mutant of UpdateChannel: forgets EPOLL_CTL_DEL when no event is left.
UpdateChannelNoDel(c, mask) ==
    \/ /\ index[c] \in {kNew, kDeleted}
       /\ channels' = IF index[c] = kNew THEN [channels EXCEPT ![fd[c]] = c]
                      ELSE channels
       /\ index' = [index EXCEPT ![c] = kAdded]
       /\ EpollCtl("ADD", c, mask)
    \/ /\ index[c] = kAdded
       /\ mask = NoneEvent
       /\ index' = [index EXCEPT ![c] = kDeleted]
       /\ UNCHANGED <<channels, epoll, ctlError>>
    \/ /\ index[c] = kAdded
       /\ mask # NoneEvent
       /\ EpollCtl("MOD", c, mask)
       /\ UNCHANGED <<channels, index>>

UpdateChannel(c, mask) ==
    \/ /\ index[c] \in {kNew, kDeleted}
       /\ channels' = IF index[c] = kNew THEN [channels EXCEPT ![fd[c]] = c]
                      ELSE channels
       /\ index' = [index EXCEPT ![c] = kAdded]
       /\ EpollCtl("ADD", c, mask)
    \/ /\ index[c] = kAdded
       /\ mask = NoneEvent
       /\ EpollCtl("DEL", c, mask)
       /\ index' = [index EXCEPT ![c] = kDeleted]
       /\ UNCHANGED channels
    \/ /\ index[c] = kAdded
       /\ mask # NoneEvent
       /\ EpollCtl("MOD", c, mask)
       /\ UNCHANGED <<channels, index>>

\* Mutant of RemoveChannel: leaves _index as it was.
RemoveChannelKeepIndex(c) ==
    /\ Exists(c)
    /\ channels' = [channels EXCEPT ![fd[c]] = NoChannel]
    /\ IF index[c] = kAdded THEN EpollCtl("DEL", c, events[c])
       ELSE UNCHANGED <<epoll, ctlError>>
    /\ UNCHANGED <<fd, events, index, pollVars>>

\* Mutant of RemoveChannel: EPOLL_CTL_DEL whatever _index says.
RemoveChannelAlwaysDel(c) ==
    /\ Exists(c)
    /\ channels' = [channels EXCEPT ![fd[c]] = NoChannel]
    /\ EpollCtl("DEL", c, events[c])
    /\ index' = [index EXCEPT ![c] = kNew]
    /\ UNCHANGED <<fd, events, pollVars>>

RemoveChannel(c) ==
    /\ Exists(c)
    /\ channels' = [channels EXCEPT ![fd[c]] = NoChannel]
    /\ IF index[c] = kAdded THEN EpollCtl("DEL", c, events[c])
       ELSE UNCHANGED <<epoll, ctlError>>
    /\ index' = [index EXCEPT ![c] = kNew]
    /\ UNCHANGED <<fd, events, pollVars>>

-----------------------------------------------------------------------------
(* Channel.                                                                *)

\* A new object around an fd that is open and belongs to no other channel.
Construct(c, f) ==
    /\ ~ Exists(c)
    /\ \A d \in Channels : fd[d] # f
    /\ fd' = [fd EXCEPT ![c] = f]
    /\ events' = [events EXCEPT ![c] = NoneEvent]
    /\ index' = [index EXCEPT ![c] = kNew]
    /\ UNCHANGED <<channels, epoll, ctlError, pollVars>>

\* The owner destroys the channel and closes its fd, upon which the kernel
\* forgets the fd's registration, if there is one.
Destroy(c) ==
    /\ Exists(c)
    /\ index[c] = kNew
    /\ c \notin activeChannels
    /\ epoll' = [epoll EXCEPT ![fd[c]] = NotListed]
    /\ fd' = [fd EXCEPT ![c] = NoFd]
    /\ UNCHANGED <<events, index, channels, ctlError, pollVars>>

\* Channel::update, the second half of every enable and disable.
SetEvents(c, mask) ==
    /\ Exists(c)
    /\ events' = [events EXCEPT ![c] = mask]
    /\ UpdateChannel(c, mask)
    /\ UNCHANGED <<fd, pollVars>>

EnableReading(c)  == SetEvents(c, events[c] \cup ReadEvent)
DisableReading(c) == SetEvents(c, events[c] \ ReadEvent)
EnableWriting(c)  == SetEvents(c, events[c] \cup WriteEvent)
DisableWriting(c) == SetEvents(c, events[c] \ WriteEvent)
DisableAll(c)     == SetEvents(c, NoneEvent)

-----------------------------------------------------------------------------
(* EpollPoller::poll and the loop over what it returned.                   *)

ListedFds == {f \in Fds : Listed(f)}

\* Mutant of Poll: the list grows after every poll that reports something.
PollGrows ==
    /\ activeChannels = {}
    /\ \E ready \in SUBSET ListedFds :
         /\ Cardinality(ready) <= eventListSize
         /\ activeChannels' = {epoll[f].ptr : f \in ready}
         /\ eventListSize' = IF ready # {} THEN eventListSize * 2
                             ELSE eventListSize
    /\ UNCHANGED <<channelVars, channels, epoll, ctlError>>

\* epoll_wait fills at most the list; nothing at all is a timeout or EINTR.
\* A list that was filled is doubled.
Poll ==
    /\ activeChannels = {}
    /\ \E ready \in SUBSET ListedFds :
         /\ Cardinality(ready) <= eventListSize
         /\ activeChannels' = {epoll[f].ptr : f \in ready}
         /\ eventListSize' = IF Cardinality(ready) = eventListSize
                             THEN eventListSize * 2 ELSE eventListSize
    /\ UNCHANGED <<channelVars, channels, epoll, ctlError>>

\* The loop goes on to the next channel: what its callbacks do to channels
\* are the actions above.
HandleEvent(c) ==
    /\ c \in activeChannels
    /\ activeChannels' = activeChannels \ {c}
    /\ UNCHANGED <<channelVars, channels, epoll, ctlError, eventListSize>>

Next ==
    \/ \E c \in Channels, f \in Fds : Construct(c, f)
    \/ \E c \in Channels :
         \/ EnableReading(c)
         \/ DisableReading(c)
         \/ EnableWriting(c)
         \/ DisableWriting(c)
         \/ DisableAll(c)
         \/ RemoveChannel(c)
         \/ Destroy(c)
         \/ HandleEvent(c)
    \/ Poll

Spec == Init /\ [][Next]_vars

-----------------------------------------------------------------------------
(* Properties.                                                             *)

\* Every variable holds a value of its C++ type, _index one of its three.
TypeOK ==
    /\ fd \in [Channels -> Fds \cup {NoFd}]
    /\ events \in [Channels -> SUBSET (ReadEvent \cup WriteEvent)]
    /\ index \in [Channels -> {kNew, kAdded, kDeleted}]
    /\ channels \in [Fds -> Channels \cup {NoChannel}]
    /\ epoll \in [Fds -> [mask : SUBSET (ReadEvent \cup WriteEvent),
                          ptr  : Channels \cup {NoChannel}]]
    /\ ctlError \in BOOLEAN
    /\ eventListSize \in Nat \ {0}
    /\ activeChannels \subseteq Channels

\* No two objects share an fd.
FdsDistinct ==
    \A c, d \in Channels : Exists(c) /\ fd[c] = fd[d] => c = d

\* The kernel's list is what the channels believe it is: an fd is listed for
\* a channel exactly when the channel's _index is kAdded, and then with the
\* channel's current _events.
RegistrationExact ==
    /\ \A f \in Fds : Listed(f) =>
         \E c \in Channels : /\ fd[c] = f
                             /\ index[c] = kAdded
                             /\ epoll[f].ptr = c
                             /\ epoll[f].mask = events[c]
    /\ \A c \in Channels : Exists(c) /\ index[c] = kAdded => Listed(fd[c])

\* The map names a channel under its fd exactly as long as _index is not
\* kNew: no entry for a channel that is gone, whatever reuse of fds, so that
\* hasChannel answers right.
MapExact ==
    /\ \A f \in Fds : channels[f] # NoChannel =>
         fd[channels[f]] = f /\ index[channels[f]] # kNew
    /\ \A c \in Channels :
         Exists(c) /\ index[c] # kNew => channels[fd[c]] = c

\* epoll_ctl never fails, so neither of update()'s error branches is taken.
NoCtlError == ~ ctlError

\* No interest is lost: a channel that wants events and was not removed is
\* in the kernel's list, after any sequence of enabling and disabling.
InterestIsListed ==
    \A c \in Channels :
        Exists(c) /\ index[c] # kNew /\ events[c] # NoneEvent =>
            epoll[fd[c]].ptr = c /\ epoll[fd[c]].mask = events[c]

\* Doubling stops: the list never grows beyond twice the channels.
EventListBounded ==
    \/ eventListSize = initEventListSize
    \/ eventListSize <= 2 * Cardinality(Channels)

\* The inductive invariant behind the properties above.
IInv ==
    /\ TypeOK
    /\ FdsDistinct
    /\ RegistrationExact
    /\ MapExact
    /\ NoCtlError
    /\ \A c \in Channels : index[c] = kDeleted => events[c] = NoneEvent
=============================================================================
