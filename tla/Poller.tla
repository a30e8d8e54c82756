------------------------------- MODULE Poller -------------------------------
(***************************************************************************)
(* net/Poller.cpp with its two implementations, net/poller/PollPoller.cpp  *)
(* and net/poller/EPollPoller.cpp, under the channels of one EventLoop.    *)
(*                                                                         *)
(* Everything happens in the loop's thread: user code, in a callback of an *)
(* active channel or between two calls of poll(), makes channels, changes  *)
(* their interest, removes and destroys them.  A channel is named by its   *)
(* file descriptor, which a later channel may have again.  The assertions  *)
(* of updateChannel() and removeChannel() on how they are called are       *)
(* guards; those on the poller's own state are properties.                 *)
(***************************************************************************)
EXTENDS Integers, Sequences, Functions

CONSTANTS Fds,                  \* file descriptors
          kInitEventListSize    \* room for events in EPollPoller

ASSUME PollerAssumption ==
  /\ Fds \subseteq Nat
  /\ kInitEventListSize \in Nat \ {0}

VARIABLES kind,                 \* "poll" or "epoll"
          exists,               \* descriptors that have a Channel
          events_,              \* of each channel
          index_,               \* of each channel: position in pollfds_, or state
          channels_,            \* the descriptors in the poller's map
          pollfds_,             \* of PollPoller, positions one higher than in C++
          epollfd_,             \* what epoll watches: descriptor to events
          room,                 \* events_.size() of EPollPoller
          activeChannels_,
          pos,                  \* currentActiveChannel_ is activeChannels_[pos]
          eventHandling_,
          made,                 \* history: descriptors whose Channel was made since then
          idleFirst             \* history: channels updated only once, without interest

channels == <<exists, events_, index_>>
poller == <<kind, channels_, pollfds_, epollfd_>>
looping == <<room, activeChannels_, pos, eventHandling_, made>>
vars == <<channels, poller, looping, idleFirst>>

Interest == {"read", "write"}
kNew == -1
kAdded == 1
kDeleted == 2

\* A descriptor that poll() is to ignore is stored as its negative, less one.
Ignored(fd) == -fd - 1
FdOf(stored) == IF stored < 0 THEN Ignored(stored) ELSE stored
-----------------------------------------------------------------------------
\* newDefaultPoller() chooses by the environment; no channel is made yet.
Init ==
  /\ kind \in {"poll", "epoll"}
  /\ exists = {}
  /\ events_ = [fd \in Fds |-> {}]
  /\ index_ = [fd \in Fds |-> kNew]
  /\ channels_ = {}
  /\ pollfds_ = << >>
  /\ epollfd_ = [fd \in {} |-> {}]
  /\ room = kInitEventListSize
  /\ activeChannels_ = << >> /\ pos = 0 /\ eventHandling_ = FALSE /\ made = {}
  /\ idleFirst = {}

\* Channel::Channel().
NewChannel(fd) ==
  /\ fd \notin exists
  /\ exists' = exists \cup {fd}
  /\ events_' = [events_ EXCEPT ![fd] = {}]
  /\ index_' = [index_ EXCEPT ![fd] = kNew]
  /\ idleFirst' = idleFirst \ {fd}
  /\ made' = IF eventHandling_ THEN made \cup {fd} ELSE made
  /\ UNCHANGED <<poller, room, activeChannels_, pos, eventHandling_>>

\* PollPoller::updateChannel() of a new channel; one without interest is
\* stored like any other.
AppendPollfd(fd, events) ==
  /\ pollfds_' = Append(pollfds_, [fd |-> fd, events |-> events])
  /\ index_' = [index_ EXCEPT ![fd] = Len(pollfds_)]

PollfdNotIgnored(fd, events) == [fd |-> fd, events |-> events]

Pollfd(fd, events) ==
  [fd |-> IF events = {} THEN Ignored(fd) ELSE fd, events |-> events]

PollUpdateChannel(fd, events) ==
  /\ \/ index_[fd] < 0 /\ AppendPollfd(fd, events)
     \/ /\ index_[fd] >= 0
        /\ fd \in channels_
        /\ pollfds_' = [pollfds_ EXCEPT ![index_[fd] + 1] = Pollfd(fd, events)]
        /\ UNCHANGED index_
  /\ channels_' = channels_ \cup {fd}
  /\ UNCHANGED epollfd_

\* epoll_ctl() with EPOLL_CTL_ADD or MOD, and with DEL.
Watch(fd, events) ==
  [f \in DOMAIN epollfd_ \cup {fd} |-> IF f = fd THEN events ELSE epollfd_[f]]
Unwatch(fd) == [f \in DOMAIN epollfd_ \ {fd} |-> epollfd_[f]]

EPollUpdateChannelNoMod(fd, events) ==
  /\ IF index_[fd] = kAdded
     THEN IF events = {} THEN /\ epollfd_' = Unwatch(fd)
                              /\ index_' = [index_ EXCEPT ![fd] = kDeleted]
                         ELSE UNCHANGED <<epollfd_, index_>>
     ELSE /\ epollfd_' = Watch(fd, events)
          /\ index_' = [index_ EXCEPT ![fd] = kAdded]
  /\ channels_' = channels_ \cup {fd}
  /\ UNCHANGED pollfds_

\* EPollPoller::updateChannel(); a channel that is not added is added, also
\* when it has no interest.
EPollUpdateChannel(fd, events) ==
  /\ IF index_[fd] = kAdded /\ events = {}
     THEN /\ epollfd_' = Unwatch(fd)
          /\ index_' = [index_ EXCEPT ![fd] = kDeleted]
     ELSE /\ epollfd_' = Watch(fd, events)
          /\ index_' = [index_ EXCEPT ![fd] = kAdded]
  /\ channels_' = channels_ \cup {fd}
  /\ UNCHANGED pollfds_

\* enableReading() and its kin, then Channel::update().
Update(fd, events) ==
  /\ fd \in exists
  /\ events_' = [events_ EXCEPT ![fd] = events]
  /\ idleFirst' = IF index_[fd] = kNew /\ events = {} THEN idleFirst \cup {fd}
                                                     ELSE idleFirst \ {fd}
  /\ \/ kind = "poll" /\ PollUpdateChannel(fd, events)
     \/ kind = "epoll" /\ EPollUpdateChannel(fd, events)
  /\ UNCHANGED <<kind, exists, looping>>

EnableReading(fd) == Update(fd, events_[fd] \cup {"read"})
DisableReading(fd) == Update(fd, events_[fd] \ {"read"})
EnableWriting(fd) == Update(fd, events_[fd] \cup {"write"})
DisableWriting(fd) == Update(fd, events_[fd] \ {"write"})
DisableAll(fd) == Update(fd, {})
-----------------------------------------------------------------------------
\* fd is currentActiveChannel_.
Handling(fd) == pos # 0 /\ activeChannels_[pos] = fd

MayRemoveAny(fd) == TRUE

\* EventLoop::removeChannel() asserts that it does not remove a channel that
\* is active, unless it is the one being handled.  It compares pointers: a channel
\* made since poll() is not the one listed under its descriptor (assumed: nor does
\* it have that one's address).
MayRemove(fd) ==
  eventHandling_ => (Handling(fd) \/ fd \notin Range(activeChannels_) \/ fd \in made)

PollRemoveChannelNoNegated(fd) ==
  LET last == Len(pollfds_)
      idx == index_[fd]
      atEnd == pollfds_[last].fd
  IN  /\ pollfds_' = [i \in 1..(last - 1) |-> pollfds_[IF i = idx + 1 THEN last ELSE i]]
      /\ index_' = IF idx = last - 1 \/ atEnd < 0 THEN index_
                   ELSE [index_ EXCEPT ![atEnd] = idx]

\* PollPoller::removeChannel(): the last entry takes the place of the one
\* removed.  The removed channel keeps its index.
PollRemoveChannel(fd) ==
  LET last == Len(pollfds_)
      idx == index_[fd]
  IN  /\ pollfds_' = [i \in 1..(last - 1) |-> pollfds_[IF i = idx + 1 THEN last ELSE i]]
      /\ index_' = IF idx = last - 1 THEN index_
                   ELSE [index_ EXCEPT ![FdOf(pollfds_[last].fd)] = idx]

EPollRemoveChannel(fd) ==
  /\ epollfd_' = IF index_[fd] = kAdded THEN Unwatch(fd) ELSE epollfd_
  /\ index_' = [index_ EXCEPT ![fd] = kNew]

\* Channel::remove().
Remove(fd) ==
  /\ fd \in channels_
  /\ events_[fd] = {}
  /\ MayRemove(fd)
  /\ channels_' = channels_ \ {fd}
  /\ \/ kind = "poll" /\ PollRemoveChannel(fd) /\ UNCHANGED epollfd_
     \/ kind = "epoll" /\ EPollRemoveChannel(fd) /\ UNCHANGED pollfds_
  /\ UNCHANGED <<kind, exists, events_, looping, idleFirst>>

DestroyNotRemoved(fd) ==
  /\ fd \in exists
  /\ ~Handling(fd)
  /\ exists' = exists \ {fd}
  /\ UNCHANGED <<events_, index_, poller, looping, idleFirst>>

\* Channel::~Channel(), whose assertions are that it is not being handled and
\* has been removed.
Destroy(fd) ==
  /\ fd \in exists \ channels_
  /\ ~Handling(fd)
  /\ exists' = exists \ {fd}
  /\ UNCHANGED <<events_, index_, poller, looping, idleFirst>>
-----------------------------------------------------------------------------
\* The descriptors the kernel watches, and for what.
Watched ==
  IF kind = "poll"
  THEN [fd \in {p.fd : p \in Range(pollfds_)} \cap Fds |->
          (CHOOSE p \in Range(pollfds_) : p.fd = fd).events]
  ELSE epollfd_

\* The channels poll() reports when ready are the watched descriptors with an
\* event: those without interest may still have POLLHUP or POLLERR.  poll()
\* lists them in the order of pollfds_, epoll_wait() in any order and at most
\* room of them; a full list doubles the room.
PollReports(ready) ==
  LET found == {i \in DOMAIN pollfds_ : pollfds_[i].fd \in ready}
  IN  /\ kind = "poll"
      /\ \E n \in 0..Len(pollfds_) : \E at \in Bijection(1..n, found) :
           /\ \A i, j \in 1..n : i < j => at[i] < at[j]
           /\ activeChannels_' = [i \in 1..n |-> pollfds_[at[i]].fd]
      /\ UNCHANGED room

EPollReports(ready) ==
  /\ kind = "epoll"
  /\ \E n \in 0..room :
       /\ activeChannels_' \in Bijection(1..n, ready)
       /\ room' = IF n = room THEN 2 * room ELSE room

\* loop() clears activeChannels_, calls poll() and begins with the handlers.
Poll(ready) ==
  /\ ~eventHandling_
  /\ PollReports(ready) \/ EPollReports(ready)
  /\ eventHandling_' = TRUE
  /\ UNCHANGED <<pos, made, channels, poller, idleFirst>>

\* handleEvent() of the next active channel; its callbacks follow.
HandleNext ==
  /\ eventHandling_
  /\ pos < Len(activeChannels_)
  /\ pos' = pos + 1
  /\ UNCHANGED <<channels, poller, room, activeChannels_, eventHandling_, made, idleFirst>>

HandleDone ==
  /\ eventHandling_
  /\ pos = Len(activeChannels_)
  /\ pos' = 0
  /\ eventHandling_' = FALSE /\ made' = {}
  /\ UNCHANGED <<channels, poller, room, activeChannels_, idleFirst>>

Next ==
  \/ \E fd \in Fds :
       \/ NewChannel(fd) \/ Destroy(fd) \/ Remove(fd) \/ DisableAll(fd)
       \/ EnableReading(fd) \/ DisableReading(fd)
       \/ EnableWriting(fd) \/ DisableWriting(fd)
  \/ \E ready \in SUBSET DOMAIN Watched : Poll(ready)
  \/ HandleNext \/ HandleDone

Spec == Init /\ [][Next]_vars
-----------------------------------------------------------------------------
TypeOK ==
  /\ kind \in {"poll", "epoll"}
  /\ exists \subseteq Fds /\ channels_ \subseteq exists /\ idleFirst \subseteq Fds
  /\ events_ \in [Fds -> SUBSET Interest]
  /\ index_ \in [Fds -> Int]
  /\ kind = "epoll" => \A fd \in Fds : index_[fd] \in {kNew, kAdded, kDeleted}
  /\ pollfds_ \in Seq([fd : Int, events : SUBSET Interest])
  /\ DOMAIN epollfd_ \subseteq Fds
  /\ room \in Nat
  /\ activeChannels_ \in Seq(Fds)
  /\ pos \in 0..Len(activeChannels_)
  /\ eventHandling_ \in BOOLEAN /\ made \subseteq Fds

\* PollPoller's array and the indices of its channels fit: every channel in the
\* map has its own entry, at its index and under its descriptor or the negated
\* one, and there are no others, whatever is swapped by removeChannel().  In
\* EPollPoller exactly the channels that are kAdded are in epoll.
IndexesInStep ==
  IF kind = "poll"
  THEN /\ \A fd \in channels_ :
            /\ index_[fd] + 1 \in DOMAIN pollfds_
            /\ FdOf(pollfds_[index_[fd] + 1].fd) = fd
       /\ \A i \in DOMAIN pollfds_ :
            /\ FdOf(pollfds_[i].fd) \in channels_
            /\ index_[FdOf(pollfds_[i].fd)] = i - 1
  ELSE /\ \A fd \in channels_ : index_[fd] # kNew
       /\ DOMAIN epollfd_ = {fd \in channels_ : index_[fd] = kAdded}

\* The kernel watches every descriptor for exactly what its channel asks for.
WatchesInterest ==
  \A fd \in Fds :
    (IF fd \in DOMAIN Watched THEN Watched[fd] ELSE {}) =
    (IF fd \in channels_ THEN events_[fd] ELSE {})

\* PollPoller::removeChannel() asserts that it finds the entry ignored and
\* without events.  It does, unless the channel was first updated without
\* interest, as ~Acceptor() does when listen() was never called.
RemoveFindsIgnored ==
  kind = "poll" =>
    \A fd \in channels_ \ idleFirst :
      events_[fd] = {} =>
        pollfds_[index_[fd] + 1] = [fd |-> Ignored(fd), events |-> {}]

\* The channels loop() is still to handle are those that poll() reported, not others
\* at their descriptors; they are in the poller's map and come once each, whatever
\* the callbacks before them did.
ActiveAlive ==
  eventHandling_ =>
    \A i \in (pos + 1)..Len(activeChannels_) :
      /\ activeChannels_[i] \in channels_ \ made
      /\ \A j \in 1..Len(activeChannels_) :
           activeChannels_[i] = activeChannels_[j] => i = j

\* The two assertions that channels rely on when they go: a channel that is
\* removed is ignored by then, and one that is handled has not been removed.
ChannelsGoSafely == TypeOK /\ RemoveFindsIgnored /\ ActiveAlive

=============================================================================
