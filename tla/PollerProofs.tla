---------------------------- MODULE PollerProofs ----------------------------
(***************************************************************************)
(* Both pollers keep their channels' indices in step and watch what the    *)
(* channels ask for, for any number of file descriptors.                   *)
(***************************************************************************)
EXTENDS Poller, SequenceTheorems, TLAPS

Entry == [fd : Int, events : SUBSET Interest]

\* The part of the type invariant the argument needs.
Core ==
  /\ kind \in {"poll", "epoll"}
  /\ channels_ \subseteq exists /\ exists \subseteq Fds
  /\ events_ \in [Fds -> SUBSET Interest]
  /\ index_ \in [Fds -> Int]
  /\ pollfds_ \in Seq(Entry)
  /\ kind = "epoll" => \A fd \in Fds : index_[fd] \in {kNew, kAdded, kDeleted}

\* What is stored for a channel in the map is what the channel asks for, and
\* only an entry without events is negated.
Stored ==
  IF kind = "poll"
  THEN \A fd \in channels_ :
         /\ pollfds_[index_[fd] + 1].events = events_[fd]
         /\ pollfds_[index_[fd] + 1].fd = fd \/ events_[fd] = {}
  ELSE \A fd \in channels_ :
         events_[fd] = IF index_[fd] = kAdded THEN epollfd_[fd] ELSE {}

Inv == Core /\ IndexesInStep /\ Stored

\* A function on 1..n is a sequence of length n.
LEMMA FunctionIsSeq ==
  ASSUME NEW S, NEW n \in Nat, NEW f \in [1..n -> S]
  PROVE  f \in Seq(S) /\ Len(f) = n /\ DOMAIN f = 1..n
<1>1. f \in Seq(S)
  BY SeqDef, Zenon
<1>2. Len(f) \in Nat /\ 1..Len(f) = 1..n
  BY <1>1, LenProperties, Zenon
<1>. QED
  BY <1>1, <1>2

\* FdOf undoes Ignored, and leaves a descriptor alone.
LEMMA FdOfStored ==
  ASSUME NEW fd \in Fds
  PROVE  FdOf(fd) = fd /\ FdOf(Ignored(fd)) = fd /\ Ignored(fd) \notin Fds /\ fd \in Int
         /\ Ignored(fd) \in Int
BY PollerAssumption DEF FdOf, Ignored

\* PollPoller::updateChannel() of a channel it does not have.
LEMMA PollAdd ==
  ASSUME Inv, kind = "poll", NEW fd \in exists, NEW events \in SUBSET Interest,
         index_[fd] < 0, AppendPollfd(fd, events),
         channels_' = channels_ \cup {fd}, kind' = kind, exists' = exists,
         events_' = [events_ EXCEPT ![fd] = events]
  PROVE  /\ Inv' /\ fd \notin channels_
         /\ \A g \in channels_ : pollfds_'[index_'[g] + 1] = pollfds_[index_[g] + 1]
<1>. DEFINE n == Len(pollfds_)
            e == [fd |-> fd, events |-> events]
<1>1. /\ n \in Nat /\ DOMAIN pollfds_ = 1..n
      /\ fd \in Fds /\ e \in Entry
  BY LenProperties, FdOfStored, Zenon DEF Inv, Core, Entry
<1>2. /\ pollfds_' \in Seq(Entry) /\ DOMAIN pollfds_' = 1..(n + 1)
      /\ pollfds_'[n + 1] = e
      /\ \A i \in 1..n : pollfds_'[i] = pollfds_[i]
  BY <1>1, AppendProperties, LenProperties DEF Inv, Core, AppendPollfd
<1>3. index_' = [index_ EXCEPT ![fd] = n]
  BY Zenon DEF AppendPollfd
<1>4. fd \notin channels_
  BY <1>1 DEF Inv, Core, IndexesInStep
<1>5. Core'
  BY <1>1, <1>2, <1>3 DEF Inv, Core
<1>6. \A g \in channels_ : index_'[g] = index_[g] /\ index_[g] + 1 \in 1..n /\ g \in Fds
  BY <1>1, <1>3, <1>4, Zenon DEF Inv, Core, IndexesInStep
<1>7. /\ index_'[fd] = n /\ pollfds_'[n + 1].fd = fd /\ pollfds_'[n + 1].events = events
      /\ FdOf(fd) = fd
  <2>1. index_'[fd] = n
    BY <1>1, <1>3, Zenon DEF Inv, Core
  <2>2. FdOf(fd) = fd
    BY <1>1, FdOfStored, Zenon
  <2>. QED
    BY <1>2, <2>1, <2>2
<1>8. \A g \in channels_' : /\ index_'[g] + 1 \in DOMAIN pollfds_'
                            /\ FdOf(pollfds_'[index_'[g] + 1].fd) = g
  <2>1. ASSUME NEW g \in channels_
        PROVE  /\ index_'[g] + 1 \in DOMAIN pollfds_'
               /\ FdOf(pollfds_'[index_'[g] + 1].fd) = g
    BY <1>1, <1>2, <1>6 DEF Inv, IndexesInStep
  <2>2. FdOf(pollfds_'[index_'[fd] + 1].fd) = fd /\ index_'[fd] + 1 \in DOMAIN pollfds_'
    BY <1>1, <1>2, <1>7
  <2>. QED
    BY <2>1, <2>2, Zenon
<1>9. \A i \in DOMAIN pollfds_' : /\ FdOf(pollfds_'[i].fd) \in channels_'
                                  /\ index_'[FdOf(pollfds_'[i].fd)] = i - 1
  <2>1. ASSUME NEW i \in 1..n
        PROVE  /\ FdOf(pollfds_'[i].fd) \in channels_'
               /\ index_'[FdOf(pollfds_'[i].fd)] = i - 1
    BY <1>1, <1>2, <1>6, ZenonT(60) DEF Inv, IndexesInStep
  <2>2. FdOf(pollfds_'[n + 1].fd) = fd /\ index_'[fd] = (n + 1) - 1
    BY <1>1, <1>7
  <2>3. \A i \in 1..(n + 1) : i \in 1..n \/ i = n + 1
    BY <1>1
  <2>. QED
    BY <1>2, <2>1, <2>2, <2>3, Zenon
<1>10. Stored'
  <2>1. ASSUME NEW g \in channels_
        PROVE  /\ pollfds_'[index_'[g] + 1].events = events_'[g]
               /\ pollfds_'[index_'[g] + 1].fd = g \/ events_'[g] = {}
    <3>1. events_'[g] = events_[g]
      BY <1>4, <1>6, Zenon DEF Inv, Core
    <3>2. pollfds_'[index_'[g] + 1] = pollfds_[index_[g] + 1]
      BY <1>2, <1>6
    <3>. QED
      BY <3>1, <3>2, Zenon DEF Inv, Stored
  <2>2. events_'[fd] = events
    BY <1>1, Zenon DEF Inv, Core
  <2>. QED
    BY <1>7, <2>1, <2>2, Zenon DEF Stored
<1>11. ASSUME NEW g \in channels_ PROVE pollfds_'[index_'[g] + 1] = pollfds_[index_[g] + 1]
  BY <1>2, <1>6
<1>12. Inv'
  BY <1>5, <1>8, <1>9, <1>10, Zenon DEF Inv, IndexesInStep
<1>. QED
  BY <1>4, <1>11, <1>12, Zenon

\* PollPoller::updateChannel() of a channel it has.
LEMMA PollChange ==
  ASSUME Inv, kind = "poll", NEW fd \in channels_, NEW events \in SUBSET Interest,
         pollfds_' = [pollfds_ EXCEPT ![index_[fd] + 1] = Pollfd(fd, events)],
         UNCHANGED <<index_, channels_, kind, exists>>,
         events_' = [events_ EXCEPT ![fd] = events]
  PROVE  /\ Inv' /\ pollfds_'[index_'[fd] + 1] = Pollfd(fd, events)
         /\ \A g \in channels_ : g # fd => pollfds_'[index_'[g] + 1] = pollfds_[index_[g] + 1]
<1>. DEFINE n == Len(pollfds_)
            e == Pollfd(fd, events)
            k == index_[fd] + 1
<1>1. /\ n \in Nat /\ DOMAIN pollfds_ = 1..n /\ pollfds_ \in [1..n -> Entry]
      /\ fd \in Fds /\ k \in 1..n /\ index_[fd] \in Int
  BY LenProperties, Zenon DEF Inv, Core, IndexesInStep
<1>2. /\ e \in Entry /\ FdOf(e.fd) = fd /\ e.events = events
      /\ e.fd = fd \/ events = {}
  BY <1>1, FdOfStored, Zenon DEF Pollfd, Entry
<1>. HIDE DEF e
<1>3. /\ pollfds_' \in [1..n -> Entry] /\ pollfds_'[k] = e
      /\ \A i \in 1..n : i # k => pollfds_'[i] = pollfds_[i]
  BY <1>1, <1>2, Zenon DEF e
<1>4. pollfds_' \in Seq(Entry) /\ DOMAIN pollfds_' = 1..n
  BY <1>1, <1>3, FunctionIsSeq, Zenon
<1>5. Core'
  BY <1>1, <1>4, Zenon DEF Inv, Core
<1>6. \A i \in 1..n : FdOf(pollfds_'[i].fd) = FdOf(pollfds_[i].fd)
  BY <1>1, <1>2, <1>3, Zenon DEF Inv, IndexesInStep
<1>7. IndexesInStep'
  BY <1>1, <1>4, <1>6, Zenon DEF Inv, IndexesInStep
<1>8. \A g \in channels_ : g # fd => /\ pollfds_'[index_[g] + 1] = pollfds_[index_[g] + 1]
                                     /\ events_'[g] = events_[g]
  <2>. SUFFICES ASSUME NEW g \in channels_, g # fd
                PROVE  /\ pollfds_'[index_[g] + 1] = pollfds_[index_[g] + 1]
                       /\ events_'[g] = events_[g]
    BY Zenon
  <2>1. index_[g] + 1 \in 1..n /\ FdOf(pollfds_[index_[g] + 1].fd) = g
    BY <1>1, Zenon DEF Inv, IndexesInStep
  <2>2. FdOf(pollfds_[k].fd) = fd
    BY Zenon DEF Inv, IndexesInStep
  <2>3. index_[g] + 1 # k
    BY <2>1, <2>2, Zenon
  <2>. QED
    BY <1>3, <2>1, <2>3, Zenon DEF Inv, Core
<1>9. events_'[fd] = events
  BY <1>1, Zenon DEF Inv, Core
<1>10. Stored'
  BY <1>2, <1>3, <1>8, <1>9 DEF Inv, Stored
<1>11. Inv'
  BY <1>5, <1>7, <1>10, Zenon DEF Inv
<1>12. pollfds_'[index_'[fd] + 1] = Pollfd(fd, events)
  BY <1>3, Zenon DEF e
<1>. QED
  BY <1>8, <1>11, <1>12, Zenon

\* PollPoller::removeChannel(): the swap keeps every other channel's index true.
LEMMA PollRemove ==
  ASSUME Inv, kind = "poll", NEW fd \in channels_, PollRemoveChannel(fd),
         channels_' = channels_ \ {fd}, UNCHANGED <<kind, exists, events_>>
  PROVE  /\ Inv'
         /\ \A h \in channels_ : h # fd => pollfds_'[index_'[h] + 1] = pollfds_[index_[h] + 1]
<1>. DEFINE n == Len(pollfds_)
            k == index_[fd] + 1
            g == FdOf(pollfds_[n].fd)
<1>1. /\ n \in Nat /\ DOMAIN pollfds_ = 1..n /\ pollfds_ \in [1..n -> Entry]
      /\ fd \in Fds /\ k \in 1..n /\ index_[fd] = k - 1 /\ n \in 1..n
  BY LenProperties DEF Inv, Core, IndexesInStep
<1>1a. n \in Nat /\ k \in Int
  BY <1>1
<1>2. FdOf(pollfds_[k].fd) = fd /\ g \in channels_ /\ index_[g] = n - 1
  BY <1>1, Zenon DEF Inv, IndexesInStep
<1>3. /\ pollfds_' = [i \in 1..(n - 1) |-> pollfds_[IF i = k THEN n ELSE i]]
      /\ index_' = IF k = n THEN index_ ELSE [index_ EXCEPT ![g] = k - 1]
  <2>1. (index_[fd] = Len(pollfds_) - 1) <=> (k = n)
    BY <1>1
  <2>. QED
    BY <1>1, <2>1, Zenon DEF PollRemoveChannel
<1>. HIDE DEF g
<1>4. pollfds_' \in [1..(n - 1) -> Entry] /\ n - 1 \in Nat
  BY <1>1, <1>3
<1>5. pollfds_' \in Seq(Entry) /\ DOMAIN pollfds_' = 1..(n - 1)
  BY <1>4, FunctionIsSeq, Zenon
<1>6. Core'
  BY <1>1, <1>3, <1>5, Zenon DEF Inv, Core
<1>7. ASSUME NEW h \in channels_, h # fd
      PROVE  /\ index_'[h] + 1 \in 1..(n - 1)
             /\ pollfds_'[index_'[h] + 1] = pollfds_[index_[h] + 1]
  <2>1. /\ h \in Fds /\ index_[h] \in Int /\ index_[h] + 1 \in 1..n
        /\ FdOf(pollfds_[index_[h] + 1].fd) = h
    BY <1>1, Zenon DEF Inv, Core, IndexesInStep
  <2>2. index_[h] + 1 # k
    BY <1>2, <1>7, <2>1, Zenon
  <2>3. CASE h = g
    <3>1. k # n
      BY <1>1, <1>2, <2>2, <2>3, Zenon
    <3>2. index_'[h] = k - 1
      BY <1>3, <2>1, <2>3, <3>1, Zenon DEF Inv, Core
    <3>3. k \in 1..(n - 1) /\ (k - 1) + 1 = k /\ index_[h] + 1 = n
      BY <1>1, <1>2, <2>3, <3>1
    <3>. QED
      BY <1>3, <3>2, <3>3, Zenon
  <2>4. CASE h # g
    <3>1. index_'[h] = index_[h]
      BY <1>3, <2>1, <2>4, Zenon DEF Inv, Core
    <3>2. index_[h] + 1 # n
      BY <2>1, <2>4, Zenon DEF g
    <3>3. index_[h] + 1 \in 1..(n - 1)
      BY <1>1, <2>1, <3>2
    <3>. QED
      BY <1>3, <2>2, <3>1, <3>3, Zenon
  <2>. QED
    BY <2>3, <2>4, Zenon
<1>8. \A h \in channels_' : /\ index_'[h] + 1 \in DOMAIN pollfds_'
                            /\ FdOf(pollfds_'[index_'[h] + 1].fd) = h
  BY <1>5, <1>7, Zenon DEF Inv, IndexesInStep
<1>9. ASSUME NEW i \in 1..(n - 1)
      PROVE  /\ FdOf(pollfds_'[i].fd) \in channels_'
             /\ index_'[FdOf(pollfds_'[i].fd)] = i - 1
  <2>1. CASE i = k
    <3>1. k # n
      BY <1>1, <2>1
    <3>2. FdOf(pollfds_'[i].fd) = g
      BY <1>3, <2>1, Zenon DEF g
    <3>3. g # fd
      BY <1>1, <1>2, <3>1
    <3>4. index_'[g] = k - 1
      BY <1>2, <1>3, <3>1, Zenon DEF Inv, Core
    <3>. QED
      BY <1>2, <2>1, <3>2, <3>3, <3>4, Zenon
  <2>2. CASE i # k
    <3>. DEFINE h == FdOf(pollfds_[i].fd)
    <3>0. pollfds_'[i] = pollfds_[i]
      BY <1>3, <2>2, Zenon
    <3>1. i \in 1..n /\ i # n /\ i \in Int
      BY <1>1a
    <3>2. h \in channels_ /\ index_[h] = i - 1
      BY <1>1, <3>1, Zenon DEF Inv, IndexesInStep
    <3>. HIDE DEF h
    <3>3. h # fd /\ h # g
      <4>1. h = fd => i - 1 = k - 1
        BY <1>1, <3>2, Zenon
      <4>2. h = g => i - 1 = n - 1
        BY <1>2, <3>2, Zenon
      <4>3. i - 1 # k - 1 /\ i - 1 # n - 1
        BY <1>1a, <2>2, <3>1
      <4>. QED
        BY <4>1, <4>2, <4>3, Zenon
    <3>4. index_'[h] = index_[h]
      BY <1>3, <3>2, <3>3, Zenon DEF Inv, Core
    <3>. QED
      BY <3>0, <3>2, <3>3, <3>4, Zenon DEF h
  <2>. QED
    BY <2>1, <2>2, Zenon
<1>10. IndexesInStep'
  BY <1>5, <1>8, <1>9, Zenon DEF IndexesInStep
<1>11. Stored'
  BY <1>7, Zenon DEF Inv, Stored
<1>12. Inv'
  BY <1>6, <1>10, <1>11, Zenon DEF Inv
<1>. QED
  BY <1>7, <1>12, Zenon

\* EPollPoller::updateChannel().
LEMMA EPollUpdate ==
  ASSUME Inv, kind = "epoll", NEW fd \in exists, NEW events \in SUBSET Interest,
         EPollUpdateChannel(fd, events), UNCHANGED <<kind, exists>>,
         events_' = [events_ EXCEPT ![fd] = events]
  PROVE  Inv'
<1>. USE DEF kNew, kAdded, kDeleted
<1>1. Core'
  BY SMTT(60) DEF Inv, Core, EPollUpdateChannel
<1>2. CASE index_[fd] = kAdded /\ events = {}
  <2>1. IndexesInStep'
    BY <1>2 DEF Inv, Core, IndexesInStep, EPollUpdateChannel, Unwatch
  <2>2. Stored'
    BY <1>2 DEF Inv, Core, IndexesInStep, Stored, EPollUpdateChannel, Unwatch
  <2>. QED
    BY <1>1, <2>1, <2>2, Zenon DEF Inv
<1>3. CASE ~(index_[fd] = kAdded /\ events = {})
  <2>1. IndexesInStep'
    <3>1. /\ channels_' = channels_ \cup {fd} /\ kind' = "epoll"
          /\ DOMAIN epollfd_' = DOMAIN epollfd_ \cup {fd}
      BY <1>3, Zenon DEF EPollUpdateChannel, Watch
    <3>2. index_'[fd] = kAdded /\ \A g \in channels_ : g # fd => index_'[g] = index_[g]
      BY <1>3, Zenon DEF Inv, Core, EPollUpdateChannel
    <3>3. /\ \A g \in channels_ : index_[g] # kNew
          /\ DOMAIN epollfd_ = {g \in channels_ : index_[g] = kAdded}
      BY Zenon DEF Inv, IndexesInStep
    <3>. QED
      BY <3>1, <3>2, <3>3 DEF IndexesInStep
  <2>2. Stored'
    BY <1>3 DEF Inv, Core, IndexesInStep, Stored, EPollUpdateChannel, Watch
  <2>. QED
    BY <1>1, <2>1, <2>2, Zenon DEF Inv
<1>. QED
  BY <1>2, <1>3, Zenon

\* EPollPoller::removeChannel().
LEMMA EPollRemove ==
  ASSUME Inv, kind = "epoll", NEW fd \in channels_, EPollRemoveChannel(fd),
         channels_' = channels_ \ {fd}, UNCHANGED <<kind, exists, events_, pollfds_>>
  PROVE  Inv'
<1>. USE DEF kNew, kAdded, kDeleted
<1>1. Core'
  BY DEF Inv, Core, EPollRemoveChannel
<1>2. IndexesInStep'
  BY Zenon DEF Inv, Core, IndexesInStep, EPollRemoveChannel, Unwatch
<1>3. Stored'
  BY Zenon DEF Inv, Core, IndexesInStep, Stored, EPollRemoveChannel, Unwatch
<1>. QED
  BY <1>1, <1>2, <1>3, Zenon DEF Inv

\* A step that leaves the pollers' and the channels' state alone keeps Inv.
LEMMA InvUnchanged ==
  ASSUME Inv, UNCHANGED <<channels, poller>>
  PROVE  Inv'
BY Zenon DEF Inv, Core, IndexesInStep, Stored, channels, poller

\* Channel::update() with any interest, under either poller.
LEMMA InvUpdate ==
  ASSUME Inv, NEW fd \in Fds, NEW events \in SUBSET Interest, Update(fd, events)
  PROVE  Inv'
<1>1. /\ fd \in exists /\ UNCHANGED <<kind, exists>>
      /\ events_' = [events_ EXCEPT ![fd] = events]
  BY Zenon DEF Update
<1>2. CASE kind = "poll" /\ index_[fd] < 0 /\ AppendPollfd(fd, events)
           /\ channels_' = channels_ \cup {fd}
  BY <1>1, <1>2, PollAdd, Zenon
<1>3. CASE /\ kind = "poll" /\ fd \in channels_
           /\ pollfds_' = [pollfds_ EXCEPT ![index_[fd] + 1] = Pollfd(fd, events)]
           /\ UNCHANGED index_
           /\ channels_' = channels_ \cup {fd}
  <2>1. channels_' = channels_
    BY <1>3, Zenon
  <2>. QED
    BY <1>1, <1>3, <2>1, PollChange, Zenon
<1>4. CASE kind = "epoll" /\ EPollUpdateChannel(fd, events)
  BY <1>1, <1>4, EPollUpdate, Zenon
<1>. QED
  BY <1>2, <1>3, <1>4, Zenon DEF Update, PollUpdateChannel

\* Inv is inductive.
LEMMA InvStep == Inv /\ [Next]_vars => Inv'
<1>. SUFFICES ASSUME Inv, [Next]_vars PROVE Inv'
  BY Zenon
<1>1. ASSUME NEW fd \in Fds, NewChannel(fd) PROVE Inv'
  <2>1. /\ fd \notin channels_ /\ channels_' = channels_
        /\ UNCHANGED <<kind, pollfds_, epollfd_>>
    BY <1>1, Zenon DEF NewChannel, poller, Inv, Core
  <2>2. \A g \in channels_ : index_'[g] = index_[g] /\ events_'[g] = events_[g]
    BY <1>1, <2>1, Zenon DEF NewChannel, Inv, Core
  <2>3. Core'
    BY <1>1, <2>1 DEF NewChannel, Inv, Core, kNew
  <2>4. IndexesInStep' /\ Stored'
    BY <2>1, <2>2, ZenonT(60) DEF Inv, IndexesInStep, Stored
  <2>. QED
    BY <2>3, <2>4, Zenon DEF Inv
<1>2. ASSUME NEW fd \in Fds, Destroy(fd) PROVE Inv'
  BY <1>2, Zenon DEF Destroy, Inv, Core, IndexesInStep, Stored, poller
<1>3. ASSUME NEW fd \in Fds, Remove(fd) PROVE Inv'
  <2>1. CASE kind = "poll" /\ PollRemoveChannel(fd)
    BY <1>3, <2>1, PollRemove, Zenon DEF Remove
  <2>2. CASE kind = "epoll" /\ EPollRemoveChannel(fd) /\ UNCHANGED pollfds_
    BY <1>3, <2>2, EPollRemove, Zenon DEF Remove
  <2>. QED
    BY <1>3, <2>1, <2>2, Zenon DEF Remove
<1>4. ASSUME NEW fd \in Fds,
             \/ DisableAll(fd) \/ EnableReading(fd) \/ DisableReading(fd)
             \/ EnableWriting(fd) \/ DisableWriting(fd)
      PROVE  Inv'
  <2>1. /\ {} \in SUBSET Interest
        /\ events_[fd] \cup {"read"} \in SUBSET Interest
        /\ events_[fd] \ {"read"} \in SUBSET Interest
        /\ events_[fd] \cup {"write"} \in SUBSET Interest
        /\ events_[fd] \ {"write"} \in SUBSET Interest
    BY Zenon DEF Inv, Core, Interest
  <2>. QED
    BY <1>4, <2>1, InvUpdate, Zenon
       DEF DisableAll, EnableReading, DisableReading, EnableWriting, DisableWriting
<1>5. ASSUME NEW ready \in SUBSET DOMAIN Watched, Poll(ready) PROVE Inv'
  BY <1>5, InvUnchanged, Zenon DEF Poll
<1>6. CASE HandleNext
  BY <1>6, InvUnchanged, Zenon DEF HandleNext
<1>7. CASE HandleDone
  BY <1>7, InvUnchanged, Zenon DEF HandleDone
<1>8. CASE UNCHANGED vars
  BY <1>8, InvUnchanged, Zenon DEF vars
<1>. QED
  BY <1>1, <1>2, <1>3, <1>4, <1>5, <1>6, <1>7, <1>8, Zenon DEF Next

\* Every reachable state satisfies Inv.
LEMMA InvAlways == Spec => []Inv
<1>1. Init => Inv
  BY EmptySeq DEF Init, Inv, Core, IndexesInStep, Stored, kNew
<1>. QED
  BY <1>1, InvStep, PTL DEF Spec

\* The indices that updateChannel() and removeChannel() leave in the channels are
\* right after any calls: PollPoller never touches another channel's entry.
THEOREM IndexesKept == Spec => []IndexesInStep
<1>1. Inv => IndexesInStep
  BY Zenon DEF Inv
<1>. QED
  BY <1>1, InvAlways, PTL

\* Both pollers have the kernel watch exactly what the channels ask for.
THEOREM InterestWatched == Spec => []WatchesInterest
<1>1. Inv => WatchesInterest
  <2>. SUFFICES ASSUME Inv, NEW fd \in Fds
                PROVE  (IF fd \in DOMAIN Watched THEN Watched[fd] ELSE {}) =
                       (IF fd \in channels_ THEN events_[fd] ELSE {})
    BY Zenon DEF WatchesInterest
  <2>1. CASE kind = "epoll"
    BY <2>1, Zenon DEF Inv, Core, IndexesInStep, Stored, Watched
  <2>2. CASE kind = "poll"
    <3>1. /\ DOMAIN Watched = {p.fd : p \in Range(pollfds_)} \cap Fds
          /\ fd \in DOMAIN Watched =>
               Watched[fd] = (CHOOSE p \in Range(pollfds_) : p.fd = fd).events
      BY <2>2, Zenon DEF Watched
    <3>2. ASSUME NEW p \in Range(pollfds_), p.fd = fd
          PROVE  fd \in channels_ /\ p.events = events_[fd]
      <4>1. PICK i \in DOMAIN pollfds_ : p = pollfds_[i]
        BY Zenon DEF Range
      <4>2. FdOf(p.fd) = fd
        BY <3>2, FdOfStored, Zenon
      <4>3. fd \in channels_ /\ index_[fd] = i - 1
        BY <2>2, <4>1, <4>2, Zenon DEF Inv, IndexesInStep
      <4>4. i \in Int /\ index_[fd] + 1 = i
        BY <4>3, LenProperties DEF Inv, Core
      <4>. QED
        BY <2>2, <4>1, <4>3, <4>4, Zenon DEF Inv, Stored
    <3>3. CASE fd \in DOMAIN Watched
      <4>1. \E p \in Range(pollfds_) : p.fd = fd
        BY <3>1, <3>3, Zenon
      <4>2. PICK p \in Range(pollfds_) : p.fd = fd /\ Watched[fd] = p.events
        BY <3>1, <3>3, <4>1, Zenon
      <4>. QED
        BY <3>2, <3>3, <4>2, Zenon
    <3>4. CASE fd \notin DOMAIN Watched
      <4>1. ASSUME fd \in channels_ PROVE events_[fd] = {}
        <5>1. index_[fd] + 1 \in DOMAIN pollfds_
          BY <2>2, <4>1, Zenon DEF Inv, IndexesInStep
        <5>2. pollfds_[index_[fd] + 1] \in Range(pollfds_)
          BY <5>1, Zenon DEF Range
        <5>3. pollfds_[index_[fd] + 1].fd # fd
          BY <3>1, <3>4, <5>2, Zenon
        <5>. QED
          BY <2>2, <4>1, <5>3, Zenon DEF Inv, Stored
      <4>. QED
        BY <3>4, <4>1, Zenon
    <3>. QED
      BY <3>3, <3>4, Zenon
  <2>. QED
    BY <2>1, <2>2, Zenon DEF Inv, Core
<1>. QED
  BY <1>1, InvAlways, PTL
-----------------------------------------------------------------------------
(***************************************************************************)
(* What channels rely on when they go.                                     *)
(***************************************************************************)
\* The rest of the types.  A channel that PollPoller does not have, and never
\* had, is kNew; between two calls of poll() no channel is being handled.
Rest ==
  /\ idleFirst \subseteq Fds
  /\ kind = "poll" => epollfd_ = [fd \in {} |-> {}] /\ \A fd \in Fds : index_[fd] >= kNew
  /\ room \in Nat
  /\ activeChannels_ \in Seq(Fds)
  /\ pos \in 0..Len(activeChannels_)
  /\ eventHandling_ \in BOOLEAN
  /\ ~eventHandling_ => pos = 0 /\ made = {}
  /\ made \subseteq Fds

Safe == Rest /\ RemoveFindsIgnored /\ ActiveAlive

\* Inv and Safe are the whole of ChannelsGoSafely.
LEMMA SafeEnough ==
  ASSUME Inv, Safe
  PROVE  ChannelsGoSafely
<1>1. DOMAIN epollfd_ \subseteq Fds
  <2>1. CASE kind = "poll"
    BY <2>1, Zenon DEF Safe, Rest
  <2>2. CASE kind = "epoll"
    BY <2>2, Zenon DEF Inv, Core, IndexesInStep
  <2>. QED  BY <2>1, <2>2, Zenon DEF Inv, Core
<1>2. TypeOK
  BY <1>1, Zenon DEF TypeOK, Inv, Core, Safe, Rest, Entry
<1>. QED  BY <1>2, Zenon DEF ChannelsGoSafely, Safe

\* The channels still to be handled are left alone by a step that leaves loop()
\* where it is and removes no channel.
LEMMA ActiveStays ==
  ASSUME ActiveAlive, UNCHANGED <<activeChannels_, pos, eventHandling_, made>>,
         channels_ \subseteq channels_'
  PROVE  ActiveAlive'
BY ZenonT(60) DEF ActiveAlive

\* Channel::update() keeps Safe.
LEMMA SafeUpdate ==
  ASSUME Inv, Safe, NEW fd \in Fds, NEW events \in SUBSET Interest, Update(fd, events)
  PROVE  Safe'
<1>1. /\ fd \in exists /\ UNCHANGED <<kind, exists, room, activeChannels_, pos, eventHandling_, made>>
      /\ events_' = [events_ EXCEPT ![fd] = events]
      /\ idleFirst' = IF index_[fd] = kNew /\ events = {} THEN idleFirst \cup {fd}
                                                         ELSE idleFirst \ {fd}
      /\ channels_' = channels_ \cup {fd}
  BY Zenon DEF Update, looping, PollUpdateChannel, EPollUpdateChannel
<1>2. ActiveAlive'
  BY <1>1, ActiveStays, Zenon DEF Safe
<1>3. \A g \in Fds : g # fd => events_'[g] = events_[g] /\ (g \in idleFirst' <=> g \in idleFirst)
  BY <1>1, Zenon DEF Inv, Core
<1>4. events_'[fd] = events /\ \A g \in channels_ : g \in Fds
  BY <1>1, Zenon DEF Inv, Core
<1>5. CASE kind = "poll" /\ index_[fd] < 0 /\ AppendPollfd(fd, events) /\ UNCHANGED epollfd_
  <2>1. /\ fd \notin channels_
        /\ \A g \in channels_ : pollfds_'[index_'[g] + 1] = pollfds_[index_[g] + 1]
    BY <1>1, <1>5, PollAdd, Zenon
  <2>2. index_[fd] = kNew
    BY <1>5 DEF Safe, Rest, kNew, Inv, Core
  <2>3. Rest'
    <3>1. Len(pollfds_) \in Nat
      BY LenProperties, Zenon DEF Inv, Core
    <3>2. \A g \in Fds : index_'[g] >= kNew
      BY <1>5, <3>1 DEF Safe, Rest, AppendPollfd, kNew, Inv, Core
    <3>. QED  BY <1>1, <1>5, <3>2, Zenon DEF Safe, Rest
  <2>4. ASSUME NEW g \in channels_', g \notin idleFirst', events_'[g] = {}
        PROVE  pollfds_'[index_'[g] + 1] = [fd |-> Ignored(g), events |-> {}]
    <3>1. g # fd
      BY <1>1, <1>4, <2>2, <2>4, Zenon
    <3>2. g \in channels_ /\ g \notin idleFirst /\ events_[g] = {}
      BY <1>1, <1>3, <1>4, <2>4, <3>1, Zenon
    <3>. QED  BY <1>5, <2>1, <3>2, Zenon DEF Safe, RemoveFindsIgnored
  <2>5. RemoveFindsIgnored'
    BY <2>4, Zenon DEF RemoveFindsIgnored
  <2>. QED  BY <1>2, <2>3, <2>5, Zenon DEF Safe
<1>6. CASE /\ kind = "poll" /\ fd \in channels_
           /\ pollfds_' = [pollfds_ EXCEPT ![index_[fd] + 1] = Pollfd(fd, events)]
           /\ UNCHANGED <<index_, epollfd_>>
  <2>1. channels_' = channels_
    BY <1>1, <1>6, Zenon
  <2>2. /\ pollfds_'[index_'[fd] + 1] = Pollfd(fd, events)
        /\ \A g \in channels_ : g # fd => pollfds_'[index_'[g] + 1] = pollfds_[index_[g] + 1]
    BY <1>1, <1>6, <2>1, PollChange, Zenon
  <2>3. Rest'
    BY <1>1, <1>6, Zenon DEF Safe, Rest
  <2>4. ASSUME NEW g \in channels_', g \notin idleFirst', events_'[g] = {}
        PROVE  pollfds_'[index_'[g] + 1] = [fd |-> Ignored(g), events |-> {}]
    <3>1. CASE g = fd
      BY <1>4, <2>2, <2>4, <3>1, Zenon DEF Pollfd
    <3>2. CASE g # fd
      BY <1>3, <1>4, <1>6, <2>1, <2>2, <2>4, <3>2, Zenon DEF Safe, RemoveFindsIgnored
    <3>. QED  BY <3>1, <3>2, Zenon
  <2>5. RemoveFindsIgnored'
    BY <2>4, Zenon DEF RemoveFindsIgnored
  <2>. QED  BY <1>2, <2>3, <2>5, Zenon DEF Safe
<1>7. CASE kind = "epoll"
  <2>1. Rest'
    BY <1>1, <1>7, Zenon DEF Safe, Rest
  <2>2. RemoveFindsIgnored'
    BY <1>1, <1>7, Zenon DEF RemoveFindsIgnored
  <2>. QED  BY <1>2, <2>1, <2>2, Zenon DEF Safe
<1>. QED
  BY <1>5, <1>6, <1>7, Zenon DEF Update, PollUpdateChannel

\* Channel::remove() keeps Safe: it never takes a channel that is still to be
\* handled, for each is in activeChannels_ once.
LEMMA SafeRemove ==
  ASSUME Inv, Safe, NEW fd \in Fds, Remove(fd)
  PROVE  Safe'
<1>1. /\ fd \in channels_ /\ channels_' = channels_ \ {fd} /\ MayRemove(fd)
      /\ UNCHANGED <<kind, exists, events_, room, activeChannels_, pos, eventHandling_, made>>
      /\ UNCHANGED idleFirst
  BY Zenon DEF Remove, looping
<1>2. ActiveAlive'
  <2>. SUFFICES ASSUME eventHandling_, NEW i \in (pos + 1)..Len(activeChannels_)
                PROVE  activeChannels_[i] \in (channels_ \ {fd}) \ made
    BY <1>1, ZenonT(60) DEF Safe, ActiveAlive
  <2>1. /\ activeChannels_ \in Seq(Fds) /\ Len(activeChannels_) \in Nat
        /\ pos \in 0..Len(activeChannels_)
    BY LenProperties, Zenon DEF Safe, Rest
  <2>2. i \in 1..Len(activeChannels_) /\ i # pos
    BY <2>1
  <2>3. activeChannels_[i] \in channels_ /\ activeChannels_[i] \notin made
    BY Zenon DEF Safe, ActiveAlive
  <2>4. CASE Handling(fd)
    BY <2>1, <2>2, <2>3, <2>4 DEF Handling, Safe, ActiveAlive
  <2>5. CASE fd \notin Range(activeChannels_)
    BY <2>1, <2>2, <2>3, <2>5 DEF Range
  <2>6. CASE fd \in made
    BY <2>3, <2>6, Zenon
  <2>. QED  BY <1>1, <2>4, <2>5, <2>6, Zenon DEF MayRemove
<1>3. CASE kind = "poll" /\ PollRemoveChannel(fd) /\ UNCHANGED epollfd_
  <2>1. \A h \in channels_ : h # fd => pollfds_'[index_'[h] + 1] = pollfds_[index_[h] + 1]
    BY <1>1, <1>3, PollRemove, Zenon
  <2>2. RemoveFindsIgnored'
    BY <1>1, <1>3, <2>1, Zenon DEF Safe, RemoveFindsIgnored
  <2>3. index_[fd] >= kNew /\ index_ \in [Fds -> Int]
    BY <1>1, <1>3, Zenon DEF Safe, Rest, Inv, Core
  <2>4. \A g \in Fds : index_'[g] >= kNew
    BY <1>3, <2>3, Zenon DEF Safe, Rest, PollRemoveChannel
  <2>5. Rest'
    BY <1>1, <1>3, <2>4, Zenon DEF Safe, Rest
  <2>. QED  BY <1>2, <2>2, <2>5, Zenon DEF Safe
<1>4. CASE kind = "epoll"
  <2>1. Rest'
    BY <1>1, <1>4, Zenon DEF Safe, Rest
  <2>2. RemoveFindsIgnored'
    BY <1>1, <1>4, Zenon DEF RemoveFindsIgnored
  <2>. QED  BY <1>2, <2>1, <2>2, Zenon DEF Safe
<1>. QED  BY <1>3, <1>4, Zenon DEF Remove

\* What poll() reports is in the map, once each.
LEMMA SafePoll ==
  ASSUME Inv, Safe, NEW ready \in SUBSET DOMAIN Watched, Poll(ready)
  PROVE  Safe'
<1>1. /\ UNCHANGED <<kind, channels_, exists, events_, index_, pollfds_, epollfd_, idleFirst, pos, made>>
      /\ ~eventHandling_ /\ eventHandling_' = TRUE
  BY Zenon DEF Poll, channels, poller
<1>2. pos = 0 /\ made = {}
  BY <1>1, Zenon DEF Safe, Rest
<1>3. /\ activeChannels_' \in Seq(Fds) /\ room' \in Nat
      /\ \A i \in 1..Len(activeChannels_') :
           /\ activeChannels_'[i] \in channels_
           /\ \A j \in 1..Len(activeChannels_') :
                activeChannels_'[i] = activeChannels_'[j] => i = j
  <2>1. CASE PollReports(ready)
    <3>1. kind = "poll" /\ room' = room /\ ready \subseteq Fds
      BY <2>1, Zenon DEF PollReports, Watched
    <3>. DEFINE found == {i \in DOMAIN pollfds_ : pollfds_[i].fd \in ready}
    <3>2. PICK n \in 0..Len(pollfds_) : \E at \in Bijection(1..n, found) :
            /\ \A i, j \in 1..n : i < j => at[i] < at[j]
            /\ activeChannels_' = [i \in 1..n |-> pollfds_[at[i]].fd]
      BY <2>1, Zenon DEF PollReports
    <3>3. PICK at \in Bijection(1..n, found) :
            activeChannels_' = [i \in 1..n |-> pollfds_[at[i]].fd]
      BY <3>2, Zenon
    <3>4. /\ at \in [1..n -> found]
          /\ \A i, j \in 1..n : at[i] = at[j] => i = j
      BY Zenon DEF Bijection, Injection, IsInjective
    <3>5. n \in Nat
      BY LenProperties DEF Inv, Core
    <3>6. ASSUME NEW i \in 1..n
          PROVE  /\ activeChannels_'[i] = pollfds_[at[i]].fd /\ activeChannels_'[i] \in Fds
                 /\ at[i] \in Int /\ activeChannels_'[i] \in channels_
                 /\ index_[activeChannels_'[i]] = at[i] - 1
      <4>1. /\ at[i] \in DOMAIN pollfds_ /\ pollfds_[at[i]].fd \in ready
            /\ activeChannels_'[i] = pollfds_[at[i]].fd
        BY <3>3, <3>4, Zenon
      <4>2. FdOf(pollfds_[at[i]].fd) = pollfds_[at[i]].fd
        BY <3>1, <4>1, FdOfStored, Zenon
      <4>3. at[i] \in Int
        BY <4>1, LenProperties DEF Inv, Core
      <4>. QED  BY <3>1, <4>1, <4>2, <4>3, ZenonT(60) DEF Inv, IndexesInStep
    <3>7. activeChannels_' \in [1..n -> Fds]
      BY <3>3, <3>6, Zenon
    <3>8. activeChannels_' \in Seq(Fds) /\ Len(activeChannels_') = n
      BY <3>5, <3>7, FunctionIsSeq, Zenon
    <3>9. ASSUME NEW i \in 1..n, NEW j \in 1..n, activeChannels_'[i] = activeChannels_'[j]
          PROVE  i = j
      <4>1. at[i] - 1 = at[j] - 1 /\ at[i] \in Int /\ at[j] \in Int
        BY <3>6, <3>9, Zenon
      <4>2. at[i] = at[j]
        BY <4>1
      <4>. QED  BY <3>4, <4>2, Zenon
    <3>. QED  BY <3>1, <3>6, <3>8, <3>9, Zenon DEF Safe, Rest
  <2>2. CASE EPollReports(ready)
    <3>1. kind = "epoll" /\ ready \subseteq channels_ /\ channels_ \subseteq Fds
      BY <2>2, Zenon DEF EPollReports, Watched, Inv, IndexesInStep, Core
    <3>2. PICK n \in 0..room : /\ activeChannels_' \in Bijection(1..n, ready)
                               /\ room' = IF n = room THEN 2 * room ELSE room
      BY <2>2, Zenon DEF EPollReports
    <3>3. /\ activeChannels_' \in [1..n -> ready]
          /\ \A i, j \in 1..n : activeChannels_'[i] = activeChannels_'[j] => i = j
      BY <3>2, Zenon DEF Bijection, Injection, IsInjective
    <3>4. n \in Nat /\ room' \in Nat
      BY <3>2 DEF Safe, Rest
    <3>5. activeChannels_' \in [1..n -> Fds]
      BY <3>1, <3>3, Zenon
    <3>6. activeChannels_' \in Seq(Fds) /\ Len(activeChannels_') = n
      BY <3>4, <3>5, FunctionIsSeq, Zenon
    <3>. QED  BY <3>1, <3>3, <3>4, <3>6, Zenon
  <2>. QED  BY <2>1, <2>2, Zenon DEF Poll
<1>4. Rest'
  <2>1. Len(activeChannels_') \in Nat
    BY <1>3, LenProperties, Zenon
  <2>. QED  BY <1>1, <1>2, <1>3, <2>1 DEF Safe, Rest
<1>5. ActiveAlive'
  BY <1>1, <1>2, <1>3 DEF ActiveAlive
<1>6. RemoveFindsIgnored'
  BY <1>1, Zenon DEF Safe, RemoveFindsIgnored
<1>. QED  BY <1>4, <1>5, <1>6, Zenon DEF Safe

\* Safe is inductive relative to Inv.
LEMMA SafeStep == Inv /\ Safe /\ [Next]_vars => Safe'
<1>. SUFFICES ASSUME Inv, Safe, [Next]_vars PROVE Safe'
  BY Zenon
<1>1. ASSUME NEW fd \in Fds, NewChannel(fd) PROVE Safe'
  <2>1. /\ fd \notin channels_ /\ UNCHANGED <<kind, channels_, pollfds_, epollfd_>>
        /\ UNCHANGED <<room, activeChannels_, pos, eventHandling_>>
        /\ made' = (IF eventHandling_ THEN made \cup {fd} ELSE made) /\ made' \subseteq Fds
        /\ idleFirst' = idleFirst \ {fd} /\ index_' = [index_ EXCEPT ![fd] = kNew]
        /\ events_' = [events_ EXCEPT ![fd] = {}]
    BY <1>1, Zenon DEF NewChannel, poller, Inv, Core, Safe, Rest
  <2>2. \A g \in channels_ : index_'[g] = index_[g] /\ events_'[g] = events_[g]
    BY <2>1, Zenon DEF Inv, Core
  <2>3. Rest'
    BY <2>1 DEF Safe, Rest, kNew, Inv, Core
  <2>4. RemoveFindsIgnored'
    BY <2>1, <2>2, ZenonT(60) DEF Safe, RemoveFindsIgnored
  <2>5. ActiveAlive'
    BY <2>1, ZenonT(60) DEF Safe, ActiveAlive
  <2>. QED  BY <2>3, <2>4, <2>5, Zenon DEF Safe
<1>2. ASSUME NEW fd \in Fds, Destroy(fd) PROVE Safe'
  BY <1>2, ZenonT(60) DEF Destroy, Safe, Rest, RemoveFindsIgnored, ActiveAlive, poller, looping
<1>3. ASSUME NEW fd \in Fds, Remove(fd) PROVE Safe'
  BY <1>3, SafeRemove, Zenon
<1>4. ASSUME NEW fd \in Fds,
             \/ DisableAll(fd) \/ EnableReading(fd) \/ DisableReading(fd)
             \/ EnableWriting(fd) \/ DisableWriting(fd)
      PROVE  Safe'
  <2>1. /\ {} \in SUBSET Interest
        /\ events_[fd] \cup {"read"} \in SUBSET Interest
        /\ events_[fd] \ {"read"} \in SUBSET Interest
        /\ events_[fd] \cup {"write"} \in SUBSET Interest
        /\ events_[fd] \ {"write"} \in SUBSET Interest
    BY Zenon DEF Inv, Core, Interest
  <2>. QED
    BY <1>4, <2>1, SafeUpdate, Zenon
       DEF DisableAll, EnableReading, DisableReading, EnableWriting, DisableWriting
<1>5. ASSUME NEW ready \in SUBSET DOMAIN Watched, Poll(ready) PROVE Safe'
  BY <1>5, SafePoll, Zenon
<1>6. CASE HandleNext \/ HandleDone
  <2>1. UNCHANGED <<kind, channels_, events_, index_, pollfds_, epollfd_, idleFirst, room, activeChannels_>>
    BY <1>6, Zenon DEF HandleNext, HandleDone, channels, poller
  <2>2. RemoveFindsIgnored'
    BY <2>1, Zenon DEF Safe, RemoveFindsIgnored
  <2>3. Len(activeChannels_) \in Nat
    BY LenProperties, Zenon DEF Safe, Rest
  <2>4. Rest'
    <3>1. /\ pos' \in 0..Len(activeChannels_) /\ eventHandling_' \in BOOLEAN
          /\ (~eventHandling_' => pos' = 0 /\ made' = {}) /\ made' \subseteq Fds
      <4>1. CASE HandleNext
        BY <2>3, <4>1 DEF Safe, Rest, HandleNext
      <4>2. CASE HandleDone
        <5>1. pos' = 0 /\ made' = {} /\ 0 \in 0..Len(activeChannels_)
          BY <2>3, <4>2 DEF HandleDone
        <5>2. eventHandling_' \in BOOLEAN
          BY <4>2, Zenon DEF HandleDone
        <5>. QED  BY <5>1, <5>2, Zenon
      <4>. QED  BY <1>6, <4>1, <4>2, Zenon
    <3>. QED  BY <2>1, <3>1, Zenon DEF Safe, Rest
  <2>5. ActiveAlive'
    BY <1>6, <2>1, <2>3 DEF Safe, Rest, ActiveAlive, HandleNext, HandleDone
  <2>. QED  BY <2>2, <2>4, <2>5, Zenon DEF Safe
<1>7. CASE UNCHANGED vars
  BY <1>7, ZenonT(60) DEF vars, channels, poller, looping, Safe, Rest, RemoveFindsIgnored, ActiveAlive
<1>. QED
  BY <1>1, <1>2, <1>3, <1>4, <1>5, <1>6, <1>7, Zenon DEF Next

\* A channel that may be removed is ignored by then in PollPoller's array, unless
\* it was first updated without interest; and a channel that loop() is still to
\* handle exists, is in the poller's map and comes once, whatever the handlers
\* before it removed, destroyed or made.
THEOREM ChannelsSafe == Spec => []ChannelsGoSafely
<1>1. Init => Safe
  <2>1. Init => Rest
    <3>. SUFFICES ASSUME Init PROVE Rest
      BY Zenon
    <3>1. eventHandling_ \in BOOLEAN /\ made = {}
      BY Zenon DEF Init
    <3>2. activeChannels_ \in Seq(Fds) /\ pos \in 0..Len(activeChannels_) /\ pos = 0
      BY EmptySeq DEF Init
    <3>3. room \in Nat
      BY PollerAssumption, Zenon DEF Init
    <3>4. idleFirst \subseteq Fds
      BY Zenon DEF Init
    <3>5. kind = "poll" => epollfd_ = [fd \in {} |-> {}] /\ \A fd \in Fds : index_[fd] >= kNew
      BY DEF Init, kNew
    <3>. QED  BY <3>1, <3>2, <3>3, <3>4, <3>5, Zenon DEF Rest
  <2>2. Init => RemoveFindsIgnored /\ ActiveAlive
    BY Zenon DEF Init, RemoveFindsIgnored, ActiveAlive
  <2>. QED  BY <2>1, <2>2, Zenon DEF Safe
<1>2. Inv /\ Safe => ChannelsGoSafely
  BY SafeEnough, Zenon
<1>. QED
  BY <1>1, <1>2, SafeStep, InvAlways, PTL DEF Spec
=============================================================================
